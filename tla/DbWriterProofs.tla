--------------------------- MODULE DbWriterProofs ---------------------------
(***************************************************************************)
(* The database writer and its backlog for any feed, capacity, batch and   *)
(* number of faults.                                                       *)
(***************************************************************************)
EXTENDS DbWriter, SequenceTheorems, TLAPS

(* The elements of a sequence are those at its positions.                  *)
LEMMA ToSetIs ==
  ASSUME NEW S, NEW s \in Seq(S)
  PROVE  /\ Len(s) \in Nat
         /\ ToSet(s) \subseteq S
         /\ \A x : x \in ToSet(s) <=> \E i \in 1 .. Len(s) : x = s[i]
  BY LenProperties, ElementOfSeq DEF ToSet

(* Append adds one element.                                                *)
LEMMA ToSetAppend ==
  ASSUME NEW S, NEW s \in Seq(S), NEW e \in S
  PROVE  /\ Append(s, e) \in Seq(S)
         /\ ToSet(Append(s, e)) = ToSet(s) \cup {e}
<1> DEFINE t == Append(s, e)
<1>1. t \in Seq(S) /\ Len(t) = Len(s) + 1 /\ Len(s) \in Nat
  BY AppendProperties, LenProperties
<1>2. /\ \A i \in 1 .. Len(s) : t[i] = s[i]
      /\ t[Len(s) + 1] = e
  BY AppendProperties
<1> HIDE DEF t
<1>3. \A x : x \in ToSet(t) <=> \E i \in 1 .. Len(s) + 1 : x = t[i]
  BY <1>1, ToSetIs
<1>4. \A x : x \in ToSet(s) <=> \E i \in 1 .. Len(s) : x = s[i]
  BY ToSetIs
<1>5. ASSUME NEW x PROVE x \in ToSet(t) <=> x \in ToSet(s) \/ x = e
  BY <1>1, <1>2, <1>3, <1>4
<1>6. ToSet(t) = ToSet(s) \cup {e}
  BY <1>5
<1> QED
  BY <1>1, <1>6 DEF t

(* The same for the sequences of events.                                   *)
LEMMA EventsAppend ==
  \A s \in Seq(Events), e \in Events :
    /\ Append(s, e) \in Seq(Events)
    /\ Len(Append(s, e)) = Len(s) + 1
    /\ ToSet(Append(s, e)) = ToSet(s) \cup {e}
  BY ToSetAppend, AppendProperties

(* Head and Tail take a non-empty sequence apart.                          *)
LEMMA ToSetTail ==
  ASSUME NEW S, NEW s \in Seq(S), s # <<>>
  PROVE  /\ Head(s) \in S /\ Tail(s) \in Seq(S)
         /\ Head(s) = s[1] /\ 1 \in 1 .. Len(s)
         /\ ToSet(s) = ToSet(Tail(s)) \cup {Head(s)}
<1> DEFINE t == Tail(s)
<1>1. /\ Head(s) \in S /\ t \in Seq(S)
      /\ Len(t) = Len(s) - 1 /\ Len(s) \in Nat \ {0}
      /\ \A i \in 1 .. Len(t) : t[i] = s[i + 1]
  BY HeadTailProperties, LenProperties, EmptySeq
<1>2. Head(s) = s[1]
  OBVIOUS
<1> HIDE DEF t
<1>3. \A x : x \in ToSet(t) <=> \E i \in 1 .. Len(t) : x = t[i]
  BY <1>1, ToSetIs
<1>4. \A x : x \in ToSet(s) <=> \E i \in 1 .. Len(s) : x = s[i]
  BY ToSetIs
<1>5. ASSUME NEW x, x \in ToSet(s) PROVE x \in ToSet(t) \/ x = Head(s)
  <2>1. PICK i \in 1 .. Len(s) : x = s[i]
    BY <1>4, <1>5
  <2>2. CASE i = 1
    BY <1>2, <2>1, <2>2
  <2>3. CASE i # 1
    <3>1. i - 1 \in 1 .. Len(t) /\ x = t[i - 1]
      BY <1>1, <2>1, <2>3
    <3> QED
      BY <1>3, <3>1
  <2> QED
    BY <2>2, <2>3
<1>6. ASSUME NEW x, x \in ToSet(t) \/ x = Head(s) PROVE x \in ToSet(s)
  <2>1. CASE x = Head(s)
    BY <1>1, <1>2, <1>4, <2>1
  <2>2. CASE x \in ToSet(t)
    <3>1. PICK i \in 1 .. Len(t) : x = t[i]
      BY <1>3, <2>2
    <3>2. i + 1 \in 1 .. Len(s) /\ x = s[i + 1]
      BY <1>1, <3>1
    <3> QED
      BY <1>4, <3>2
  <2> QED
    BY <1>6, <2>1, <2>2
<1>7. ToSet(s) = ToSet(t) \cup {Head(s)}
  BY <1>5, <1>6
<1> QED
  BY <1>1, <1>2, <1>7 DEF t

-----------------------------------------------------------------------------
(* A pass has tried the lines before the one it is at.                     *)
InBatch    == line <= BatchEnd + 1
LinesTried == \A n \in 1 .. line - 1 : file[n] \in written \cup ToSet(keep)

(* What is on disk was spilled, and only emitted events are anywhere.      *)
Backlogged == ToSet(file) \cup ToSet(keep) \subseteq spilled
Emitted    == written \cup spilled \cup ToSet(queue) \subseteq 1 .. sent

(* The queue keeps the order of emission, and what was written without a   *)
(* detour through the backlog is older than all that still waits in it.    *)
QueueOrdered == \A m, n \in 1 .. Len(queue) : m < n => queue[m] < queue[n]
WrittenFirst == \A i \in written \ spilled, n \in 1 .. Len(queue) : i < queue[n]

IInv ==
    /\ TypeOK
    /\ InBatch /\ LinesTried
    /\ Backlogged /\ Emitted
    /\ QueueOrdered /\ WrittenFirst
    /\ NothingLost
    /\ RowsUpToDate

-----------------------------------------------------------------------------
(* The order of every event has a row.                                     *)
LEMMA FeedTyped ==
  /\ Len(Feed) \in Nat
  /\ Events = 1 .. Len(Feed)
  /\ \A i \in Events : Feed[i].order \in Orders
  BY FeedAssumption, LenProperties DEF Events, Orders

(* The initial state satisfies the inductive invariant.                    *)
LEMMA InitIInv == Init => IInv
<1> SUFFICES ASSUME Init PROVE IInv
  OBVIOUS
<1>1. /\ queue = <<>> /\ file = <<>> /\ keep = <<>> /\ sent = 0 /\ line = 0
      /\ spilled = {} /\ written = {} /\ faults = [k \in FaultKinds |-> 0]
  BY DEF Init
<1>2. TypeOK
  BY <1>1, FeedTyped, QueueAssumption, EmptySeq DEF Init, TypeOK
<1>3. ToSet(<<>>) = {}
  BY DEF ToSet
<1>4. BatchEnd \in Nat
  BY <1>1, BatchAssumption, EmptySeq DEF BatchEnd
<1>5. InBatch /\ LinesTried /\ QueueOrdered /\ WrittenFirst
  BY <1>1, <1>4, EmptySeq DEF InBatch, LinesTried, QueueOrdered, WrittenFirst
<1>6. Backlogged /\ Emitted /\ NothingLost /\ RowsUpToDate
  BY <1>1, <1>3 DEF Backlogged, Emitted, NothingLost, RowsUpToDate
<1> QED
  BY <1>2, <1>5, <1>6 DEF IInv

-----------------------------------------------------------------------------
(* A fault is counted, and no other kind of fault with it.                 *)
LEMMA FaultCounts ==
  ASSUME faults \in [FaultKinds -> Nat], NEW k \in FaultKinds, Fault(k)
  PROVE  /\ faults' \in [FaultKinds -> Nat]
         /\ faults'[k] > 0
         /\ \A h \in FaultKinds \ {k} : faults'[h] = faults[h]
  BY DEF Fault

(* A commit writes the event, and an order's gives its row the status.     *)
LEMMA CommitEffect ==
  ASSUME TypeOK, NEW i \in Events, Commit(i)
  PROVE  /\ written' = written \cup {i}
         /\ written' \subseteq Events
         /\ row' \in [Orders -> 0 .. Len(Feed)]
         /\ \A o \in Orders : row'[o] = IF Feed[i].type = "order" /\ o = Feed[i].order
                                          THEN i ELSE row[o]
  BY FeedTyped DEF Commit, Upserted, TypeOK

(* What an attempt to write event i does: it commits it or leaves the      *)
(* database alone, and its only fault is the connection's.                 *)
LEMMA WriteEffect ==
  ASSUME TypeOK, NEW i \in Events, WriteReturns(i) \/ WriteRaises(i)
  PROVE  /\ conn' \in {"open", "aborted", "broken", "closed"}
         /\ Commit(i) \/ UNCHANGED database
         /\ WriteReturns(i) => Commit(i)
         /\ faults' \in [FaultKinds -> Nat]
         /\ \A k \in FaultKinds \ {"connection"} : faults'[k] = faults[k]
<1>1. CASE WriteReturns(i)
  BY <1>1 DEF WriteReturns, TypeOK
<1>2. CASE Unwritten(i) /\ UNCHANGED faults /\ ~WriteReturns(i)
  BY <1>2 DEF Unwritten, StatementRefused, NeverSent, TypeOK
<1>3. CASE ConnectionBreaks(i) /\ ~WriteReturns(i)
  BY <1>3, FaultCounts DEF ConnectionBreaks, TypeOK, FaultKinds
<1> QED
  BY <1>1, <1>2, <1>3 DEF WriteRaises

(* The three ends of a consumer's turn, as what they do to the event it    *)
(* took from the head of the queue.                                        *)
LEMMA ConsumeEffect ==
  ASSUME TypeOK, Consume
  PROVE  /\ line = 0 /\ queue # <<>> /\ queue' = Tail(queue) /\ Head(queue) \in Events
         /\ UNCHANGED <<phase, sent, line, keep>>
         /\ consumer' \in {"get", "sleep"}
         /\ conn' \in {"open", "aborted", "broken", "closed"}
         /\ faults' \in [FaultKinds -> Nat]
         /\ Commit(Head(queue)) \/ UNCHANGED database
         /\ \/ Commit(Head(queue)) /\ UNCHANGED <<file, spilled>>
            \/ /\ file' = Append(file, Head(queue))
               /\ spilled' = spilled \cup {Head(queue)}
            \/ faults'["disk"] > 0 /\ UNCHANGED <<file, spilled, database>>
         /\ \A k \in FaultKinds \ {"connection", "disk"} : faults'[k] = faults[k]
         /\ faults'["disk"] = 0 => faults["disk"] = 0
<1>1. line = 0 /\ queue # <<>> /\ queue' = Tail(queue) /\ UNCHANGED <<phase, sent>>
  BY DEF Consume, Running
<1>2. Head(queue) \in Events
  BY <1>1, ToSetTail DEF TypeOK
<1>3. CASE ConsumeWrites
  BY <1>1, <1>2, <1>3, WriteEffect DEF ConsumeWrites, backlog, TypeOK, FaultKinds
<1>4. CASE ConsumeSpills
  BY <1>1, <1>2, <1>4, WriteEffect DEF ConsumeSpills, Spilled, TypeOK, FaultKinds
<1>5. CASE ConsumeLoses
  <2>1. /\ faults' \in [FaultKinds -> Nat] /\ faults'["disk"] > 0
        /\ \A k \in FaultKinds \ {"disk"} : faults'[k] = faults[k]
    BY <1>5, FaultCounts DEF ConsumeLoses, TypeOK, FaultKinds
  <2>2. /\ conn' \in {"open", "aborted", "broken", "closed"}
        /\ UNCHANGED database
    BY <1>5 DEF ConsumeLoses, Unwritten, StatementRefused, NeverSent, TypeOK
  <2> QED
    BY <1>1, <1>2, <1>5, <2>1, <2>2 DEF ConsumeLoses, backlog, TypeOK, FaultKinds
<1> QED
  BY <1>3, <1>4, <1>5 DEF Consume

(* A line of a pass: its event is written, or kept for the next file.      *)
LEMMA DrainLineEffect ==
  ASSUME TypeOK, DrainLine
  PROVE  /\ line \in 1 .. BatchEnd /\ BatchEnd \in Nat /\ line \in 1 .. Len(file)
         /\ line' = line + 1 /\ file[line] \in Events /\ file[line] \in ToSet(file)
         /\ UNCHANGED <<sent, phase, queue, consumer, file, spilled>>
         /\ conn' \in {"open", "aborted", "broken", "closed"}
         /\ Commit(file[line]) \/ UNCHANGED database
         /\ \/ Commit(file[line]) /\ UNCHANGED keep
            \/ keep' = Append(keep, file[line])
         /\ faults' \in [FaultKinds -> Nat]
         /\ \A k \in FaultKinds \ {"connection"} : faults'[k] = faults[k]
<1>1. Len(file) \in Nat /\ MaxBatch \in Nat \ {0}
  BY LenProperties, BatchAssumption DEF TypeOK
<1>2. line \in 1 .. BatchEnd /\ BatchEnd \in Nat /\ line \in 1 .. Len(file)
  BY <1>1 DEF DrainLine, BatchEnd
<1>3. file[line] \in Events /\ file[line] \in ToSet(file)
  BY <1>2, ElementOfSeq, ToSetIs DEF TypeOK
<1>4. WriteReturns(file[line]) \/ WriteRaises(file[line])
  BY DEF DrainLine
<1> QED
  BY <1>2, <1>3, <1>4, WriteEffect DEF DrainLine, NextLine

(* The new file: every event of the old one that the pass did not get to,  *)
(* and what it kept.                                                       *)
LEMMA RemainingIs ==
  ASSUME TypeOK
  PROVE  /\ Remaining \in Seq(Events)
         /\ ToSet(Remaining) \subseteq ToSet(keep) \cup ToSet(file)
         /\ ToSet(keep) \subseteq ToSet(Remaining)
         /\ \A n \in MaxBatch + 1 .. Len(file) : file[n] \in ToSet(Remaining)
<1> DEFINE rest == SubSeq(file, MaxBatch + 1, Len(file))
<1>1. Len(file) \in Nat /\ MaxBatch \in Nat \ {0} /\ Len(keep) \in Nat
  BY LenProperties, BatchAssumption DEF TypeOK
<1>2. \A i \in MaxBatch + 1 .. Len(file) : file[i] \in Events
  BY <1>1, ElementOfSeq DEF TypeOK
<1>3. /\ rest \in Seq(Events)
      /\ Len(rest) = IF MaxBatch + 1 <= Len(file) THEN Len(file) - MaxBatch ELSE 0
      /\ \A i \in 1 .. Len(file) - MaxBatch : rest[i] = file[MaxBatch + i]
  <2>1. MaxBatch + 1 \in Int /\ Len(file) \in Int
    BY <1>1
  <2>2. /\ rest \in Seq(Events)
        /\ Len(rest) = IF MaxBatch + 1 <= Len(file) THEN Len(file) - (MaxBatch + 1) + 1 ELSE 0
        /\ \A i \in 1 .. Len(file) - (MaxBatch + 1) + 1 : rest[i] = file[MaxBatch + 1 + i - 1]
    BY <1>2, <2>1, SubSeqProperties
  <2> QED
    BY <1>1, <2>2
<1> HIDE DEF rest
<1>4. keep \in Seq(Events)
  BY DEF TypeOK
<1>5. /\ keep \o rest \in Seq(Events)
      /\ Len(keep \o rest) = Len(keep) + Len(rest)
      /\ \A i \in 1 .. Len(keep) + Len(rest) :
           (keep \o rest)[i] = IF i <= Len(keep) THEN keep[i] ELSE rest[i - Len(keep)]
  BY <1>3, <1>4, ConcatProperties
<1>6. /\ \A x : x \in ToSet(keep) <=> \E i \in 1 .. Len(keep) : x = keep[i]
      /\ \A x : x \in ToSet(file) <=> \E i \in 1 .. Len(file) : x = file[i]
      /\ \A x : x \in ToSet(keep \o rest)
                  <=> \E i \in 1 .. Len(keep) + Len(rest) : x = (keep \o rest)[i]
  BY <1>4, <1>5, ToSetIs DEF TypeOK
<1>7. ASSUME NEW x \in ToSet(keep \o rest) PROVE x \in ToSet(keep) \cup ToSet(file)
  <2>1. PICK i \in 1 .. Len(keep) + Len(rest) : x = (keep \o rest)[i]
    BY <1>6
  <2>2. CASE i <= Len(keep)
    BY <1>1, <1>3, <1>5, <1>6, <2>1, <2>2
  <2>3. CASE i > Len(keep)
    <3>1. /\ i - Len(keep) \in 1 .. Len(file) - MaxBatch
          /\ x = rest[i - Len(keep)]
      BY <1>1, <1>3, <1>5, <2>1, <2>3
    <3>2. MaxBatch + (i - Len(keep)) \in 1 .. Len(file) /\ x = file[MaxBatch + (i - Len(keep))]
      BY <1>1, <1>3, <3>1
    <3> QED
      BY <1>6, <3>2
  <2> QED
    BY <1>1, <1>3, <2>2, <2>3
<1>8. ASSUME NEW x \in ToSet(keep) PROVE x \in ToSet(keep \o rest)
  <2>1. PICK i \in 1 .. Len(keep) : x = keep[i]
    BY <1>6
  <2>2. i \in 1 .. Len(keep) + Len(rest) /\ x = (keep \o rest)[i]
    BY <1>1, <1>3, <1>5, <2>1
  <2> QED
    BY <1>6, <2>2
<1>9. ASSUME NEW n \in MaxBatch + 1 .. Len(file) PROVE file[n] \in ToSet(keep \o rest)
  <2> DEFINE i == Len(keep) + (n - MaxBatch)
  <2>1. i \in 1 .. Len(keep) + Len(rest) /\ i > Len(keep) /\ i - Len(keep) = n - MaxBatch
    BY <1>1, <1>3
  <2>2. rest[n - MaxBatch] = file[n]
    BY <1>1, <1>3
  <2>3. (keep \o rest)[i] = file[n]
    BY <1>1, <1>5, <2>1, <2>2
  <2> QED
    BY <1>6, <2>1, <2>3
<1>10. Remaining = keep \o rest
  BY DEF Remaining, rest
<1> QED
  BY <1>5, <1>7, <1>8, <1>9, <1>10

-----------------------------------------------------------------------------
(* An event is emitted into the queue, into the backlog, or into nothing   *)
(* when the disk fails too.                                                *)
LEMMA EmitEffect ==
  ASSUME TypeOK, Emit
  PROVE  /\ line = 0 /\ sent' = sent + 1 /\ sent' \in Events
         /\ UNCHANGED <<phase, conn, consumer, line, keep, written, row>>
         /\ faults' \in [FaultKinds -> Nat]
         /\ \/ /\ Len(queue) < QueueMax /\ queue' = Append(queue, sent')
               /\ UNCHANGED <<file, spilled, faults>>
            \/ /\ file' = Append(file, sent') /\ spilled' = spilled \cup {sent'}
               /\ UNCHANGED <<queue, faults>>
            \/ faults'["disk"] > 0 /\ UNCHANGED <<queue, file, spilled>>
<1>1. sent' = sent + 1 /\ sent' \in Events
  BY FeedTyped DEF Emit, TypeOK
<1>2. Len(queue) \in Nat /\ QueueMax \in Nat
  BY LenProperties, QueueAssumption DEF TypeOK
<1>3. CASE ~Full(queue)
  BY <1>1, <1>2, <1>3 DEF Emit, Full, database, TypeOK
<1>4. CASE Full(queue)
  <2>1. faults' \in [FaultKinds -> Nat]
    BY <1>4, FaultCounts DEF Emit, TypeOK, FaultKinds
  <2>2. Fault("disk") => faults'["disk"] > 0
    BY FaultCounts DEF TypeOK, FaultKinds
  <2> QED
    BY <1>1, <1>4, <2>1, <2>2 DEF Emit, database
<1> QED
  BY <1>3, <1>4

(* Every step keeps the variables' shape.                                  *)
LEMMA StepType == ASSUME TypeOK, [Next]_vars PROVE TypeOK'
<1>1. ASSUME Emit PROVE TypeOK'
  <2>1. sent' \in 0 .. Len(Feed)
    BY <1>1, EmitEffect, FeedTyped
  <2>2. queue' \in Seq(Events) /\ Len(queue') <= QueueMax
    <3>1. CASE Len(queue) < QueueMax /\ queue' = Append(queue, sent')
      BY <1>1, <3>1, EmitEffect, AppendProperties, LenProperties, QueueAssumption DEF TypeOK
    <3>2. CASE queue' = queue
      BY <3>2 DEF TypeOK
    <3> QED
      BY <1>1, <3>1, <3>2, EmitEffect
  <2>3. file' \in Seq(Events) /\ spilled' \subseteq Events
    BY <1>1, EmitEffect, EventsAppend DEF TypeOK
  <2> QED
    BY <1>1, <2>1, <2>2, <2>3, EmitEffect DEF TypeOK
<1>2. ASSUME Consume PROVE TypeOK'
  <2>1. queue' \in Seq(Events) /\ Len(queue') <= QueueMax
    <3>1. queue \in Seq(Events) /\ queue # <<>> /\ queue' = Tail(queue)
      BY <1>2, ConsumeEffect DEF TypeOK
    <3>2. Tail(queue) \in Seq(Events) /\ Len(Tail(queue)) = Len(queue) - 1
      BY <3>1, HeadTailProperties
    <3> QED
      BY <3>1, <3>2, LenProperties, QueueAssumption DEF TypeOK
  <2>2. file' \in Seq(Events) /\ spilled' \subseteq Events
    BY <1>2, ConsumeEffect, EventsAppend DEF TypeOK
  <2>3. written' \subseteq Events /\ row' \in [Orders -> 0 .. Len(Feed)]
    BY <1>2, ConsumeEffect, CommitEffect DEF TypeOK, database
  <2> QED
    BY <1>2, <2>1, <2>2, <2>3, ConsumeEffect DEF TypeOK
<1>3. ASSUME BackoffEnds PROVE TypeOK'
  BY <1>3 DEF BackoffEnds, TypeOK, backlog, database
<1>4. ASSUME DrainStarts PROVE TypeOK'
  BY <1>4, EmptySeq DEF DrainStarts, TypeOK, process, database
<1>5. ASSUME DrainLine PROVE TypeOK'
  <2>1. keep' \in Seq(Events)
    <3>1. keep \in Seq(Events) /\ file[line] \in Events
      BY <1>5, DrainLineEffect DEF TypeOK
    <3>2. keep' = keep \/ keep' = Append(keep, file[line])
      BY <1>5, DrainLineEffect
    <3> QED
      BY <3>1, <3>2, EventsAppend
  <2>2. written' \subseteq Events /\ row' \in [Orders -> 0 .. Len(Feed)]
    BY <1>5, DrainLineEffect, CommitEffect DEF TypeOK, database
  <2>3. line' \in Nat
    BY <1>5, DrainLineEffect
  <2> QED
    BY <1>5, <2>1, <2>2, <2>3, DrainLineEffect DEF TypeOK
<1>6. ASSUME DrainCompacts PROVE TypeOK'
  <2>1. file' \in Seq(Events)
    BY <1>6, RemainingIs DEF DrainCompacts, TypeOK
  <2>2. faults' \in [FaultKinds -> Nat]
    BY <1>6, FaultCounts DEF DrainCompacts, TypeOK, FaultKinds
  <2> QED
    BY <1>6, <2>1, <2>2 DEF DrainCompacts, TypeOK, process, database
<1>7. ASSUME Start PROVE TypeOK'
  <2>1. faults' \in [FaultKinds -> Nat]
    BY <1>7, FaultCounts DEF Start, TypeOK, FaultKinds
  <2> QED
    BY <1>7, <2>1 DEF Start, TypeOK, backlog, database
<1>8. ASSUME Close PROVE TypeOK'
  <2>1. faults' \in [FaultKinds -> Nat]
    BY <1>8, FaultCounts DEF Close, TypeOK, FaultKinds
  <2> QED
    BY <1>8, <2>1 DEF Close, TypeOK, backlog, database
<1>9. ASSUME Crash PROVE TypeOK'
  <2>1. faults' \in [FaultKinds -> Nat]
    BY <1>9, FaultCounts DEF Crash, TypeOK, FaultKinds
  <2> QED
    BY <1>9, <2>1, EmptySeq, QueueAssumption DEF Crash, TypeOK, database
<1>10. ASSUME UNCHANGED vars PROVE TypeOK'
  BY <1>10 DEF vars, process, backlog, database, TypeOK
<1> QED
  BY <1>1, <1>2, <1>3, <1>4, <1>5, <1>6, <1>7, <1>8, <1>9, <1>10 DEF Next, DrainStep

-----------------------------------------------------------------------------
(* The pass and the backlog.                                               *)

(* The tried lines are written or kept, and what is on disk was spilled.   *)
LEMMA StepBatch ==
  ASSUME TypeOK, InBatch, LinesTried, Backlogged, [Next]_vars
  PROVE  InBatch' /\ LinesTried' /\ Backlogged'
<1>a. Len(file) \in Nat /\ MaxBatch \in Nat \ {0} /\ BatchEnd \in Nat /\ line \in Nat
  BY LenProperties, BatchAssumption DEF TypeOK, BatchEnd
<1>t. TypeOK'
  BY StepType
<1>b. Len(file') \in Nat /\ MaxBatch \in Nat \ {0}
  BY <1>t, LenProperties, BatchAssumption DEF TypeOK
<1>z. ASSUME line' = 0 PROVE InBatch' /\ LinesTried'
  <2>1. InBatch'
    BY <1>b, <1>z DEF InBatch, BatchEnd
  <2>2. LinesTried'
    BY <1>z DEF LinesTried
  <2> QED
    BY <2>1, <2>2
<1>1. ASSUME Emit PROVE InBatch' /\ LinesTried' /\ Backlogged'
  <2>1. \/ file' = file /\ spilled' = spilled
        \/ /\ ToSet(file') = ToSet(file) \cup {sent'}
           /\ spilled' = spilled \cup {sent'}
    BY <1>1, EmitEffect, EventsAppend DEF TypeOK
  <2>2. Backlogged'
    BY <1>1, <2>1, EmitEffect DEF Backlogged
  <2> QED
    BY <1>1, <1>z, <2>2, EmitEffect
<1>2. ASSUME Consume PROVE InBatch' /\ LinesTried' /\ Backlogged'
  <2>1. \/ file' = file /\ spilled' = spilled
        \/ /\ ToSet(file') = ToSet(file) \cup {Head(queue)}
           /\ spilled' = spilled \cup {Head(queue)}
    BY <1>2, ConsumeEffect, EventsAppend DEF TypeOK
  <2>2. Backlogged'
    BY <1>2, <2>1, ConsumeEffect DEF Backlogged
  <2> QED
    BY <1>2, <1>z, <2>2, ConsumeEffect
<1>3. ASSUME DrainStarts PROVE InBatch' /\ LinesTried' /\ Backlogged'
  <2>1. keep' = <<>> /\ line' = 1 /\ file' = file /\ spilled' = spilled
    BY <1>3 DEF DrainStarts
  <2>2. ToSet(<<>>) = {}
    BY DEF ToSet
  <2> QED
    <3>1. InBatch'
      BY <1>b, <2>1 DEF InBatch, BatchEnd
    <3>2. LinesTried'
      BY <2>1 DEF LinesTried
    <3>3. Backlogged'
      BY <2>1, <2>2 DEF Backlogged
    <3> QED
      BY <3>1, <3>2, <3>3
<1>4. ASSUME DrainLine PROVE InBatch' /\ LinesTried' /\ Backlogged'
  <2>1. /\ ToSet(keep) \subseteq ToSet(keep')
        /\ ToSet(keep') \subseteq ToSet(keep) \cup ToSet(file)
        /\ file[line] \in written' \cup ToSet(keep')
        /\ written \subseteq written'
    <3>1. CASE Commit(file[line]) /\ UNCHANGED keep
      BY <1>4, <3>1, DrainLineEffect, CommitEffect
    <3>2. CASE keep' = Append(keep, file[line])
      <4>1. ToSet(keep') = ToSet(keep) \cup {file[line]}
        BY <1>4, <3>2, DrainLineEffect, EventsAppend DEF TypeOK
      <4>2. written \subseteq written'
        BY <1>4, DrainLineEffect, CommitEffect DEF database
      <4> QED
        BY <1>4, <4>1, <4>2, DrainLineEffect
    <3> QED
      BY <1>4, <3>1, <3>2, DrainLineEffect
  <2>2. file' = file /\ spilled' = spilled /\ line' = line + 1 /\ line \in 1 .. BatchEnd
        /\ BatchEnd' = BatchEnd
    BY <1>4, DrainLineEffect DEF BatchEnd
  <2>3. InBatch'
    BY <1>a, <2>2 DEF InBatch
  <2>4. LinesTried'
    <3> SUFFICES ASSUME NEW n \in 1 .. line PROVE file[n] \in written' \cup ToSet(keep')
      BY <1>a, <2>2 DEF LinesTried
    <3>1. n = line \/ n \in 1 .. line - 1
      BY <1>a
    <3> QED
      BY <2>1, <3>1 DEF LinesTried
  <2>5. Backlogged'
    BY <2>1, <2>2 DEF Backlogged
  <2> QED
    BY <2>3, <2>4, <2>5
<1>5. ASSUME DrainCompacts PROVE InBatch' /\ LinesTried' /\ Backlogged'
  <2>1. ToSet(file') \subseteq ToSet(keep) \cup ToSet(file)
    BY <1>5, RemainingIs DEF DrainCompacts
  <2> QED
    BY <1>5, <1>z, <2>1 DEF DrainCompacts, Backlogged
<1>6. ASSUME BackoffEnds \/ Start \/ Close \/ UNCHANGED vars
      PROVE  InBatch' /\ LinesTried' /\ Backlogged'
  BY <1>6 DEF BackoffEnds, Start, Close, vars, backlog, database, InBatch, BatchEnd,
              LinesTried, Backlogged
<1>7. ASSUME Crash PROVE InBatch' /\ LinesTried' /\ Backlogged'
  <2>1. ToSet(<<>>) = {}
    BY DEF ToSet
  <2> QED
    BY <1>7, <1>z, <2>1 DEF Crash, Backlogged
<1> QED
  BY <1>1, <1>2, <1>3, <1>4, <1>5, <1>6, <1>7 DEF Next, DrainStep

(* What the new file of a pass leaves out has been written.                *)
LEMMA CompactionKeeps ==
  ASSUME TypeOK, InBatch, LinesTried, DrainCompacts
  PROVE  ToSet(file) \subseteq ToSet(file') \cup written
<1>1. CASE file' = file
  BY <1>1
<1>2. CASE file' = Remaining
  <2>1. Len(file) \in Nat /\ MaxBatch \in Nat \ {0} /\ line \in Nat
    BY LenProperties, BatchAssumption DEF TypeOK
  <2>2. ASSUME NEW n \in 1 .. Len(file) PROVE file[n] \in ToSet(Remaining) \cup written
    <3>1. CASE n > MaxBatch
      BY <2>1, <3>1, RemainingIs
    <3>2. CASE n <= MaxBatch
      <4>1. n \in 1 .. line - 1
        BY <2>1, <3>2 DEF DrainCompacts, BatchEnd
      <4> QED
        BY <4>1, RemainingIs DEF LinesTried
    <3> QED
      BY <2>1, <3>1, <3>2
  <2> QED
    BY <1>2, <2>2, ToSetIs DEF TypeOK
<1> QED
  BY <1>1, <1>2 DEF DrainCompacts

-----------------------------------------------------------------------------
(* The queue and the order of emission.                                    *)

(* What a step does to the events that are queued, written and spilled.    *)
LEMMA StepEmitted ==
  ASSUME TypeOK, Backlogged, Emitted, [Next]_vars
  PROVE  Emitted'
<1>1. ASSUME sent' = sent, ToSet(queue') \subseteq ToSet(queue), spilled' = spilled,
             written' = written \/ \E i \in spilled \cup ToSet(queue) : written' = written \cup {i}
      PROVE  Emitted'
  BY <1>1 DEF Emitted
<1>2. ASSUME Emit PROVE Emitted'
  <2>1. 1 .. sent' = 1 .. sent \cup {sent'}
    BY <1>2, EmitEffect DEF TypeOK
  <2>2. ToSet(queue') \subseteq ToSet(queue) \cup {sent'}
    BY <1>2, EmitEffect, EventsAppend DEF TypeOK
  <2>3. written' = written /\ spilled' \subseteq spilled \cup {sent'}
    BY <1>2, EmitEffect
  <2> QED
    BY <2>1, <2>2, <2>3 DEF Emitted
<1>3. ASSUME Consume PROVE Emitted'
  <2>1. queue \in Seq(Events) /\ queue # <<>> /\ queue' = Tail(queue) /\ sent' = sent
    BY <1>3, ConsumeEffect DEF TypeOK
  <2>2. ToSet(queue) = ToSet(queue') \cup {Head(queue)}
    BY <2>1, ToSetTail
  <2>3. written' \subseteq written \cup {Head(queue)}
    BY <1>3, ConsumeEffect, CommitEffect DEF database
  <2>4. spilled' \subseteq spilled \cup {Head(queue)}
    BY <1>3, ConsumeEffect
  <2> QED
    BY <2>1, <2>2, <2>3, <2>4 DEF Emitted
<1>4. ASSUME DrainLine PROVE Emitted'
  <2>1. written' = written \/ written' = written \cup {file[line]}
    BY <1>4, DrainLineEffect, CommitEffect DEF database
  <2>2. file[line] \in spilled
    BY <1>4, DrainLineEffect DEF Backlogged
  <2> QED
    BY <1>1, <1>4, <2>1, <2>2, DrainLineEffect
<1>5. ASSUME BackoffEnds \/ DrainStarts \/ DrainCompacts \/ Start \/ Close \/ UNCHANGED vars
      PROVE  Emitted'
  BY <1>1, <1>5 DEF BackoffEnds, DrainStarts, DrainCompacts, Start, Close, vars, process,
                    backlog, database
<1>6. ASSUME Crash PROVE Emitted'
  <2>1. ToSet(<<>>) = {}
    BY DEF ToSet
  <2> QED
    BY <1>1, <1>6, <2>1 DEF Crash, database
<1> QED
  BY <1>2, <1>3, <1>4, <1>5, <1>6 DEF Next, DrainStep

(* The queue stays in order, behind everything written that never left it. *)
LEMMA StepOrdered ==
  ASSUME TypeOK, Backlogged, Emitted, QueueOrdered, WrittenFirst, [Next]_vars
  PROVE  QueueOrdered' /\ WrittenFirst'
<1>q. queue \in Seq(Events) /\ Len(queue) \in Nat
  BY LenProperties DEF TypeOK
<1>e. \A n \in 1 .. Len(queue) : queue[n] \in 1 .. sent
  BY <1>q, ToSetIs DEF Emitted
<1>1. ASSUME queue' = queue, written' \ spilled' \subseteq written \ spilled
      PROVE  QueueOrdered' /\ WrittenFirst'
  BY <1>1 DEF QueueOrdered, WrittenFirst
<1>2. ASSUME Emit PROVE QueueOrdered' /\ WrittenFirst'
  <2>1. CASE queue' = queue
    <3>1. written' = written /\ spilled \subseteq spilled'
      BY <1>2, EmitEffect
    <3> QED
      BY <1>1, <2>1, <3>1
  <2>2. CASE queue' # queue
    <3>1. /\ queue' = Append(queue, sent') /\ sent' = sent + 1 /\ sent' \in Events
          /\ written' = written /\ spilled' = spilled
      BY <1>2, <2>2, EmitEffect
    <3>2. /\ Len(queue') = Len(queue) + 1
          /\ \A n \in 1 .. Len(queue) : queue'[n] = queue[n]
          /\ queue'[Len(queue) + 1] = sent'
      BY <1>q, <3>1, AppendProperties
    <3>3. sent \in Nat
      BY DEF TypeOK
    <3>4. QueueOrdered'
      <4> SUFFICES ASSUME NEW m \in 1 .. Len(queue'), NEW n \in 1 .. Len(queue'), m < n
                   PROVE  queue'[m] < queue'[n]
        BY DEF QueueOrdered
      <4>1. m \in 1 .. Len(queue)
        BY <1>q, <3>2
      <4>2. CASE n \in 1 .. Len(queue)
        BY <3>2, <4>1, <4>2 DEF QueueOrdered
      <4>3. CASE n = Len(queue) + 1
        BY <1>e, <3>1, <3>2, <3>3, <4>1, <4>3
      <4> QED
        BY <1>q, <3>2, <4>2, <4>3
    <3>5. WrittenFirst'
      <4> SUFFICES ASSUME NEW i \in written \ spilled, NEW n \in 1 .. Len(queue')
                   PROVE  i < queue'[n]
        BY <3>1 DEF WrittenFirst
      <4>1. CASE n \in 1 .. Len(queue)
        BY <3>2, <4>1 DEF WrittenFirst
      <4>2. CASE n = Len(queue) + 1
        BY <3>1, <3>2, <3>3, <4>2 DEF Emitted
      <4> QED
        BY <1>q, <3>2, <4>1, <4>2
    <3> QED
      BY <3>4, <3>5
  <2> QED
    BY <2>1, <2>2
<1>3. ASSUME Consume PROVE QueueOrdered' /\ WrittenFirst'
  <2>1. queue # <<>> /\ queue' = Tail(queue)
    BY <1>3, ConsumeEffect
  <2>2. /\ Len(queue') = Len(queue) - 1 /\ Head(queue) = queue[1] /\ 1 \in 1 .. Len(queue)
        /\ \A n \in 1 .. Len(queue') : queue'[n] = queue[n + 1]
    BY <1>q, <2>1, HeadTailProperties, ToSetTail
  <2>3. \A n \in 1 .. Len(queue') : n + 1 \in 1 .. Len(queue) /\ 1 < n + 1
    BY <1>q, <2>2
  <2>4. QueueOrdered'
    <3> SUFFICES ASSUME NEW m \in 1 .. Len(queue'), NEW n \in 1 .. Len(queue'), m < n
                 PROVE  queue'[m] < queue'[n]
      BY DEF QueueOrdered
    <3>1. m + 1 < n + 1
      BY <1>q, <2>2
    <3> QED
      BY <2>2, <2>3, <3>1 DEF QueueOrdered
  <2>5. written' \ spilled' \subseteq (written \ spilled) \cup {Head(queue)}
    BY <1>3, ConsumeEffect, CommitEffect DEF database
  <2>6. WrittenFirst'
    <3> SUFFICES ASSUME NEW i \in written' \ spilled', NEW n \in 1 .. Len(queue')
                 PROVE  i < queue'[n]
      BY DEF WrittenFirst
    <3>1. CASE i \in written \ spilled
      BY <2>2, <2>3, <3>1 DEF WrittenFirst
    <3>2. CASE i = Head(queue)
      BY <2>2, <2>3, <3>2 DEF QueueOrdered
    <3> QED
      BY <2>5, <3>1, <3>2
  <2> QED
    BY <2>4, <2>6
<1>4. ASSUME DrainLine PROVE QueueOrdered' /\ WrittenFirst'
  <2>1. file[line] \in spilled
    BY <1>4, DrainLineEffect DEF Backlogged
  <2>2. written' \subseteq written \cup {file[line]}
    BY <1>4, DrainLineEffect, CommitEffect DEF database
  <2> QED
    BY <1>1, <1>4, <2>1, <2>2, DrainLineEffect
<1>5. ASSUME BackoffEnds \/ DrainStarts \/ DrainCompacts \/ Start \/ Close \/ UNCHANGED vars
      PROVE  QueueOrdered' /\ WrittenFirst'
  BY <1>1, <1>5 DEF BackoffEnds, DrainStarts, DrainCompacts, Start, Close, vars, process,
                    backlog, database
<1>6. ASSUME Crash PROVE QueueOrdered' /\ WrittenFirst'
  <2>1. queue' = <<>>
    BY <1>6 DEF Crash
  <2>2. Len(queue') = 0
    BY <2>1
  <2> QED
    BY <2>2 DEF QueueOrdered, WrittenFirst
<1> QED
  BY <1>2, <1>3, <1>4, <1>5, <1>6 DEF Next, DrainStep

-----------------------------------------------------------------------------
(* Safety of the events.                                                   *)

(* No step but the loss of an append, a close or a crash loses any.        *)
LEMMA StepNothingLost ==
  ASSUME TypeOK, InBatch, LinesTried, NothingLost, [Next]_vars
  PROVE  NothingLost'
<1> DEFINE There == written \cup ToSet(queue) \cup ToSet(file)
<1> SUFFICES ASSUME faults'["disk"] = 0, faults'["close"] = 0, faults'["crash"] = 0
             PROVE  1 .. sent' \subseteq There'
  BY DEF NothingLost
<1>1. ASSUME sent' = sent, There \subseteq There',
             \A k \in {"disk", "close", "crash"} : faults'[k] = 0 => faults[k] = 0
      PROVE  1 .. sent' \subseteq There'
  BY <1>1 DEF NothingLost
<1>2. ASSUME Emit PROVE 1 .. sent' \subseteq There'
  <2>1. 1 .. sent' = 1 .. sent \cup {sent'} /\ written' = written
    BY <1>2, EmitEffect DEF TypeOK
  <2>2. CASE queue' = Append(queue, sent') /\ UNCHANGED <<file, spilled, faults>>
    <3>1. ToSet(queue') = ToSet(queue) \cup {sent'}
      BY <1>2, <2>2, EmitEffect, EventsAppend DEF TypeOK
    <3> QED
      BY <2>1, <2>2, <3>1 DEF NothingLost
  <2>3. CASE file' = Append(file, sent') /\ UNCHANGED <<queue, faults>>
    <3>1. ToSet(file') = ToSet(file) \cup {sent'}
      BY <1>2, <2>3, EmitEffect, EventsAppend DEF TypeOK
    <3> QED
      BY <2>1, <2>3, <3>1 DEF NothingLost
  <2> QED
    BY <1>2, <2>2, <2>3, EmitEffect
<1>3. ASSUME Consume PROVE 1 .. sent' \subseteq There'
  <2>1. queue \in Seq(Events) /\ queue # <<>> /\ queue' = Tail(queue) /\ sent' = sent
    BY <1>3, ConsumeEffect DEF TypeOK
  <2>2. ToSet(queue) = ToSet(queue') \cup {Head(queue)}
    BY <2>1, ToSetTail
  <2>a. file \in Seq(Events) /\ Head(queue) \in Events
    BY <1>3, ConsumeEffect DEF TypeOK
  <2>b. file' = Append(file, Head(queue)) => ToSet(file') = ToSet(file) \cup {Head(queue)}
    BY <2>a, EventsAppend
  <2>3. written \subseteq written' /\ ToSet(file) \subseteq ToSet(file')
    BY <1>3, <2>a, <2>b, ConsumeEffect, CommitEffect DEF database
  <2>4. Head(queue) \in written' \cup ToSet(file')
    BY <1>3, <2>a, <2>b, ConsumeEffect, CommitEffect
  <2>5. There \subseteq There'
    BY <2>2, <2>3, <2>4
  <2>6. \A k \in {"disk", "close", "crash"} : faults'[k] = 0 => faults[k] = 0
    BY <1>3, ConsumeEffect DEF FaultKinds
  <2> QED
    BY <1>1, <2>1, <2>5, <2>6
<1>4. ASSUME DrainLine PROVE 1 .. sent' \subseteq There'
  <2>1. written \subseteq written'
    BY <1>4, DrainLineEffect, CommitEffect DEF database
  <2>2. There \subseteq There'
    BY <1>4, <2>1, DrainLineEffect
  <2>3. \A k \in {"disk", "close", "crash"} : faults'[k] = faults[k]
    BY <1>4, DrainLineEffect DEF FaultKinds
  <2> QED
    BY <1>1, <1>4, <2>2, <2>3, DrainLineEffect
<1>5. ASSUME DrainCompacts PROVE 1 .. sent' \subseteq There'
  <2>1. written' = written /\ queue' = queue /\ sent' = sent
    BY <1>5 DEF DrainCompacts, process, database
  <2>2. There \subseteq There'
    BY <1>5, <2>1, CompactionKeeps
  <2>3. faults' = faults
    BY <1>5, FaultCounts DEF DrainCompacts, TypeOK, FaultKinds
  <2> QED
    BY <1>1, <2>1, <2>2, <2>3
<1>6. ASSUME BackoffEnds \/ DrainStarts \/ UNCHANGED vars PROVE 1 .. sent' \subseteq There'
  BY <1>1, <1>6 DEF BackoffEnds, DrainStarts, vars, process, backlog, database
<1>7. ASSUME Start PROVE 1 .. sent' \subseteq There'
  <2>1. There' = There /\ sent' = sent
    BY <1>7 DEF Start, backlog, database
  <2>2. \A k \in {"disk", "close", "crash"} : faults'[k] = faults[k]
    BY <1>7, FaultCounts DEF Start, TypeOK, FaultKinds
  <2> QED
    BY <1>1, <2>1, <2>2
<1>8. ~Close /\ ~Crash
  BY FaultCounts DEF Close, Crash, TypeOK, FaultKinds
<1> QED
  BY <1>2, <1>3, <1>4, <1>5, <1>6, <1>7, <1>8 DEF Next, DrainStep

(* A commit gives its row the status of an event that is the last one, or  *)
(* of one that went through the backlog.                                   *)
LEMMA StepRows ==
  ASSUME TypeOK, Backlogged, WrittenFirst, RowsUpToDate, [Next]_vars
  PROVE  RowsUpToDate'
<1> DEFINE SameOrder(i, j) == Feed[j].type = "order" /\ Feed[j].order = Feed[i].order
           Detour(i) == \E j \in spilled : SameOrder(i, j)
<1>t. written \subseteq Events /\ Events \subseteq Nat
  BY FeedTyped DEF TypeOK
<1>1. ASSUME UNCHANGED database, spilled \subseteq spilled' PROVE RowsUpToDate'
  BY <1>1 DEF RowsUpToDate, database
<1>2. ASSUME NEW e \in Events, Commit(e), spilled \subseteq spilled',
             e \in spilled' \/ \A i \in written \ spilled : i < e
      PROVE  RowsUpToDate'
  <2> SUFFICES ASSUME NEW i \in written', Feed[i].type = "order"
               PROVE  row'[Feed[i].order] >= i \/ Detour(i)'
    BY DEF RowsUpToDate
  <2>0. i \in Events /\ Feed[i].order \in Orders /\ Feed[i].order = Feed[i].order
    BY <1>t, <1>2, CommitEffect, FeedTyped
  <2>1. CASE SameOrder(i, e)
    <3>1. row'[Feed[i].order] = e
      BY <1>2, <2>0, <2>1, CommitEffect
    <3>2. CASE e \in spilled' \/ i \in spilled'
      BY <2>1, <3>2
    <3>3. CASE i = e
      BY <1>t, <1>2, <3>1, <3>3
    <3>4. CASE i \in written \ spilled /\ e \notin spilled'
      BY <1>t, <1>2, <3>1, <3>4
    <3> QED
      BY <1>2, <3>2, <3>3, <3>4, CommitEffect
  <2>2. CASE ~SameOrder(i, e)
    <3>1. row'[Feed[i].order] = row[Feed[i].order]
      BY <1>2, <2>0, <2>2, CommitEffect
    <3>2. i \in written
      BY <1>2, <2>2, CommitEffect
    <3> QED
      BY <1>2, <3>1, <3>2 DEF RowsUpToDate
  <2> QED
    BY <2>1, <2>2
<1>3. ASSUME Consume PROVE RowsUpToDate'
  <2>1. spilled \subseteq spilled'
    BY <1>3, ConsumeEffect
  <2>2. \A i \in written \ spilled : i < Head(queue)
    BY <1>3, ConsumeEffect, ToSetTail DEF WrittenFirst, TypeOK
  <2>3. Head(queue) \in Events
    BY <1>3, ConsumeEffect
  <2>4. Commit(Head(queue)) \/ UNCHANGED database
    BY <1>3, ConsumeEffect
  <2> QED
    BY <1>1, <1>2, <2>1, <2>2, <2>3, <2>4
<1>4. ASSUME DrainLine PROVE RowsUpToDate'
  <2>1. spilled' = spilled /\ file[line] \in Events /\ file[line] \in spilled
    BY <1>4, DrainLineEffect DEF Backlogged
  <2>2. Commit(file[line]) \/ UNCHANGED database
    BY <1>4, DrainLineEffect
  <2> QED
    BY <1>1, <1>2, <2>1, <2>2
<1>5. ASSUME Emit PROVE RowsUpToDate'
  BY <1>1, <1>5, EmitEffect DEF database
<1>6. ASSUME BackoffEnds \/ DrainStarts \/ DrainCompacts \/ Start \/ Close \/ Crash
           \/ UNCHANGED vars
      PROVE  RowsUpToDate'
  BY <1>1, <1>6 DEF BackoffEnds, DrainStarts, DrainCompacts, Start, Close, Crash, vars,
                    backlog
<1> QED
  BY <1>3, <1>4, <1>5, <1>6 DEF Next, DrainStep

-----------------------------------------------------------------------------
(* Every reachable state satisfies the inductive invariant.                *)
THEOREM Inductive == Spec => []IInv
<1>1. Init => IInv
  BY InitIInv
<1>2. IInv /\ [Next]_vars => IInv'
  BY StepType, StepBatch, StepEmitted, StepOrdered, StepNothingLost, StepRows DEF IInv
<1> QED
  BY <1>1, <1>2, PTL DEF Spec

(* Queue, backlog, tables and connection keep their shape, and the queue   *)
(* its capacity, through failed writes, passes and crashes.                *)
THEOREM TypeCorrect == Spec => []TypeOK
<1>1. IInv => TypeOK
  BY DEF IInv
<1> QED
  BY <1>1, Inductive, PTL

(* Whatever the database and the connection refuse, whatever the feed, the *)
(* capacity and the batch, enqueue, _consumer_loop and drain lose no event *)
(* between them: only the disk, close() and a crash do.                    *)
THEOREM NoEventIsLost == Spec => []NothingLost
<1>1. IInv => NothingLost
  BY DEF IInv
<1> QED
  BY <1>1, Inductive, PTL

(* The upsert of _write_event leaves the last status in the row of an      *)
(* order, as long as none of the order's events went through the backlog.  *)
THEOREM RowsAreUpToDate == Spec => []RowsUpToDate
<1>1. IInv => RowsUpToDate
  BY DEF IInv
<1> QED
  BY <1>1, Inductive, PTL

(* append and drain never drop a line of the backlog whose event was not   *)
(* written, wherever a pass fails or the process dies.                     *)
THEOREM BacklogIsSafe == Spec => SpilledIsSafe
<1> DEFINE Kept == ToSet(file) \subseteq ToSet(file') \cup written'
<1>1. ASSUME IInv, Next PROVE Kept
  <2>0. TypeOK /\ InBatch /\ LinesTried
    BY <1>1 DEF IInv
  <2>1. CASE Emit
    BY <2>0, <2>1, EmitEffect, EventsAppend DEF TypeOK
  <2>2. CASE Consume
    BY <2>0, <2>2, ConsumeEffect, EventsAppend DEF TypeOK
  <2>3. CASE DrainLine
    BY <2>0, <2>3, DrainLineEffect
  <2>4. CASE DrainCompacts
    BY <2>0, <2>4, CompactionKeeps DEF DrainCompacts, database
  <2>5. CASE BackoffEnds \/ DrainStarts \/ Start \/ Close \/ Crash
    BY <2>5 DEF BackoffEnds, DrainStarts, Start, Close, Crash, backlog
  <2> QED
    BY <1>1, <2>1, <2>2, <2>3, <2>4, <2>5 DEF Next, DrainStep
<1>2. IInv /\ [Next]_vars => [Kept]_vars
  BY <1>1
<1> QED
  BY <1>2, Inductive, PTL DEF Spec, SpilledIsSafe

-----------------------------------------------------------------------------
(* The writer implements the abstract outbox.                              *)

(* An event is not in two places: what still waits in the queue never was  *)
(* in the backlog, and what a pass keeps is on disk too.                   *)
Apart     == \A e \in ToSet(queue) : e \notin spilled
KeptThere == ToSet(keep) \subseteq ToSet(file)

BoxInv == IInv /\ Apart /\ KeptThere

(* What waits in the queue is distinct and not written.                    *)
LEMMA Waiting ==
  ASSUME BoxInv
  PROVE  /\ ToSet(queue) \cap written = {}
         /\ queue # <<>> => /\ Head(queue) \in ToSet(queue)
                            /\ Head(queue) \notin ToSet(Tail(queue))
                            /\ Head(queue) \notin ToSet(file)
<1>1. queue \in Seq(Events) /\ Len(queue) \in Nat
  BY LenProperties DEF BoxInv, IInv, TypeOK
<1>2. \A x : x \in ToSet(queue) <=> \E i \in 1 .. Len(queue) : x = queue[i]
  BY <1>1, ToSetIs
<1>3. ASSUME NEW x \in ToSet(queue), x \in written PROVE FALSE
  <2>1. PICK n \in 1 .. Len(queue) : x = queue[n]
    BY <1>2
  <2>2. x \in written \ spilled
    BY <1>3 DEF BoxInv, Apart
  <2>3. x < x
    BY <2>1, <2>2 DEF BoxInv, IInv, WrittenFirst
  <2>4. x \in Int
    BY <1>3, FeedTyped DEF BoxInv, IInv, TypeOK
  <2> QED
    BY <2>3, <2>4
<1>4. ASSUME queue # <<>> PROVE /\ Head(queue) \in ToSet(queue)
                                /\ Head(queue) \notin ToSet(Tail(queue))
                                /\ Head(queue) \notin ToSet(file)
  <2>1. /\ Tail(queue) \in Seq(Events) /\ Head(queue) \in Events
        /\ Head(queue) = queue[1] /\ 1 \in 1 .. Len(queue)
        /\ ToSet(queue) = ToSet(Tail(queue)) \cup {Head(queue)}
        /\ Len(Tail(queue)) = Len(queue) - 1
        /\ \A i \in 1 .. Len(Tail(queue)) : Tail(queue)[i] = queue[i + 1]
    BY <1>1, <1>4, ToSetTail, HeadTailProperties
  <2>2. ASSUME Head(queue) \in ToSet(Tail(queue)) PROVE FALSE
    <3>0. \A x : x \in ToSet(Tail(queue))
                   <=> \E i \in 1 .. Len(Tail(queue)) : x = Tail(queue)[i]
      BY <2>1, ToSetIs
    <3>1. PICK i \in 1 .. Len(Tail(queue)) : Head(queue) = Tail(queue)[i]
      BY <2>2, <3>0
    <3>2. i + 1 \in 1 .. Len(queue) /\ 1 < i + 1 /\ queue[1] = queue[i + 1]
      BY <1>1, <2>1, <3>1
    <3>3. queue[1] < queue[1]
      BY <2>1, <3>2 DEF BoxInv, IInv, QueueOrdered
    <3>4. queue[1] \in Int
      BY <2>1, FeedTyped
    <3> QED
      BY <3>3, <3>4
  <2>3. Head(queue) \notin spilled
    BY <2>1 DEF BoxInv, Apart
  <2>4. Head(queue) \notin ToSet(file)
    BY <2>3 DEF BoxInv, IInv, Backlogged
  <2> QED
    BY <2>1, <2>2, <2>4
<1> QED
  BY <1>3, <1>4

(* Every step keeps the places of an event apart.                          *)
LEMMA StepApart ==
  ASSUME BoxInv, [Next]_vars
  PROVE  Apart' /\ KeptThere'
<1>0. TypeOK /\ Backlogged /\ Emitted /\ InBatch /\ LinesTried
  BY DEF BoxInv, IInv
<1>t. /\ queue \in Seq(Events) /\ file \in Seq(Events) /\ keep \in Seq(Events)
      /\ ToSet(<<>>) = {}
  BY <1>0 DEF TypeOK, ToSet
<1>1. ASSUME Emit PROVE Apart' /\ KeptThere'
  <2>1. sent' \notin ToSet(queue) \cup spilled
    <3>1. sent' \notin 1 .. sent
      BY <1>0, <1>1, EmitEffect DEF TypeOK
    <3> QED
      BY <1>0, <3>1 DEF Emitted
  <2>2. \/ ToSet(queue') = ToSet(queue) \cup {sent'} /\ file' = file /\ spilled' = spilled
        \/ /\ queue' = queue /\ ToSet(file') = ToSet(file) \cup {sent'}
           /\ spilled' = spilled \cup {sent'}
        \/ queue' = queue /\ file' = file /\ spilled' = spilled
    BY <1>0, <1>1, <1>t, EmitEffect, EventsAppend
  <2>3. keep' = keep
    BY <1>0, <1>1, EmitEffect
  <2> QED
    BY <2>1, <2>2, <2>3 DEF BoxInv, Apart, KeptThere
<1>2. ASSUME Consume PROVE Apart' /\ KeptThere'
  <2>1. queue # <<>> /\ queue' = Tail(queue) /\ keep' = keep /\ Head(queue) \in Events
    BY <1>0, <1>2, ConsumeEffect
  <2>2. /\ ToSet(queue) = ToSet(queue') \cup {Head(queue)}
        /\ Head(queue) \notin ToSet(queue')
    BY <1>t, <2>1, ToSetTail, Waiting
  <2>3. /\ ToSet(file) \subseteq ToSet(file')
        /\ spilled' \subseteq spilled \cup {Head(queue)}
    BY <1>0, <1>2, <1>t, <2>1, ConsumeEffect, EventsAppend
  <2> QED
    BY <2>1, <2>2, <2>3 DEF BoxInv, Apart, KeptThere
<1>3. ASSUME DrainLine PROVE Apart' /\ KeptThere'
  <2>1. ToSet(keep') \subseteq ToSet(keep) \cup {file[line]}
    BY <1>0, <1>3, <1>t, DrainLineEffect, EventsAppend
  <2>2. file[line] \in ToSet(file) /\ file' = file /\ queue' = queue /\ spilled' = spilled
    BY <1>0, <1>3, DrainLineEffect
  <2> QED
    BY <2>1, <2>2 DEF BoxInv, Apart, KeptThere
<1>4. ASSUME DrainCompacts PROVE Apart' /\ KeptThere'
  <2>1. ToSet(keep) \subseteq ToSet(file')
    BY <1>0, <1>4, RemainingIs DEF DrainCompacts, BoxInv, KeptThere
  <2> QED
    BY <1>4, <2>1 DEF DrainCompacts, process, BoxInv, Apart, KeptThere
<1>5. ASSUME DrainStarts \/ Crash PROVE Apart' /\ KeptThere'
  BY <1>5, <1>t DEF DrainStarts, Crash, process, BoxInv, Apart, KeptThere
<1>6. ASSUME BackoffEnds \/ Start \/ Close \/ UNCHANGED vars PROVE Apart' /\ KeptThere'
  BY <1>6 DEF BackoffEnds, Start, Close, vars, process, backlog, BoxInv, Apart, KeptThere
<1> QED
  BY <1>1, <1>2, <1>3, <1>4, <1>5, <1>6 DEF Next, DrainStep

(* What each step is for the outbox.                                       *)
LEMMA StepRefines ==
  ASSUME BoxInv, [Next]_vars
  PROVE  [Abstract!Next]_(Abstract!vars)
<1> DEFINE Safe == ToSet(file) \ written
<1>0. TypeOK /\ Backlogged /\ Emitted /\ InBatch /\ LinesTried
  BY DEF BoxInv, IInv
<1>t. queue \in Seq(Events) /\ file \in Seq(Events)
  BY <1>0 DEF TypeOK
<1>1. ASSUME Emit PROVE Abstract!Emit
  <2>1. sent' \notin written
    <3>1. sent' \notin 1 .. sent
      BY <1>0, <1>1, EmitEffect DEF TypeOK
    <3> QED
      BY <1>0, <3>1 DEF Emitted
  <2>2. /\ sent' = sent + 1 /\ written' = written
        /\ \/ queue' = Append(queue, sent') /\ file' = file
           \/ queue' = queue /\ ToSet(file') = ToSet(file) \cup {sent'}
           \/ queue' = queue /\ file' = file
    BY <1>0, <1>1, <1>t, EmitEffect, EventsAppend
  <2>3. \/ queue' = Append(queue, sent') /\ Safe' = Safe
        \/ queue' = queue /\ Safe' = Safe \cup {sent'}
        \/ queue' = queue /\ Safe' = Safe
    BY <2>1, <2>2
  <2> QED
    BY <2>2, <2>3 DEF Abstract!Emit, Abstract!Secure, Abstract!Lose
<1>2. ASSUME Consume PROVE Abstract!Take
  <2> DEFINE h == Head(queue)
  <2>1. queue # <<>> /\ queue' = Tail(queue) /\ sent' = sent /\ h \in Events
    BY <1>0, <1>2, ConsumeEffect
  <2>2. h \notin ToSet(file) /\ h \notin written
    BY <2>1, Waiting
  <2>3. \/ ToSet(file') = ToSet(file) /\ written' = written \cup {h}
        \/ /\ ToSet(file') = ToSet(file) \cup {h}
           /\ written' = written \/ written' = written \cup {h}
        \/ ToSet(file') = ToSet(file) /\ written' = written
    <3>1. Commit(h) => written' = written \cup {h}
      BY <1>0, <2>1, CommitEffect
    <3>2. file' = Append(file, h) => ToSet(file') = ToSet(file) \cup {h}
      BY <1>t, <2>1, EventsAppend
    <3>3. \/ Commit(h) /\ file' = file
          \/ file' = Append(file, h) /\ (Commit(h) \/ written' = written)
          \/ file' = file /\ written' = written
      BY <1>0, <1>2, ConsumeEffect DEF database
    <3> HIDE DEF h
    <3> QED
      BY <3>1, <3>2, <3>3
  <2> HIDE DEF h
  <2>4. \/ Safe' = Safe /\ written' = written \cup {h}
        \/ Safe' = Safe \cup {h} /\ written' = written
        \/ Safe' = Safe /\ written' = written
    BY <2>2, <2>3
  <2> QED
    BY <2>1, <2>4 DEF h, Abstract!Take, Abstract!Done, Abstract!Secure, Abstract!Lose
<1>3. ASSUME DrainLine PROVE Abstract!Finish \/ UNCHANGED Abstract!vars
  <2> DEFINE e == file[line]
  <2>1. /\ e \in ToSet(file) /\ file' = file /\ sent' = sent /\ queue' = queue
        /\ written' = written \/ written' = written \cup {e}
    BY <1>0, <1>3, DrainLineEffect, CommitEffect DEF database
  <2> HIDE DEF e
  <2>2. \/ e \in Safe /\ Safe' = Safe \ {e} /\ written' = written \cup {e}
        \/ Safe' = Safe /\ written' = written
    BY <2>1
  <2> QED
    BY <2>1, <2>2 DEF Abstract!Finish, Abstract!vars
<1>4. ASSUME DrainCompacts PROVE UNCHANGED Abstract!vars
  <2>1. ToSet(file) \subseteq ToSet(file') \cup written
    BY <1>0, <1>4, CompactionKeeps
  <2>2. ToSet(file') \subseteq ToSet(file)
    BY <1>0, <1>4, RemainingIs DEF DrainCompacts, BoxInv, KeptThere
  <2>3. written' = written /\ sent' = sent /\ queue' = queue
    BY <1>4 DEF DrainCompacts, process, database
  <2>4. Safe' = Safe
    BY <2>1, <2>2, <2>3
  <2> QED
    BY <2>3, <2>4 DEF Abstract!vars
<1>5. ASSUME Crash PROVE Abstract!Forget
  BY <1>5 DEF Crash, database, Abstract!Forget
<1>6. ASSUME BackoffEnds \/ DrainStarts \/ Start \/ Close \/ UNCHANGED vars
      PROVE  UNCHANGED Abstract!vars
  BY <1>6 DEF BackoffEnds, DrainStarts, Start, Close, vars, process, backlog, database,
              Abstract!vars
<1> QED
  BY <1>1, <1>2, <1>3, <1>4, <1>5, <1>6 DEF Next, DrainStep, Abstract!Next

(* For any feed, capacity and batch, queue and backlog are together the    *)
(* outbox a bot expects: enqueue, _consumer_loop, drain and crashes take   *)
(* no event out of turn, out of safety or out of nowhere.                  *)
THEOREM Refinement == Spec => IsOutbox
<1>1. Init => Abstract!Init /\ Apart /\ KeptThere
  BY DEF Init, Abstract!Init, ToSet, Apart, KeptThere
<1>2. IInv /\ Apart /\ KeptThere /\ [Next]_vars => Apart' /\ KeptThere'
  BY StepApart DEF BoxInv
<1>3. IInv /\ Apart /\ KeptThere /\ [Next]_vars => [Abstract!Next]_(Abstract!vars)
  BY StepRefines DEF BoxInv
<1> QED
  BY <1>1, <1>2, <1>3, Inductive, PTL DEF Spec, IsOutbox, Abstract!Spec
=============================================================================
