------------------------------ MODULE AuditService ------------------------------
(***************************************************************************)
(* The audit trail of one API process: log and flushQueue of               *)
(* apps/api/src/services/audit.service.ts over the table audit_events.     *)
(*                                                                         *)
(* log never fails its caller: an event whose transaction fails goes into  *)
(* an in-memory queue that an interval timer flushes, a batch at a time.   *)
(* The interval does not wait for the flush it started, so several flushes *)
(* can be in flight; they interleave at every await.  shutdown, which      *)
(* nothing calls, and query, which changes nothing, are left out.          *)
(***************************************************************************)
EXTENDS Naturals, Sequences, FiniteSets, Functions

CONSTANTS
    Events,                 \* audit events, each logged once
    Flushes,                \* flushes that can be in flight
    QueueMax, BatchMax,     \* FALLBACK_QUEUE_MAX and the 50 of a batch
    Unwritable              \* events no row can hold: actorId is no UUID

VARIABLES
    rows,                   \* event -> number of its rows in audit_events
    pending,                \* events whose log transaction is in flight
    queue,                  \* fallbackQueue
    batch,                  \* flush -> events it has yet to write, <<>> if idle
    logged,                 \* history: events that log was called with
    doubtful,               \* history: events inserted in spite of an error
    gone,                   \* history: events that overflowed or died with the process
    abandoned               \* history: events a failed flush had in hand

vars == <<rows, pending, queue, batch, logged, doubtful, gone, abandoned>>

ASSUME BoundsArePositive == QueueMax \in Nat \ {0} /\ BatchMax \in Nat \ {0}
ASSUME UnwritableAreEvents == Unwritable \subseteq Events
ASSUME FlushesAreFinite == IsFiniteSet(Flushes)

Batched == UNION {Range(batch[f]) : f \in Flushes}

\* The transaction that inserts the row of e succeeds, or reports an error;
\* the connection may break after the commit.  Bound: an event is inserted in
\* spite of an error once.
Insert(e) == e \notin Unwritable /\ rows' = [rows EXCEPT ![e] = @ + 1]
Committed(e) == Insert(e) /\ UNCHANGED doubtful
Failed(e) == \/ UNCHANGED <<rows, doubtful>>
             \/ /\ e \notin doubtful
                /\ Insert(e)
                /\ doubtful' = doubtful \cup {e}

-----------------------------------------------------------------------------
(***************************************************************************)
(* log                                                                     *)
(***************************************************************************)
Log(e) ==
    /\ e \notin logged
    /\ logged' = logged \cup {e}
    /\ pending' = pending \cup {e}
    /\ UNCHANGED <<rows, queue, batch, doubtful, gone, abandoned>>

LogWritten(e) ==
    /\ e \in pending
    /\ Committed(e)
    /\ pending' = pending \ {e}
    /\ UNCHANGED <<queue, batch, logged, gone, abandoned>>

\* Mutant: the length is compared one too late.
EnqueueLate(e) ==
    IF Len(queue) > QueueMax THEN Append(Tail(queue), e) ELSE Append(queue, e)

\* enqueue: a full queue drops its oldest event.
Enqueue(e) ==
    IF Len(queue) >= QueueMax THEN Append(Tail(queue), e) ELSE Append(queue, e)

LogFailed(e) ==
    /\ e \in pending
    /\ Failed(e)
    /\ pending' = pending \ {e}
    /\ queue' = Enqueue(e)
    /\ gone' = gone \cup (Range(queue) \ Range(queue'))
    /\ UNCHANGED <<batch, logged, abandoned>>

-----------------------------------------------------------------------------
(***************************************************************************)
(* flushQueue, called by the interval timer.                               *)
(***************************************************************************)
WholeQueue == Len(queue)        \* Mutant: batches have no maximum.
BatchSize == IF Len(queue) < BatchMax THEN Len(queue) ELSE BatchMax

\* Mutant: the batch is copied and stays in the queue.
KeepQueued == queue
\* Mutant: one event more than the batch is removed.
SkipOneMore == SubSeq(queue, BatchSize + 2, Len(queue))

\* What splice leaves in the queue.
AfterSplice == SubSeq(queue, BatchSize + 1, Len(queue))

StartFlush(f) ==
    /\ batch[f] = <<>>
    /\ queue # <<>>
    /\ batch' = [batch EXCEPT ![f] = SubSeq(queue, 1, BatchSize)]
    /\ queue' = AfterSplice
    /\ UNCHANGED <<rows, pending, logged, doubtful, gone, abandoned>>

\* Mutant: the rest of the batch is forgotten after the first event.
FlushFirst(f) ==
    /\ batch[f] # <<>>
    /\ Committed(Head(batch[f]))
    /\ batch' = [batch EXCEPT ![f] = <<>>]
    /\ UNCHANGED <<pending, queue, logged, gone, abandoned>>

FlushWritten(f) ==
    /\ batch[f] # <<>>
    /\ Committed(Head(batch[f]))
    /\ batch' = [batch EXCEPT ![f] = Tail(@)]
    /\ UNCHANGED <<pending, queue, logged, gone, abandoned>>

\* The event goes back to the head of the queue; the rest of the batch is
\* not looked at again.
FlushFailed(f) ==
    /\ batch[f] # <<>>
    /\ Failed(Head(batch[f]))
    /\ queue' = <<Head(batch[f])>> \o queue
    /\ batch' = [batch EXCEPT ![f] = <<>>]
    /\ abandoned' = abandoned \cup Range(Tail(batch[f]))
    /\ UNCHANGED <<pending, logged, gone>>

-----------------------------------------------------------------------------
\* The process dies and is started again.
Crash ==
    /\ gone' = gone \cup pending \cup Range(queue) \cup Batched
    /\ pending' = {}
    /\ queue' = <<>>
    /\ batch' = [f \in Flushes |-> <<>>]
    /\ UNCHANGED <<rows, logged, doubtful, abandoned>>

Init ==
    /\ rows = [e \in Events |-> 0]
    /\ pending = {}
    /\ queue = <<>>
    /\ batch = [f \in Flushes |-> <<>>]
    /\ logged = {}
    /\ doubtful = {}
    /\ gone = {}
    /\ abandoned = {}

Next ==
    \/ \E e \in Events : Log(e) \/ LogWritten(e) \/ LogFailed(e)
    \/ \E f \in Flushes : StartFlush(f) \/ FlushWritten(f) \/ FlushFailed(f)
    \/ Crash

Spec == Init /\ [][Next]_vars

(***************************************************************************)
(* Fairness: a transaction that was started ends, the interval fires again *)
(* and again, and the database does not fail for ever: a writable event    *)
(* that a flush tries again and again is written.  Nothing is assumed of   *)
(* calls of log and of crashes.                                            *)
(***************************************************************************)
Fairness ==
    /\ \A e \in Events : WF_vars(LogWritten(e) \/ LogFailed(e))
    /\ \A f \in Flushes : /\ WF_vars(StartFlush(f))
                          /\ WF_vars(FlushWritten(f) \/ FlushFailed(f))
    /\ \A e \in Events :
          SF_vars(\E f \in Flushes : /\ batch[f] # <<>> /\ Head(batch[f]) = e
                                     /\ FlushWritten(f))

FairSpec == Spec /\ Fairness

-----------------------------------------------------------------------------
(***************************************************************************)
(* Properties                                                              *)
(***************************************************************************)

\* The queue outgrows its maximum by no more than the flushes that give an
\* event back after new events have filled it up (unshift has no limit).
QueueBounded == Len(queue) <= QueueMax + Cardinality(Flushes)

\* The variables have the types of the table and the in-memory structures; a
\* batch is never longer than BatchMax, and the queue is bounded.
TypeOK ==
    /\ rows \in [Events -> Nat]
    /\ pending \subseteq Events
    /\ queue \in Seq(Events)
    /\ batch \in [Flushes -> Seq(Events)]
    /\ \A f \in Flushes : Len(batch[f]) <= BatchMax
    /\ logged \subseteq Events
    /\ doubtful \subseteq Events
    /\ gone \subseteq Events
    /\ abandoned \subseteq Events
    /\ QueueBounded

\* How often the process still holds e.
CountIn(s, e) == Cardinality({i \in DOMAIN s : s[i] = e})
InFlight(e) == {f \in Flushes : e \in Range(batch[f])}
Held(e) == CountIn(queue, e) + Cardinality(InFlight(e))
           + (IF e \in pending THEN 1 ELSE 0)

\* An event is in one place at most, in the table or in the process, however
\* flushes overlap: it gets a second row only if its insertion had reported
\* an error in spite of its commit (audit.service.ts, the splice before the
\* first await).
OnePlace ==
    \A e \in Events :
        Held(e) + rows[e] <= (IF e \in doubtful THEN 2 ELSE 1)

\* An event that was logged is recorded or held by the process, or it is
\* known why not: the queue overflowed, the process died, or it was behind
\* another event in the batch of a flush that failed.  And it is in one place.
Accounted ==
    /\ OnePlace
    /\ \A e \in logged :
          rows[e] > 0 \/ Held(e) > 0 \/ e \in gone \cup abandoned

\* An event that was logged and that a row can hold is recorded in the end,
\* with the same exceptions: no event that cannot be written keeps it waiting
\* for ever, although that event is flushed again and again.
RecordedOrGone ==
    \A e \in Events \ Unwritable :
        e \in logged ~> (rows[e] > 0 \/ e \in gone \cup abandoned)
=============================================================================
