------------------------------- MODULE RumPipeline -------------------------------
(***************************************************************************)
(* Real user monitoring: the buffer of the web client (web/src/utils/      *)
(* rum.ts) and the ring of the API (modules/metrics/rum-routes.ts).  The   *)
(* client empties its buffer before it sends it in one request; the API    *)
(* takes a batch whole or refuses it, for its size or for the rate of the  *)
(* client's requests.                                                      *)
(*                                                                         *)
(* Metrics are numbered in the order they are captured.                    *)
(***************************************************************************)
EXTENDS Naturals, Sequences, FiniteSets

CONSTANTS
    MaxMetrics,             \* bound: metrics captured
    ClientBuffer,           \* maxBufferSize
    MaxBatch,               \* of rumPayloadSchema
    RingSize,               \* MAX_BUFFER_SIZE
    RequestsPerWindow       \* RATE_LIMIT_MAX_REQUESTS

ASSUME RumLimits ==
    {MaxMetrics, ClientBuffer, MaxBatch, RingSize, RequestsPerWindow}
        \subseteq Nat \ {0}

VARIABLES
    running,                \* initialized
    captured,               \* number of metrics captured
    buffer,                 \* the client's
    sent,                   \* batches on their way, oldest first
    ring,                   \* rumBuffer
    recent,                 \* requests in the current window of the limiter
    lost                    \* history: metrics that were dropped

rumVars == <<running, captured, buffer, sent, ring, recent, lost>>

Items(sequence) == {sequence[n] : n \in DOMAIN sequence}
Newest(sequence, size) ==
    IF Len(sequence) <= size THEN sequence
    ELSE SubSeq(sequence, Len(sequence) - size + 1, Len(sequence))
Dropped(sequence, size) == Items(sequence) \ Items(Newest(sequence, size))
Without(sequences, n) ==
    SubSeq(sequences, 1, n - 1) \o SubSeq(sequences, n + 1, Len(sequences))

-----------------------------------------------------------------------------
InitRum ==
    /\ ~running
    /\ running' = TRUE
    /\ UNCHANGED <<captured, buffer, sent, ring, recent, lost>>

AddMetric ==
    /\ running /\ captured < MaxMetrics
    /\ captured' = captured + 1
    /\ LET next == Append(buffer, captured + 1) IN
          /\ buffer' = Newest(next, ClientBuffer)
          /\ lost' = lost \cup Dropped(next, ClientBuffer)
    /\ UNCHANGED <<running, sent, ring, recent>>

\* Mutant: the buffer is emptied after the batch was handed over.
FlushKeeping ==
    /\ buffer # <<>>
    /\ sent' = Append(sent, buffer)
    /\ UNCHANGED buffer

\* flushBuffer; sendBeacon and fetch differ in nothing that matters here.
Flush ==
    /\ buffer # <<>>
    /\ sent' = Append(sent, buffer)
    /\ buffer' = <<>>

\* By the interval or when the page is hidden.
FlushBuffer ==
    /\ running
    /\ Flush
    /\ UNCHANGED <<running, captured, ring, recent, lost>>

DestroyRum ==
    /\ running
    /\ running' = FALSE
    /\ IF buffer = <<>> THEN UNCHANGED <<buffer, sent>> ELSE Flush
    /\ UNCHANGED <<captured, ring, recent, lost>>

-----------------------------------------------------------------------------
\* A batch does not arrive.
Vanishes(n) ==
    /\ lost' = lost \cup Items(sent[n])
    /\ sent' = Without(sent, n)
    /\ UNCHANGED <<running, captured, buffer, ring, recent>>

\* POST: over the limit (not counted), too large (counted), or taken.
Limited == recent >= RequestsPerWindow

Refused(n) ==
    /\ Limited \/ Len(sent[n]) > MaxBatch
    /\ recent' = IF Limited THEN recent ELSE recent + 1
    /\ lost' = lost \cup Items(sent[n])
    /\ sent' = Without(sent, n)
    /\ UNCHANGED <<running, captured, buffer, ring>>

\* Mutant: the ring is not trimmed.
Untrimmed(sequence, size) == sequence
Trimmed(sequence, size) == Newest(sequence, size)

Accepted(n) ==
    /\ ~Limited /\ Len(sent[n]) <= MaxBatch
    /\ recent' = recent + 1
    /\ LET next == ring \o sent[n] IN
          /\ ring' = Trimmed(next, RingSize)
          /\ lost' = lost \cup Dropped(next, RingSize)
    /\ sent' = Without(sent, n)
    /\ UNCHANGED <<running, captured, buffer>>

\* Requests leave the window of the limiter.
WindowMoves ==
    /\ recent > 0
    /\ recent' \in 0 .. recent - 1
    /\ UNCHANGED <<running, captured, buffer, sent, ring, lost>>

-----------------------------------------------------------------------------
RumInit ==
    /\ running = FALSE
    /\ captured = 0
    /\ buffer = <<>> /\ sent = <<>> /\ ring = <<>>
    /\ recent = 0
    /\ lost = {}

RumNext ==
    \/ InitRum \/ AddMetric \/ FlushBuffer \/ DestroyRum
    \/ \E n \in DOMAIN sent : Vanishes(n) \/ Refused(n) \/ Accepted(n)
    \/ WindowMoves

-----------------------------------------------------------------------------
\* Buffers hold what was captured and keep their sizes.
RumTypeOK ==
    /\ running \in BOOLEAN /\ captured \in 0 .. MaxMetrics
    /\ Len(buffer) <= ClientBuffer /\ Len(ring) <= RingSize
    /\ \A n \in DOMAIN sent : Len(sent[n]) \in 1 .. ClientBuffer
    /\ recent \in 0 .. RequestsPerWindow

\* Every metric that was captured is in one place: waiting, on its way,
\* recorded or lost to a limit, a refusal or the network; none is recorded
\* twice (addMetric, flushBuffer and destroyRUM, POST).
EachMetricOnce ==
    LET onTheWay == UNION {Items(sent[n]) : n \in DOMAIN sent}
    IN /\ 1 .. captured = Items(buffer) \cup Items(ring) \cup lost \cup onTheWay
       /\ Len(buffer) + Len(ring) + Cardinality(lost)
             + Cardinality(onTheWay) = captured

\* Buffers keep their sizes, and every captured metric is in exactly one place
\* or known to be lost.
MetricsAreSound == RumTypeOK /\ EachMetricOnce
=============================================================================
