-------------------------- MODULE AuditService_proofs --------------------------
(***************************************************************************)
(* Proofs about AuditService, for any events, any bounds of the queue and  *)
(* the batches and any finite number of overlapping flushes.               *)
(*                                                                         *)
(* The counts of Accounted are proved without counting: Once says that an  *)
(* event the process holds is held in one place, RowsOK how many rows an   *)
(* event has that is held or is not.  QueueOK is why the queue is bounded: *)
(* a flush that is under way has taken an event out of it.                 *)
(***************************************************************************)
EXTENDS AuditService, FiniteSetTheorems, SequenceTheorems, TLAPS

Types ==
    /\ rows \in [Events -> Nat]
    /\ pending \subseteq Events
    /\ queue \in Seq(Events)
    /\ batch \in [Flushes -> Seq(Events)]
    /\ \A f \in Flushes : Len(batch[f]) <= BatchMax
    /\ logged \subseteq Events
    /\ doubtful \subseteq Events
    /\ gone \subseteq Events
    /\ abandoned \subseteq Events

\* An event is held by one transaction, queue position or batch position.
Once ==
    /\ IsInjective(queue)
    /\ \A f \in Flushes : IsInjective(batch[f])
    /\ \A f, g \in Flushes : f # g => Range(batch[f]) \cap Range(batch[g]) = {}
    /\ \A f \in Flushes : Range(batch[f]) \cap Range(queue) = {}
    /\ \A f \in Flushes : Range(batch[f]) \cap pending = {}
    /\ Range(queue) \cap pending = {}

InHand == pending \cup Range(queue) \cup Batched

RowsOK ==
    /\ InHand \subseteq logged
    /\ \A e \in Events :
          IF e \in InHand THEN rows[e] = IF e \in doubtful THEN 1 ELSE 0
                          ELSE rows[e] <= IF e \in doubtful THEN 2 ELSE 1
    /\ \A e \in Events \ logged : rows[e] = 0 /\ e \notin doubtful

NoneLost == \A e \in logged : rows[e] > 0 \/ e \in InHand \cup gone \cup abandoned

Busy == {f \in Flushes : batch[f] # <<>>}
QueueOK == Len(queue) + Cardinality(Busy) <= QueueMax + Cardinality(Flushes)

IInv == Types /\ Once /\ RowsOK /\ NoneLost /\ QueueOK

-----------------------------------------------------------------------------
(***************************************************************************)
(* Lemmas about sequences: what they hold, and that they hold it once.     *)
(***************************************************************************)
LEMMA RangeOfAppend ==
    ASSUME NEW S, NEW s \in Seq(S), NEW x \in S
    PROVE  /\ Range(Append(s, x)) = Range(s) \cup {x}
           /\ IsInjective(s) /\ x \notin Range(s) => IsInjective(Append(s, x))
<1>1. /\ Append(s, x) \in Seq(S) /\ Len(Append(s, x)) = Len(s) + 1
      /\ \A i \in 1..Len(s) : Append(s, x)[i] = s[i]
      /\ Append(s, x)[Len(s) + 1] = x
  BY AppendProperties
<1>2. /\ Len(s) \in Nat /\ DOMAIN s = 1..Len(s)
      /\ DOMAIN Append(s, x) = 1..(Len(s) + 1)
  BY <1>1
<1>3. \A i \in DOMAIN Append(s, x) : i \in DOMAIN s \/ i = Len(s) + 1
  BY <1>2
<1>4. DOMAIN s \subseteq DOMAIN Append(s, x) /\ Len(s) + 1 \in DOMAIN Append(s, x)
  BY <1>2
<1>5. Range(Append(s, x)) = Range(s) \cup {x}
  <2>1. ASSUME NEW y \in Range(Append(s, x)) PROVE y \in Range(s) \cup {x}
    <3> PICK i \in DOMAIN Append(s, x) : Append(s, x)[i] = y
      BY DEF Range
    <3> QED BY <1>1, <1>2, <1>3 DEF Range
  <2>2. ASSUME NEW y \in Range(s) \cup {x} PROVE y \in Range(Append(s, x))
    BY <1>1, <1>2, <1>4 DEF Range
  <2> QED BY <2>1, <2>2
<1>6. ASSUME IsInjective(s), x \notin Range(s) PROVE IsInjective(Append(s, x))
  BY <1>1, <1>2, <1>3, <1>6 DEF IsInjective, Range
<1> QED BY <1>5, <1>6

\* What taking the oldest event off the queue does to its set of events.
LEMMA RangeOfTail ==
    ASSUME NEW S, NEW s \in Seq(S), s # <<>>
    PROVE  /\ Head(s) \in Range(s)
           /\ Range(s) = Range(Tail(s)) \cup {Head(s)}
           /\ IsInjective(s) => IsInjective(Tail(s)) /\ Head(s) \notin Range(Tail(s))
<1>1. /\ Tail(s) \in Seq(S) /\ Len(Tail(s)) = Len(s) - 1
      /\ \A i \in 1..Len(Tail(s)) : Tail(s)[i] = s[i + 1]
  BY HeadTailProperties
<1>2. /\ Len(s) \in Nat \ {0} /\ DOMAIN s = 1..Len(s) /\ Head(s) = s[1]
      /\ DOMAIN Tail(s) = 1..(Len(s) - 1)
  BY <1>1
<1>3. \A i \in DOMAIN s : i = 1 \/ (i - 1 \in DOMAIN Tail(s) /\ Tail(s)[i - 1] = s[i])
  BY <1>1, <1>2
<1>4. \A i \in DOMAIN Tail(s) : i + 1 \in DOMAIN s /\ i + 1 # 1
                                /\ Tail(s)[i] = s[i + 1]
  BY <1>1, <1>2
<1>5. Head(s) \in Range(s)
  BY <1>2 DEF Range
<1>6. Range(s) = Range(Tail(s)) \cup {Head(s)}
  <2>1. ASSUME NEW y \in Range(s) PROVE y \in Range(Tail(s)) \cup {Head(s)}
    <3> PICK i \in DOMAIN s : s[i] = y
      BY DEF Range
    <3> QED BY <1>2, <1>3 DEF Range
  <2>2. ASSUME NEW y \in Range(Tail(s)) PROVE y \in Range(s)
    BY <1>4 DEF Range
  <2> QED BY <1>5, <2>1, <2>2
<1>7. ASSUME IsInjective(s)
      PROVE  IsInjective(Tail(s)) /\ Head(s) \notin Range(Tail(s))
  <2>1. IsInjective(Tail(s))
    BY <1>1, <1>2, <1>4, <1>7 DEF IsInjective
  <2>2. Head(s) \notin Range(Tail(s))
    BY <1>2, <1>4, <1>7 DEF IsInjective, Range
  <2> QED BY <2>1, <2>2
<1> QED BY <1>5, <1>6, <1>7

\* What giving an event back to the front of the queue does to its set of
\* events.
LEMMA RangeOfPrepend ==
    ASSUME NEW S, NEW s \in Seq(S), NEW x \in S
    PROVE  /\ <<x>> \o s \in Seq(S) /\ Len(<<x>> \o s) = Len(s) + 1
           /\ Range(<<x>> \o s) = Range(s) \cup {x}
           /\ IsInjective(s) /\ x \notin Range(s) => IsInjective(<<x>> \o s)
<1> DEFINE t == <<x>> \o s
<1>1. /\ t \in Seq(S) /\ Len(t) = Len(s) + 1 /\ Len(s) \in Nat
      /\ t[1] = x /\ \A i \in 2..(Len(s) + 1) : t[i] = s[i - 1]
  BY ConcatProperties
<1>2. DOMAIN s = 1..Len(s) /\ DOMAIN t = 1..(Len(s) + 1)
  BY <1>1
<1> HIDE DEF t
<1>3. \A i \in DOMAIN t : \/ i = 1 /\ t[i] = x
                          \/ i - 1 \in DOMAIN s /\ t[i] = s[i - 1]
  BY <1>1, <1>2
<1>4. \A i \in DOMAIN s : i + 1 \in DOMAIN t /\ t[i + 1] = s[i]
  BY <1>1, <1>2
<1>5. 1 \in DOMAIN t
  BY <1>1, <1>2
<1>6. Range(t) = Range(s) \cup {x}
  <2>1. ASSUME NEW y \in Range(t) PROVE y \in Range(s) \cup {x}
    BY <1>3 DEF Range
  <2>2. ASSUME NEW y \in Range(s) \cup {x} PROVE y \in Range(t)
    BY <1>1, <1>4, <1>5 DEF Range
  <2> QED BY <2>1, <2>2
<1>7. ASSUME IsInjective(s), x \notin Range(s) PROVE IsInjective(t)
  <2> SUFFICES ASSUME NEW i \in DOMAIN t, NEW k \in DOMAIN t, t[i] = t[k]
               PROVE  i = k
    BY DEF IsInjective
  <2>1. \A n \in DOMAIN s : s[n] # x
    BY <1>7 DEF Range
  <2> QED BY <1>2, <1>3, <1>7, <2>1 DEF IsInjective
<1> QED BY <1>1, <1>6, <1>7 DEF t

\* The length and the indices of what follows the first n of l elements.
LEMMA LastPart ==
    ASSUME NEW l \in Nat, NEW n \in 0..l
    PROVE  /\ (IF n + 1 <= l THEN l - (n + 1) + 1 ELSE 0) = l - n
           /\ l - (n + 1) + 1 = l - n
           /\ \A i \in 1..(l - n) : n + 1 + i - 1 = n + i
OBVIOUS

\* A sequence that is cut in two.
LEMMA RangeOfParts ==
    ASSUME NEW S, NEW s \in Seq(S), NEW n \in 0..Len(s)
    PROVE  LET a == SubSeq(s, 1, n)
               b == SubSeq(s, n + 1, Len(s))
           IN  /\ a \in Seq(S) /\ Len(a) = n
               /\ b \in Seq(S) /\ Len(b) = Len(s) - n
               /\ Range(s) = Range(a) \cup Range(b)
               /\ IsInjective(s) => /\ IsInjective(a) /\ IsInjective(b)
                                    /\ Range(a) \cap Range(b) = {}
<1> DEFINE a == SubSeq(s, 1, n)
           b == SubSeq(s, n + 1, Len(s))
<1>1. Len(s) \in Nat /\ n \in Nat /\ DOMAIN s = 1..Len(s)
      /\ \A i \in 1..Len(s) : s[i] \in S
  BY ElementOfSeq
<1>2. /\ a \in Seq(S) /\ Len(a) = n /\ \A i \in 1..n : a[i] = s[i]
  <2>1. \A i \in 1..n : s[i] \in S
    BY <1>1
  <2> QED BY <1>1, <2>1, SubSeqProperties
<1>3. /\ b \in Seq(S) /\ Len(b) = Len(s) - n
      /\ \A i \in 1..(Len(s) - n) : b[i] = s[n + i]
  <2>1. \A i \in (n + 1)..Len(s) : s[i] \in S
    BY <1>1
  <2>2. /\ b \in Seq(S)
        /\ Len(b) = IF n + 1 <= Len(s) THEN Len(s) - (n + 1) + 1 ELSE 0
        /\ \A i \in 1..(Len(s) - (n + 1) + 1) : b[i] = s[(n + 1) + i - 1]
    BY <1>1, <2>1, SubSeqProperties
  <2>3. /\ (IF n + 1 <= Len(s) THEN Len(s) - (n + 1) + 1 ELSE 0) = Len(s) - n
        /\ Len(s) - (n + 1) + 1 = Len(s) - n
        /\ \A i \in 1..(Len(s) - n) : n + 1 + i - 1 = n + i
    BY ONLY <1>1, LastPart, n \in 0..Len(s)
  <2> HIDE DEF b
  <2> QED BY ONLY <2>2, <2>3
<1> HIDE DEF a, b
<1>4. DOMAIN a = 1..n /\ DOMAIN b = 1..(Len(s) - n)
  BY <1>2, <1>3
<1>5. \A i \in DOMAIN a : i \in DOMAIN s /\ i <= n /\ a[i] = s[i]
  BY <1>1, <1>2, <1>4
<1>6. \A i \in DOMAIN b : n + i \in DOMAIN s /\ n + i > n /\ b[i] = s[n + i]
  BY <1>1, <1>3, <1>4
<1>7. \A i \in DOMAIN s : \/ i \in DOMAIN a /\ a[i] = s[i]
                          \/ i - n \in DOMAIN b /\ b[i - n] = s[i]
  <2> SUFFICES ASSUME NEW i \in DOMAIN s
               PROVE  \/ i \in DOMAIN a /\ a[i] = s[i]
                      \/ i - n \in DOMAIN b /\ b[i - n] = s[i]
    OBVIOUS
  <2>1. CASE i <= n
    <3>1. i \in 1..n
      BY <1>1, <2>1
    <3> QED BY <1>2, <1>4, <3>1
  <2>2. CASE i > n
    <3>1. PICK j : j = i - n
      OBVIOUS
    <3>2. j \in 1..(Len(s) - n) /\ n + j = i
      BY <1>1, <2>2, <3>1
    <3>3. j \in DOMAIN b /\ b[j] = s[i]
      BY <1>3, <1>4, <3>2
    <3> QED BY <3>1, <3>3
  <2> QED BY <1>1, <2>1, <2>2
<1>8. Range(s) = Range(a) \cup Range(b)
  <2>1. ASSUME NEW y \in Range(s) PROVE y \in Range(a) \cup Range(b)
    BY <1>7 DEF Range
  <2>2. ASSUME NEW y \in Range(a) \cup Range(b) PROVE y \in Range(s)
    BY <1>5, <1>6 DEF Range
  <2> QED BY <2>1, <2>2
<1>9. ASSUME IsInjective(s)
      PROVE  IsInjective(a) /\ IsInjective(b) /\ Range(a) \cap Range(b) = {}
  <2>1. IsInjective(a)
    BY <1>5, <1>9 DEF IsInjective
  <2>2. IsInjective(b)
    BY <1>1, <1>4, <1>6, <1>9 DEF IsInjective
  <2>3. Range(a) \cap Range(b) = {}
    BY <1>1, <1>4, <1>5, <1>6, <1>9 DEF IsInjective, Range
  <2> QED BY <2>1, <2>2, <2>3
<1> QED BY <1>2, <1>3, <1>8, <1>9 DEF a, b

\* An empty queue holds nothing.
LEMMA RangeOfEmpty == Range(<<>>) = {} /\ IsInjective(<<>>) /\ Len(<<>>) = 0
BY DEF Range, IsInjective

-----------------------------------------------------------------------------
(***************************************************************************)
(* Lemmas about rows.                                                      *)
(***************************************************************************)

\* A transaction that succeeds adds a row, one that reports an error may have.
LEMMA InsertedRows ==
    ASSUME Types, NEW e \in Events, Committed(e) \/ Failed(e)
    PROVE  /\ rows' \in [Events -> Nat] /\ doubtful' \subseteq Events
           /\ \A x \in Events : rows'[x] >= rows[x]
           /\ \A x \in Events \ {e} : /\ rows'[x] = rows[x]
                                      /\ x \in doubtful' <=> x \in doubtful
           /\ Committed(e) => /\ rows'[e] = rows[e] + 1 /\ doubtful' = doubtful
           /\ Failed(e) =>
                 \/ rows'[e] = rows[e] /\ (e \in doubtful' <=> e \in doubtful)
                 \/ /\ rows'[e] = rows[e] + 1
                    /\ e \notin doubtful /\ e \in doubtful'
<1>1. CASE UNCHANGED <<rows, doubtful>>
  BY <1>1 DEF Types, Committed, Insert
<1>2. CASE Insert(e)
  <2>1. /\ rows' \in [Events -> Nat] /\ rows'[e] = rows[e] + 1
        /\ \A x \in Events \ {e} : rows'[x] = rows[x]
        /\ rows[e] \in Nat
    BY <1>2 DEF Types, Insert
  <2>2. ASSUME NEW x \in Events PROVE rows'[x] >= rows[x]
    <3>1. rows[x] \in Nat
      BY DEF Types
    <3>2. CASE x = e
      BY <2>1, <3>1, <3>2
    <3>3. CASE x # e
      BY <2>1, <3>1, <3>3
    <3> QED BY <3>2, <3>3
  <2>3. Failed(e) => e \notin doubtful /\ doubtful' = doubtful \cup {e}
    BY <2>1 DEF Failed
  <2> QED BY <2>1, <2>2, <2>3 DEF Types, Committed
<1> QED BY <1>1, <1>2 DEF Committed, Failed

\* Rows stay right when one in hand is written and leaves the hand, ...
LEMMA RowWritten ==
    ASSUME IInv, NEW e \in InHand, e \in Events, Committed(e),
           InHand' \subseteq InHand \ {e}, logged' = logged
    PROVE  RowsOK'
<1>1. /\ rows'[e] = rows[e] + 1 /\ doubtful' = doubtful
      /\ \A x \in Events \ {e} : rows'[x] = rows[x]
  BY InsertedRows DEF IInv
<1>2. rows[e] = IF e \in doubtful THEN 1 ELSE 0
  BY DEF IInv, RowsOK
<1>3. ASSUME NEW x \in Events
      PROVE  IF x \in InHand' THEN rows'[x] = IF x \in doubtful' THEN 1 ELSE 0
             ELSE rows'[x] <= IF x \in doubtful' THEN 2 ELSE 1
  <2>1. CASE x = e
    BY <1>1, <1>2, <2>1
  <2>2. CASE x # e
    BY <1>1, <2>2 DEF IInv, RowsOK
  <2> QED BY <2>1, <2>2
<1>4. InHand' \subseteq logged' /\ e \in logged
  BY DEF IInv, RowsOK
<1> QED BY <1>1, <1>3, <1>4 DEF IInv, RowsOK

\* ... when the write of one in hand fails, or nothing is written at all.
LEMMA RowNotWritten ==
    ASSUME IInv, NEW e \in InHand, e \in Events, Failed(e),
           InHand' \subseteq InHand, logged' = logged
    PROVE  RowsOK'
<1>1. /\ \A x \in Events \ {e} : /\ rows'[x] = rows[x]
                                 /\ x \in doubtful' <=> x \in doubtful
      /\ \/ rows'[e] = rows[e] /\ (e \in doubtful' <=> e \in doubtful)
         \/ rows'[e] = rows[e] + 1 /\ e \notin doubtful /\ e \in doubtful'
  BY InsertedRows DEF IInv
<1>2. rows[e] = IF e \in doubtful THEN 1 ELSE 0
  BY DEF IInv, RowsOK
<1>3. ASSUME NEW x \in Events
      PROVE  IF x \in InHand' THEN rows'[x] = IF x \in doubtful' THEN 1 ELSE 0
             ELSE rows'[x] <= IF x \in doubtful' THEN 2 ELSE 1
  <2>1. CASE x = e
    BY <1>1, <1>2, <2>1
  <2>2. CASE x # e
    <3>1. rows'[x] = rows[x] /\ (x \in doubtful' <=> x \in doubtful)
      BY <1>1, <2>2
    <3>2. IF x \in InHand THEN rows[x] = IF x \in doubtful THEN 1 ELSE 0
          ELSE rows[x] <= IF x \in doubtful THEN 2 ELSE 1
      BY DEF IInv, RowsOK
    <3> QED BY <3>1, <3>2
  <2> QED BY <2>1, <2>2
<1>4. InHand' \subseteq logged' /\ e \in logged
  BY DEF IInv, RowsOK
<1> QED BY <1>1, <1>3, <1>4 DEF IInv, RowsOK

\* The table stays right as long as it is not written and no event comes
\* into a hand.
LEMMA RowsUntouched ==
    ASSUME IInv, UNCHANGED <<rows, doubtful, logged>>, InHand' \subseteq InHand
    PROVE  RowsOK'
<1>1. ASSUME NEW x \in Events
      PROVE  IF x \in InHand' THEN rows'[x] = IF x \in doubtful' THEN 1 ELSE 0
             ELSE rows'[x] <= IF x \in doubtful' THEN 2 ELSE 1
  BY DEF IInv, RowsOK
<1> QED BY <1>1 DEF IInv, RowsOK

\* No event is lost that stays in hand, is written, overflows, dies or is
\* abandoned.
LEMMA StillAccounted ==
    ASSUME IInv, Types', \A x \in Events : rows'[x] >= rows[x],
           logged' \subseteq logged \cup InHand',
           gone \cup abandoned \subseteq gone' \cup abandoned',
           \A x \in InHand : x \in InHand' \cup gone' \cup abandoned'
                             \/ rows'[x] > 0
    PROVE  NoneLost'
<1> SUFFICES ASSUME NEW x \in logged'
             PROVE  rows'[x] > 0 \/ x \in InHand' \cup gone' \cup abandoned'
  BY DEF NoneLost
<1>1. CASE x \in logged
  <2>1. rows[x] > 0 \/ x \in InHand \cup gone \cup abandoned
    BY <1>1 DEF IInv, NoneLost
  <2>2. rows'[x] >= rows[x] /\ rows[x] \in Nat /\ rows'[x] \in Nat
    BY <1>1 DEF IInv, Types
  <2> QED BY <2>1, <2>2
<1>2. CASE x \in InHand'
  BY <1>2
<1> QED BY <1>1, <1>2

\* Busy flushes are counted.
LEMMA BusyIsFinite ==
    /\ IsFiniteSet(Flushes) /\ Cardinality(Flushes) \in Nat
    /\ IsFiniteSet(Busy) /\ Cardinality(Busy) \in Nat
    /\ Cardinality(Busy) <= Cardinality(Flushes)
    /\ IsFiniteSet(Busy') /\ Cardinality(Busy') \in Nat
    /\ Cardinality(Busy') <= Cardinality(Flushes)
BY FlushesAreFinite, FS_Subset, FS_CardinalityType DEF Busy

-----------------------------------------------------------------------------
(***************************************************************************)
(* The actions.                                                            *)
(***************************************************************************)
LEMMA LogKeeps ==
    ASSUME IInv, NEW e \in Events, Log(e)
    PROVE  IInv'
<1>1. /\ e \notin logged /\ logged' = logged \cup {e}
      /\ pending' = pending \cup {e}
      /\ UNCHANGED <<rows, queue, batch, doubtful, gone, abandoned>>
  BY DEF Log
<1>2. Types'
  BY <1>1 DEF IInv, Types
<1>3. e \notin InHand /\ InHand' = InHand \cup {e}
  BY <1>1 DEF IInv, RowsOK, InHand, Batched
<1>4. Once'
  BY <1>1, <1>3 DEF IInv, Once, InHand, Batched
<1>5. RowsOK'
  BY <1>1, <1>3 DEF IInv, RowsOK
<1>6. NoneLost'
  BY <1>1, <1>3 DEF IInv, NoneLost
<1>7. QueueOK'
  BY <1>1 DEF IInv, QueueOK, Busy
<1> QED BY <1>2, <1>4, <1>5, <1>6, <1>7 DEF IInv

\* log, when the insert succeeds.
LEMMA LogWrittenKeeps ==
    ASSUME IInv, NEW e \in Events, LogWritten(e)
    PROVE  IInv'
<1>1. /\ e \in pending /\ Committed(e) /\ pending' = pending \ {e}
      /\ UNCHANGED <<queue, batch, logged, gone, abandoned>>
  BY DEF LogWritten
<1>2. Types'
  BY <1>1, InsertedRows DEF IInv, Types
<1>3. e \in InHand /\ InHand' = InHand \ {e}
  BY <1>1 DEF IInv, Once, InHand, Batched
<1>4. Once'
  BY <1>1 DEF IInv, Once
<1>5. RowsOK'
  BY <1>1, <1>3, RowWritten
<1>6. rows[e] \in Nat /\ rows'[e] = rows[e] + 1
  BY <1>1, InsertedRows DEF IInv, Types
<1>7. NoneLost'
  BY <1>1, <1>2, <1>3, <1>6, InsertedRows, StillAccounted DEF IInv
<1>8. QueueOK'
  BY <1>1 DEF IInv, QueueOK, Busy
<1> QED BY <1>2, <1>4, <1>5, <1>7, <1>8 DEF IInv

\* What a queue is to which an event was added at the end.
LEMMA Enqueued ==
    ASSUME IInv, NEW e \in Events, e \notin Range(queue)
    PROVE  /\ Enqueue(e) \in Seq(Events) /\ IsInjective(Enqueue(e))
           /\ e \in Range(Enqueue(e))
           /\ Range(Enqueue(e)) \subseteq Range(queue) \cup {e}
           /\ \/ Len(Enqueue(e)) = Len(queue)
              \/ Len(Enqueue(e)) = Len(queue) + 1 /\ Len(queue) < QueueMax
<1>1. queue \in Seq(Events) /\ Len(queue) \in Nat /\ IsInjective(queue)
  BY DEF IInv, Types, Once
<1>2. CASE Len(queue) >= QueueMax
  <2>1. queue # <<>>
    BY <1>1, <1>2, BoundsArePositive, RangeOfEmpty
  <2>2. /\ Tail(queue) \in Seq(Events) /\ Len(Tail(queue)) = Len(queue) - 1
    BY <1>1, <2>1, HeadTailProperties
  <2>3. /\ Range(Tail(queue)) \subseteq Range(queue)
        /\ IsInjective(Tail(queue))
    BY <1>1, <2>1, RangeOfTail
  <2>4. /\ Append(Tail(queue), e) \in Seq(Events)
        /\ Len(Append(Tail(queue), e)) = Len(queue)
    BY <1>1, <2>2, AppendProperties
  <2>5. /\ Range(Append(Tail(queue), e)) = Range(Tail(queue)) \cup {e}
        /\ IsInjective(Append(Tail(queue), e))
    <3>1. PICK t : t = Tail(queue)
      OBVIOUS
    <3>2. t \in Seq(Events) /\ IsInjective(t) /\ e \notin Range(t) /\ e \in Events
      BY <2>2, <2>3, <3>1
    <3>3. Range(Append(t, e)) = Range(t) \cup {e} /\ IsInjective(Append(t, e))
      BY <3>2, RangeOfAppend
    <3> QED BY <3>1, <3>3
  <2> QED BY <1>2, <2>3, <2>4, <2>5 DEF Enqueue
<1>3. CASE ~(Len(queue) >= QueueMax)
  <2>1. /\ Append(queue, e) \in Seq(Events)
        /\ Len(Append(queue, e)) = Len(queue) + 1
    BY <1>1, AppendProperties
  <2>2. /\ Range(Append(queue, e)) = Range(queue) \cup {e}
        /\ IsInjective(Append(queue, e))
    BY <1>1, RangeOfAppend
  <2> QED BY <1>1, <1>3, <2>1, <2>2, BoundsArePositive DEF Enqueue
<1> QED BY <1>2, <1>3

\* log, when the insert fails: the event joins the queue and may push out
\* the oldest.
LEMMA LogFailedKeeps ==
    ASSUME IInv, NEW e \in Events, LogFailed(e)
    PROVE  IInv'
<1>1. /\ e \in pending /\ Failed(e) /\ pending' = pending \ {e}
      /\ queue' = Enqueue(e)
      /\ gone' = gone \cup (Range(queue) \ Range(queue'))
      /\ UNCHANGED <<batch, logged, abandoned>>
  BY DEF LogFailed
<1>2. e \notin Range(queue) /\ \A f \in Flushes : e \notin Range(batch[f])
  BY <1>1 DEF IInv, Once
<1>3. /\ queue' \in Seq(Events) /\ IsInjective(queue') /\ e \in Range(queue')
      /\ Range(queue') \subseteq Range(queue) \cup {e}
      /\ \/ Len(queue') = Len(queue)
         \/ Len(queue') = Len(queue) + 1 /\ Len(queue) < QueueMax
  BY <1>1, <1>2, Enqueued
<1>4. Types'
  <2>1. Range(queue) \subseteq Events
    BY RangeOfSeq DEF IInv, Types
  <2> QED BY <1>1, <1>3, <2>1, InsertedRows DEF IInv, Types
<1>5. Once'
  BY <1>1, <1>2, <1>3 DEF IInv, Once
<1>6. e \in InHand /\ InHand' \subseteq InHand
  BY <1>1, <1>3 DEF InHand, Batched
<1>7. RowsOK'
  BY <1>1, <1>6, RowNotWritten
<1>8. NoneLost'
  <2>1. \A x \in InHand : x \in InHand' \cup gone'
    BY <1>1, <1>3 DEF InHand, Batched
  <2> QED BY <1>1, <1>4, <2>1, InsertedRows, StillAccounted DEF IInv
<1>9. QueueOK'
  <2>1. Busy' = Busy
    BY <1>1 DEF Busy
  <2>2. Len(queue) \in Nat /\ Len(queue') \in Nat
    BY <1>3 DEF IInv, Types
  <2> QED BY <1>3, <2>1, <2>2, BusyIsFinite, BoundsArePositive DEF IInv, QueueOK
<1> QED BY <1>4, <1>5, <1>7, <1>8, <1>9 DEF IInv

\* flushQueue takes its batch from the queue.
LEMMA StartFlushKeeps ==
    ASSUME IInv, NEW f \in Flushes, StartFlush(f)
    PROVE  IInv'
<1> DEFINE b == SubSeq(queue, 1, BatchSize)
<1>1. /\ batch[f] = <<>> /\ queue # <<>>
      /\ batch' = [batch EXCEPT ![f] = b] /\ queue' = AfterSplice
      /\ UNCHANGED <<rows, pending, logged, doubtful, gone, abandoned>>
  BY DEF StartFlush
<1>2. /\ queue \in Seq(Events) /\ Len(queue) \in Nat
      /\ Len(queue) # 0 /\ IsInjective(queue)
  <2>1. queue \in Seq(Events) /\ IsInjective(queue)
    BY DEF IInv, Types, Once
  <2>2. Len(queue) # 0
    BY <1>1, <2>1
  <2> QED BY <2>1, <2>2
<1>3. BatchSize \in 1..Len(queue) /\ BatchSize <= BatchMax
  BY <1>2, BoundsArePositive DEF BatchSize
<1>4. /\ b \in Seq(Events) /\ Len(b) = BatchSize
      /\ queue' \in Seq(Events) /\ Len(queue') = Len(queue) - BatchSize
      /\ Range(queue) = Range(b) \cup Range(queue')
      /\ IsInjective(b) /\ IsInjective(queue')
      /\ Range(b) \cap Range(queue') = {}
  <2>1. BatchSize \in 0..Len(queue)
    BY <1>2, <1>3
  <2> QED BY <1>1, <1>2, <2>1, RangeOfParts DEF AfterSplice
<1> HIDE DEF b
<1>5. /\ batch' \in [Flushes -> Seq(Events)] /\ batch'[f] = b
      /\ \A g \in Flushes \ {f} : batch'[g] = batch[g]
  BY <1>1, <1>4 DEF IInv, Types
<1>6. Types'
  BY <1>1, <1>3, <1>4, <1>5 DEF IInv, Types
<1>7. Range(batch[f]) = {}
  BY <1>1, RangeOfEmpty
<1>8. Once'
  <2>1. \A g \in Flushes \ {f} : Range(batch[g]) \cap Range(queue) = {}
    BY DEF IInv, Once
  <2>2. \A g \in Flushes : IsInjective(batch'[g])
    BY <1>4, <1>5 DEF IInv, Once
  <2>3. \A g, h \in Flushes : g # h => Range(batch'[g]) \cap Range(batch'[h]) = {}
    <3>1. \A g \in Flushes \ {f} : Range(batch'[g]) \cap Range(batch'[f]) = {}
      BY <1>4, <1>5, <2>1
    <3>2. \A g, h \in Flushes \ {f} :
              g # h => Range(batch'[g]) \cap Range(batch'[h]) = {}
      BY <1>5 DEF IInv, Once
    <3> QED BY <3>1, <3>2
  <2>4. \A g \in Flushes : Range(batch'[g]) \cap Range(queue') = {}
    BY <1>4, <1>5, <2>1
  <2>5. \A g \in Flushes : Range(batch'[g]) \cap pending' = {}
    BY <1>1, <1>4, <1>5 DEF IInv, Once
  <2>6. Range(queue') \cap pending' = {}
    BY <1>1, <1>4 DEF IInv, Once
  <2> QED BY <1>4, <2>2, <2>3, <2>4, <2>5, <2>6 DEF Once
<1>9. InHand' = InHand
  <2>1. Batched' \subseteq Batched \cup Range(b)
    BY <1>5 DEF Batched
  <2>2. Range(b) \subseteq Batched' /\ Batched \subseteq Batched'
    BY <1>5, <1>7 DEF Batched
  <2> QED BY <1>1, <1>4, <2>1, <2>2 DEF InHand
<1>10. RowsOK'
  BY <1>1, <1>9, RowsUntouched
<1>11. NoneLost'
  BY <1>1, <1>9 DEF IInv, NoneLost
<1>12. QueueOK'
  <2>1. Busy' = Busy \cup {f} /\ f \notin Busy
    <3>1. b # <<>>
      BY <1>3, <1>4, RangeOfEmpty
    <3> QED BY <1>1, <1>5, <3>1 DEF Busy
  <2>2. Cardinality(Busy') = Cardinality(Busy) + 1
    BY <2>1, BusyIsFinite, FS_AddElement
  <2>3. Len(queue') <= Len(queue) - 1 /\ Len(queue') \in Nat
    BY <1>2, <1>3, <1>4
  <2> QED BY <1>2, <2>2, <2>3, BusyIsFinite, BoundsArePositive
          DEF IInv, QueueOK
<1> QED BY <1>6, <1>8, <1>10, <1>11, <1>12 DEF IInv

\* The first event of a batch, and what is left of the hand without it.
LEMMA FirstOfBatch ==
    ASSUME IInv, NEW f \in Flushes, batch[f] # <<>>
    PROVE  /\ batch[f] \in Seq(Events)
           /\ Head(batch[f]) \in Events /\ Head(batch[f]) \in InHand
           /\ Head(batch[f]) \in Range(batch[f])
           /\ Tail(batch[f]) \in Seq(Events) /\ IsInjective(Tail(batch[f]))
           /\ Len(Tail(batch[f])) <= BatchMax
           /\ Range(batch[f]) = Range(Tail(batch[f])) \cup {Head(batch[f])}
           /\ Head(batch[f]) \notin Range(Tail(batch[f]))
           /\ Head(batch[f]) \notin Range(queue) \cup pending
           /\ \A g \in Flushes \ {f} : Head(batch[f]) \notin Range(batch[g])
<1>1. batch[f] \in Seq(Events) /\ Len(batch[f]) <= BatchMax
      /\ IsInjective(batch[f])
  BY DEF IInv, Types, Once
<1>2. /\ Head(batch[f]) \in Events /\ Tail(batch[f]) \in Seq(Events)
      /\ Len(Tail(batch[f])) = Len(batch[f]) - 1
  BY <1>1, HeadTailProperties
<1>3. /\ Head(batch[f]) \in Range(batch[f])
      /\ Range(batch[f]) = Range(Tail(batch[f])) \cup {Head(batch[f])}
      /\ IsInjective(Tail(batch[f]))
      /\ Head(batch[f]) \notin Range(Tail(batch[f]))
  BY <1>1, RangeOfTail
<1>4. /\ Head(batch[f]) \notin Range(queue) \cup pending
      /\ \A g \in Flushes \ {f} : Head(batch[f]) \notin Range(batch[g])
  BY <1>3 DEF IInv, Once
<1>5. Head(batch[f]) \in InHand
  BY <1>3 DEF InHand, Batched
<1>6. Len(Tail(batch[f])) <= BatchMax
  <2>1. Len(batch[f]) \in Nat
    BY <1>1
  <2> QED BY <1>1, <1>2, <2>1, BoundsArePositive
<1> QED BY <1>1, <1>2, <1>3, <1>4, <1>5, <1>6

\* flushQueue writes the next event of its batch.
LEMMA FlushWrittenKeeps ==
    ASSUME IInv, NEW f \in Flushes, FlushWritten(f)
    PROVE  IInv'
<1> PICK e : e = Head(batch[f])
  OBVIOUS
<1> PICK rest : rest = Tail(batch[f])
  OBVIOUS
<1>1. /\ batch[f] # <<>> /\ Committed(e)
      /\ batch' = [batch EXCEPT ![f] = rest]
      /\ UNCHANGED <<pending, queue, logged, gone, abandoned>>
  BY DEF FlushWritten
<1>2. /\ e \in Events /\ e \in InHand
      /\ rest \in Seq(Events) /\ IsInjective(rest) /\ Len(rest) <= BatchMax
      /\ Range(batch[f]) = Range(rest) \cup {e}
      /\ e \notin Range(rest) /\ e \notin Range(queue) \cup pending
      /\ \A g \in Flushes \ {f} : e \notin Range(batch[g])
  BY <1>1, FirstOfBatch
<1>3. /\ batch' \in [Flushes -> Seq(Events)] /\ batch'[f] = rest
      /\ \A g \in Flushes \ {f} : batch'[g] = batch[g]
  BY <1>1, <1>2 DEF IInv, Types
<1>4. Types'
  BY <1>1, <1>2, <1>3, InsertedRows DEF IInv, Types
<1>5. \A g \in Flushes : /\ Range(batch'[g]) \subseteq Range(batch[g])
                         /\ IsInjective(batch'[g])
  BY <1>2, <1>3 DEF IInv, Once
<1>6. Once'
  BY <1>1, <1>5 DEF IInv, Once
<1>7. InHand' = InHand \ {e}
  <2>1. Batched' = Batched \ {e}
    <3>1. ASSUME NEW x \in Batched' PROVE x \in Batched \ {e}
      BY <1>2, <1>3, <1>5 DEF Batched
    <3>2. ASSUME NEW x \in Batched \ {e} PROVE x \in Batched'
      BY <1>2, <1>3 DEF Batched
    <3> QED BY <3>1, <3>2
  <2> QED BY <1>1, <1>2, <2>1 DEF InHand
<1>8. RowsOK'
  BY <1>1, <1>2, <1>7, RowWritten
<1>9. NoneLost'
  <2>1. rows[e] \in Nat /\ rows'[e] = rows[e] + 1
    BY <1>1, <1>2, InsertedRows DEF IInv, Types
  <2> QED BY <1>1, <1>2, <1>4, <1>7, <2>1, InsertedRows, StillAccounted DEF IInv
<1>10. QueueOK'
  <2>1. Busy' \subseteq Busy
    BY <1>1, <1>3 DEF Busy
  <2>2. Cardinality(Busy') <= Cardinality(Busy)
    BY <2>1, BusyIsFinite, FS_Subset
  <2>3. Len(queue) \in Nat
    BY DEF IInv, Types
  <2> QED BY <1>1, <2>2, <2>3, BusyIsFinite, BoundsArePositive DEF IInv, QueueOK
<1> QED BY <1>4, <1>6, <1>8, <1>9, <1>10 DEF IInv

\* flushQueue gives an event back whose insert failed.
LEMMA FlushFailedKeeps ==
    ASSUME IInv, NEW f \in Flushes, FlushFailed(f)
    PROVE  IInv'
<1> PICK e : e = Head(batch[f])
  OBVIOUS
<1> PICK rest : rest = Tail(batch[f])
  OBVIOUS
<1>1. /\ batch[f] # <<>> /\ Failed(e)
      /\ queue' = <<e>> \o queue
      /\ batch' = [batch EXCEPT ![f] = <<>>]
      /\ abandoned' = abandoned \cup Range(rest)
      /\ UNCHANGED <<pending, logged, gone>>
  BY DEF FlushFailed
<1>2. /\ e \in Events /\ e \in InHand /\ e \in Range(batch[f])
      /\ rest \in Seq(Events)
      /\ Range(batch[f]) = Range(rest) \cup {e}
      /\ e \notin Range(queue) \cup pending
      /\ \A g \in Flushes \ {f} : e \notin Range(batch[g])
  BY <1>1, FirstOfBatch
<1>3. /\ batch' \in [Flushes -> Seq(Events)] /\ batch'[f] = <<>>
      /\ \A g \in Flushes \ {f} : batch'[g] = batch[g]
  BY <1>1 DEF IInv, Types
<1>4. /\ queue' \in Seq(Events) /\ Len(queue') = Len(queue) + 1
      /\ Range(queue') = Range(queue) \cup {e} /\ IsInjective(queue')
  BY <1>1, <1>2, RangeOfPrepend DEF IInv, Types, Once
<1>5. Types'
  <2>1. Range(rest) \subseteq Events
    BY <1>2, RangeOfSeq
  <2>2. \A g \in Flushes : Len(batch'[g]) <= BatchMax
    <3>1. Len(batch'[f]) <= BatchMax
      BY <1>3, RangeOfEmpty, BoundsArePositive
    <3>2. \A g \in Flushes \ {f} : Len(batch'[g]) <= BatchMax
      BY <1>3 DEF IInv, Types
    <3> QED BY <3>1, <3>2
  <2> QED BY <1>1, <1>2, <1>3, <1>4, <2>1, <2>2, InsertedRows DEF IInv, Types
<1>6. Once'
  <2>1. \A g \in Flushes : /\ Range(batch'[g]) \subseteq Range(batch[g]) \ {e}
                           /\ IsInjective(batch'[g])
    BY <1>2, <1>3, RangeOfEmpty DEF IInv, Once
  <2>2. \A g, h \in Flushes : g # h => Range(batch'[g]) \cap Range(batch'[h]) = {}
    BY <2>1 DEF IInv, Once
  <2>3. \A g \in Flushes : /\ Range(batch'[g]) \cap Range(queue') = {}
                           /\ Range(batch'[g]) \cap pending' = {}
    BY <1>1, <1>4, <2>1 DEF IInv, Once
  <2>4. Range(queue') \cap pending' = {}
    BY <1>1, <1>2, <1>4 DEF IInv, Once
  <2> QED BY <1>4, <2>1, <2>2, <2>3, <2>4 DEF Once
<1>7. Batched' \subseteq Batched
      /\ Batched \subseteq Batched' \cup Range(rest) \cup {e}
  <2>1. Range(batch'[f]) = {}
    BY <1>3, RangeOfEmpty
  <2>2. \A g \in Flushes : Range(batch'[g]) \subseteq Range(batch[g])
    BY <1>3, <2>1
  <2>3. \A g \in Flushes :
           Range(batch[g]) \subseteq Range(batch'[g]) \cup Range(rest) \cup {e}
    BY <1>2, <1>3
  <2>4. \A x : x \in Batched <=> \E g \in Flushes : x \in Range(batch[g])
    BY DEF Batched
  <2>5. \A x : x \in Batched' <=> \E g \in Flushes : x \in Range(batch'[g])
    BY DEF Batched
  <2>6. Batched' \subseteq Batched
    BY ONLY <2>2, <2>4, <2>5
  <2>7. Batched \subseteq Batched' \cup Range(rest) \cup {e}
    BY ONLY <2>3, <2>4, <2>5
  <2> QED BY <2>6, <2>7
<1>8. InHand' \subseteq InHand
  BY <1>1, <1>2, <1>4, <1>7 DEF InHand
<1>9. RowsOK'
  BY <1>1, <1>2, <1>8, RowNotWritten
<1>10. NoneLost'
  <2>1. \A x \in InHand : x \in InHand' \cup abandoned'
    BY <1>1, <1>4, <1>7 DEF InHand
  <2> QED BY <1>1, <1>2, <1>5, <2>1, InsertedRows, StillAccounted DEF IInv
<1>11. QueueOK'
  <2>1. Busy' = Busy \ {f} /\ f \in Busy
    BY <1>1, <1>3 DEF Busy
  <2>2. Cardinality(Busy') = Cardinality(Busy) - 1
    BY <2>1, BusyIsFinite, FS_RemoveElement
  <2>3. Len(queue) \in Nat
    BY DEF IInv, Types
  <2> QED BY <1>4, <2>2, <2>3, BusyIsFinite, BoundsArePositive DEF IInv, QueueOK
<1> QED BY <1>5, <1>6, <1>9, <1>10, <1>11 DEF IInv

\* The process dies with the queue and the batches.
LEMMA CrashKeeps ==
    ASSUME IInv, Crash
    PROVE  IInv'
<1>1. /\ gone' = gone \cup pending \cup Range(queue) \cup Batched
      /\ pending' = {} /\ queue' = <<>>
      /\ batch' = [f \in Flushes |-> <<>>]
      /\ UNCHANGED <<rows, logged, doubtful, abandoned>>
  BY DEF Crash
<1>2. Range(queue) \subseteq Events /\ Batched \subseteq Events
  BY RangeOfSeq DEF IInv, Types, Batched
<1>3. Types'
  BY <1>1, <1>2, RangeOfEmpty, BoundsArePositive DEF IInv, Types
<1>4. Once'
  BY <1>1, RangeOfEmpty DEF Once
<1>5. InHand' = {}
  BY <1>1, RangeOfEmpty DEF InHand, Batched
<1>6. RowsOK'
  BY <1>1, <1>5, RowsUntouched
<1>7. NoneLost'
  BY <1>1 DEF IInv, NoneLost, InHand
<1>8. QueueOK'
  <2>1. Busy' = {}
    BY <1>1 DEF Busy
  <2>2. Len(queue') = 0 /\ Cardinality(Busy') = 0
    BY <1>1, <2>1, FS_EmptySet, RangeOfEmpty
  <2> QED BY <2>2, BusyIsFinite, BoundsArePositive DEF QueueOK
<1> QED BY <1>3, <1>4, <1>6, <1>7, <1>8 DEF IInv

-----------------------------------------------------------------------------
(***************************************************************************)
(* The invariants of every behaviour.                                      *)
(***************************************************************************)
LEMMA InitKeeps == Init => IInv
<1> SUFFICES ASSUME Init PROVE IInv
  OBVIOUS
<1>1. Types
  BY RangeOfEmpty, BoundsArePositive DEF Init, Types
<1>2. Once
  BY RangeOfEmpty DEF Init, Once
<1>3. InHand = {}
  BY RangeOfEmpty DEF Init, InHand, Batched
<1>4. RowsOK /\ NoneLost
  BY <1>3 DEF Init, RowsOK, NoneLost
<1>5. QueueOK
  <2>1. Busy = {}
    BY DEF Init, Busy
  <2>2. Len(queue) = 0 /\ Cardinality(Busy) = 0
    BY <2>1, FS_EmptySet, RangeOfEmpty DEF Init
  <2> QED BY <2>2, BusyIsFinite, BoundsArePositive DEF QueueOK
<1> QED BY <1>1, <1>2, <1>4, <1>5 DEF IInv

\* Every step keeps the invariant.
LEMMA NextKeeps == IInv /\ [Next]_vars => IInv'
<1> SUFFICES ASSUME IInv, [Next]_vars PROVE IInv'
  OBVIOUS
<1>1. CASE UNCHANGED vars
  BY <1>1 DEF vars, IInv, Types, Once, RowsOK, NoneLost, QueueOK, Busy, InHand,
              Batched
<1> QED BY <1>1, LogKeeps, LogWrittenKeeps, LogFailedKeeps, StartFlushKeeps,
           FlushWrittenKeeps, FlushFailedKeeps, CrashKeeps DEF Next

\* The invariant holds in every reachable state.
THEOREM Invariance == Spec => []IInv
BY InitKeeps, NextKeeps, PTL DEF Spec

\* How often an event is held, from where it is held.
LEMMA HeldOnce ==
    ASSUME IInv, NEW e \in Events
    PROVE  Held(e) = IF e \in InHand THEN 1 ELSE 0
<1>1. CountIn(queue, e) = IF e \in Range(queue) THEN 1 ELSE 0
  <2> DEFINE Places == {i \in DOMAIN queue : queue[i] = e}
  <2>1. CASE e \in Range(queue)
    <3> PICK i \in DOMAIN queue : queue[i] = e
      BY <2>1 DEF Range
    <3>1. Places = {i}
      BY DEF IInv, Once, IsInjective
    <3> QED BY <2>1, <3>1, FS_Singleton DEF CountIn
  <2>2. CASE e \notin Range(queue)
    <3>1. Places = {}
      BY <2>2 DEF Range
    <3> QED BY <2>2, <3>1, FS_EmptySet DEF CountIn
  <2> QED BY <2>1, <2>2
<1>2. Cardinality(InFlight(e)) = IF e \in Batched THEN 1 ELSE 0
  <2>1. CASE e \in Batched
    <3> PICK f \in Flushes : e \in Range(batch[f])
      BY <2>1 DEF Batched
    <3>1. InFlight(e) = {f}
      BY DEF IInv, Once, InFlight
    <3> QED BY <2>1, <3>1, FS_Singleton
  <2>2. CASE e \notin Batched
    <3>1. InFlight(e) = {}
      BY <2>2 DEF Batched, InFlight
    <3> QED BY <2>2, <3>1, FS_EmptySet
  <2> QED BY <2>1, <2>2
<1>3. /\ ~(e \in Range(queue) /\ e \in Batched)
      /\ ~(e \in Range(queue) /\ e \in pending)
      /\ ~(e \in Batched /\ e \in pending)
  BY DEF IInv, Once, Batched
<1> QED BY <1>1, <1>2, <1>3 DEF Held, InHand

\* The table, the queue and the batches have their types; overlapping flushes
\* that give events back do not outgrow the queue by more than their number
\* (enqueue, flushQueue).
THEOREM TypeCorrect == Spec => []TypeOK
<1>1. IInv => TypeOK
  <2> SUFFICES ASSUME IInv PROVE TypeOK
    OBVIOUS
  <2>1. QueueBounded
    <3>1. Len(queue) \in Nat
      BY DEF IInv, Types
    <3> QED BY <3>1, BusyIsFinite, BoundsArePositive
            DEF IInv, QueueOK, QueueBounded
  <2> QED BY <2>1 DEF IInv, Types, TypeOK
<1> QED BY <1>1, Invariance, PTL

\* No event is recorded twice or lost unnoticed, whatever flushes, failures,
\* overflows and crashes overlap (audit.service.ts).
THEOREM EventsAccounted == Spec => []Accounted
<1>1. IInv => Accounted
  <2> SUFFICES ASSUME IInv PROVE Accounted
    OBVIOUS
  <2>1. OnePlace
    <3> SUFFICES ASSUME NEW e \in Events
                 PROVE  Held(e) + rows[e] <= (IF e \in doubtful THEN 2 ELSE 1)
      BY DEF OnePlace
    <3>1. /\ rows[e] \in Nat
          /\ IF e \in InHand THEN rows[e] = IF e \in doubtful THEN 1 ELSE 0
                             ELSE rows[e] <= IF e \in doubtful THEN 2 ELSE 1
      BY DEF IInv, Types, RowsOK
    <3> QED BY <3>1, HeldOnce
  <2>2. \A e \in logged :
            rows[e] > 0 \/ Held(e) > 0 \/ e \in gone \cup abandoned
    BY HeldOnce DEF IInv, NoneLost, Types
  <2> QED BY <2>1, <2>2 DEF Accounted
<1> QED BY <1>1, Invariance, PTL
=============================================================================
