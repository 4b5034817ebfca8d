--------------------------- MODULE WebClient_proofs ---------------------------
(***************************************************************************)
(* Proofs about the parts of WebClient, for any numbers of questions,      *)
(* toasts, clauses, jobs and metrics.  The parts share no variable, so a   *)
(* step of one leaves the invariants of the others alone.                  *)
(***************************************************************************)
EXTENDS WebClient, Subsequences_proofs

-----------------------------------------------------------------------------
(***************************************************************************)
(* The review page and the version history.                                *)
(***************************************************************************)

\* The page creates a job exactly while it says so, and polls exactly while
\* it says that the export is processing.
ReviewInv ==
    /\ {mounted, creating} \subseteq BOOLEAN
    /\ completion \in {"open", "completing", "completed"}
    /\ export \in {"idle", "creating", "processing", "ready", "error"}
    /\ poll \in {"none", "timer", "asked"}
    /\ {job, asked} \subseteq Jobs \cup {Nothing}
    /\ mounted => (creating <=> export = "creating")
    /\ PollsWhileProcessing

\* Fetches of the effect are for the entity that is open; before the first
\* retry there are no others that count.
PanelInv ==
    /\ {loading, failed, retried} \subseteq BOOLEAN
    /\ {panel, entries} \subseteq Entities \cup {Nothing}
    /\ fetch \in [Fetches -> {NoFetch} \cup
                     [entity : Entities, by : {"effect", "retry", "cancelled"}]]
    /\ \A f \in Fetches :
          /\ fetch[f].by = "effect" => fetch[f].entity = panel
          /\ ~retried => fetch[f].by # "retry"
    /\ HistoryUnlessRetried

\* Both invariants hold when a page opens.
LEMMA PagesStart == PagesInit => ReviewInv /\ PanelInv
<1> SUFFICES ASSUME PagesInit PROVE ReviewInv /\ PanelInv
  OBVIOUS
<1>1. ReviewInv
  BY DEF PagesInit, ReviewInv, PollsWhileProcessing
<1>2. \A f \in Fetches : fetch[f] = NoFetch /\ fetch[f].by = "none"
  BY DEF PagesInit, NoFetch
<1>3. fetch \in [Fetches -> {NoFetch} \cup
                     [entity : Entities, by : {"effect", "retry", "cancelled"}]]
  BY DEF PagesInit
<1> QED BY <1>1, <1>2, <1>3 DEF PagesInit, PanelInv, HistoryUnlessRetried

\* Every step of the review page keeps its invariant.
LEMMA ReviewStep ==
    ASSUME ReviewInv, ReviewNext
    PROVE  ReviewInv'
<1> USE DEF ReviewInv, PollsWhileProcessing
<1>1. CASE HandleComplete
  BY <1>1 DEF HandleComplete
<1>2. CASE CompleteAnswered
  BY <1>2 DEF CompleteAnswered
<1>3. CASE HandleExport
  BY <1>3 DEF HandleExport
<1>4. CASE ExportCreated
  BY <1>4 DEF ExportCreated
<1>5. CASE ExportRefused
  BY <1>5 DEF ExportRefused
<1>6. CASE PollTimer
  BY <1>6 DEF PollTimer
<1>7. CASE PollAnswered
  BY <1>7 DEF PollAnswered
<1>8. CASE Unmount
  BY <1>8 DEF Unmount
<1>9. CASE Mount
  BY <1>9 DEF Mount
<1> QED
  BY <1>1, <1>2, <1>3, <1>4, <1>5, <1>6, <1>7, <1>8, <1>9 DEF ReviewNext

\* What the cleanup of the effect makes of the fetches.
LEMMA CancelledFetches ==
    ASSUME PanelInv
    PROVE  /\ Cancelled \in [Fetches -> {NoFetch} \cup
                  [entity : Entities, by : {"effect", "retry", "cancelled"}]]
           /\ \A f \in Fetches :
                 /\ Cancelled[f].by # "effect"
                 /\ Cancelled[f].by = "retry" => fetch[f].by = "retry"
<1>1. ASSUME NEW f \in Fetches
      PROVE  /\ Cancelled[f] \in {NoFetch} \cup
                    [entity : Entities, by : {"effect", "retry", "cancelled"}]
             /\ Cancelled[f].by # "effect"
             /\ Cancelled[f].by = "retry" => fetch[f].by = "retry"
  <2>1. CASE fetch[f].by = "effect"
    <3>1. fetch[f] \in [entity : Entities, by : {"effect", "retry", "cancelled"}]
      BY <2>1 DEF PanelInv, NoFetch
    <3>2. Cancelled[f] = [entity |-> fetch[f].entity, by |-> "cancelled"]
      BY <2>1, <3>1 DEF Cancelled
    <3> QED BY <2>1, <3>1, <3>2
  <2>2. CASE fetch[f].by # "effect"
    BY <2>2 DEF PanelInv, Cancelled
  <2> QED BY <2>1, <2>2
<1> QED BY <1>1 DEF Cancelled

\* Every step of the history panel keeps its invariant.
LEMMA PanelStep ==
    ASSUME PanelInv, PanelNext
    PROVE  PanelInv'
<1> DEFINE Fetch == {NoFetch} \cup
                 [entity : Entities, by : {"effect", "retry", "cancelled"}]
<1>1. ASSUME NEW entity \in Entities, Open(entity) PROVE PanelInv'
  <2>1. PICK f \in Fetches :
           fetch' = [Cancelled EXCEPT ![f] = [entity |-> entity, by |-> "effect"]]
    BY <1>1 DEF Open
  <2>2. /\ fetch' \in [Fetches -> Fetch]
        /\ \A g \in Fetches : g # f => fetch'[g] = Cancelled[g]
        /\ fetch'[f] = [entity |-> entity, by |-> "effect"]
    BY <2>1, CancelledFetches
  <2>3. \A g \in Fetches : /\ fetch'[g].by = "effect" => fetch'[g].entity = entity
                           /\ ~retried => fetch'[g].by # "retry"
    BY <2>2, CancelledFetches DEF PanelInv
  <2>4. /\ panel' = entity /\ loading' = TRUE /\ failed' = FALSE
        /\ entries' = entries /\ retried' = retried
    BY <1>1 DEF Open
  <2> QED
    BY <2>2, <2>3, <2>4 DEF PanelInv, HistoryUnlessRetried
<1>2. CASE Close
  BY <1>2, CancelledFetches DEF PanelInv, Close, HistoryUnlessRetried
<1>3. CASE Retry
  <2>1. PICK f \in Fetches :
           fetch' = [fetch EXCEPT ![f] = [entity |-> panel, by |-> "retry"]]
    BY <1>3 DEF Retry
  <2>2. /\ fetch' \in [Fetches -> Fetch]
        /\ \A g \in Fetches : g # f => fetch'[g] = fetch[g]
        /\ fetch'[f] = [entity |-> panel, by |-> "retry"]
    BY <1>3, <2>1 DEF PanelInv, Retry
  <2>3. \A g \in Fetches : fetch'[g].by = "effect" => fetch'[g].entity = panel
    BY <2>2 DEF PanelInv
  <2>4. /\ panel' = panel /\ loading' = TRUE /\ failed' = FALSE
        /\ entries' = entries /\ retried' = TRUE
    BY <1>3 DEF Retry
  <2> QED
    BY <2>2, <2>3, <2>4 DEF PanelInv, HistoryUnlessRetried
<1>4. ASSUME NEW f \in Fetches, NEW ok \in BOOLEAN, Fetched(f, ok)
      PROVE  PanelInv'
  <2>1. /\ fetch' \in [Fetches -> Fetch]
        /\ \A g \in Fetches : g # f => fetch'[g] = fetch[g]
        /\ fetch'[f].by = "none"
        /\ fetch[f] \in [entity : Entities, by : {"effect", "retry", "cancelled"}]
    BY <1>4 DEF PanelInv, Fetched, NoFetch
  <2>2. CASE fetch[f].by = "cancelled"
    BY <1>4, <2>1, <2>2 DEF PanelInv, Fetched, HistoryUnlessRetried
  <2>3. CASE fetch[f].by # "cancelled"
    <3>1. /\ entries' = IF ok THEN fetch[f].entity ELSE entries
          /\ failed' = (failed \/ ~ok) /\ loading' = FALSE
          /\ UNCHANGED <<panel, retried>>
      BY <1>4, <2>3 DEF Fetched
    <3>2. /\ {loading, failed, retried}' \subseteq BOOLEAN
          /\ {panel, entries}' \subseteq Entities \cup {Nothing}
      BY <2>1, <3>1 DEF PanelInv
    <3>3. HistoryUnlessRetried'
      BY <2>1, <2>3, <3>1 DEF PanelInv, HistoryUnlessRetried
    <3>4. \A g \in Fetches : /\ fetch'[g].by = "effect" => fetch'[g].entity = panel'
                             /\ ~retried' => fetch'[g].by # "retry"
      BY <2>1, <3>1 DEF PanelInv
    <3> QED BY <2>1, <3>2, <3>3, <3>4 DEF PanelInv
  <2> QED BY <2>2, <2>3
<1> QED BY <1>1, <1>2, <1>3, <1>4 DEF PanelNext

\* The review page and the history are sound: while the page says that the
\* export is processing it polls, for the job of the last attempt, and the
\* history that is shown is that of the entity it was opened for, unless a
\* fetch was repeated on demand (ReviewPage.tsx, ChangelogPanel.tsx).
THEOREM PagesCorrect == Spec => []PagesAreSound
<1>1. Init => ReviewInv /\ PanelInv
  BY PagesStart DEF Init
<1>2. ASSUME ReviewInv, PanelInv, [Next]_clientVars
      PROVE  ReviewInv' /\ PanelInv'
  <2>1. CASE PagesStep
    <3>1. CASE ReviewNext /\ UNCHANGED panelVars
      <4>1. ReviewInv'
        BY <1>2, <3>1, ReviewStep
      <4>2. PanelInv'
        BY <1>2, <3>1 DEF PanelInv, HistoryUnlessRetried, panelVars
      <4> QED BY <4>1, <4>2
    <3>2. CASE PanelNext /\ UNCHANGED reviewVars
      <4>1. PanelInv'
        BY <1>2, <3>2, PanelStep
      <4>2. ReviewInv'
        BY <1>2, <3>2 DEF ReviewInv, PollsWhileProcessing, reviewVars
      <4> QED BY <4>1, <4>2
    <3> QED BY <2>1, <3>1, <3>2 DEF PagesStep, PagesNext
  <2>2. CASE UNCHANGED pageVars
    BY <1>2, <2>2 DEF ReviewInv, PanelInv, PollsWhileProcessing,
       HistoryUnlessRetried, pageVars, reviewVars, panelVars
  <2>3. PagesStep \/ UNCHANGED pageVars
    BY <1>2 DEF Next, InterviewStep, ToastsStep, ReorderStep, RumStep, clientVars
  <2> QED BY <2>1, <2>2, <2>3
<1>3. ReviewInv /\ PanelInv => PagesAreSound
  BY DEF ReviewInv, PanelInv, PagesAreSound, PagesTypeOK
<1> QED BY <1>1, <1>2, <1>3, PTL DEF Spec

-----------------------------------------------------------------------------
(***************************************************************************)
(* Real user monitoring.  The numbers of the captured metrics are split    *)
(* among the buffer, the batches on their way, the ring and the losses.    *)
(***************************************************************************)
AllDiffer(s) == \A m, n \in DOMAIN s : s[m] = s[n] => m = n

OnTheWay(batches) == UNION {Items(batches[n]) : n \in DOMAIN batches}

Batches(batches) ==
    /\ \A n \in DOMAIN batches : /\ AllDiffer(batches[n])
                                 /\ Len(batches[n]) \in 1 .. ClientBuffer
    /\ \A m, n \in DOMAIN batches :
          m # n => Items(batches[m]) \cap Items(batches[n]) = {}

Split(whole, a, b, c, d) ==
    /\ whole = a \cup b \cup c \cup d
    /\ a \cap b = {} /\ a \cap c = {} /\ a \cap d = {}
    /\ b \cap c = {} /\ b \cap d = {} /\ c \cap d = {}

RumInv ==
    /\ running \in BOOLEAN /\ captured \in 0 .. MaxMetrics
    /\ recent \in 0 .. RequestsPerWindow
    /\ buffer \in Seq(Nat) /\ AllDiffer(buffer) /\ Len(buffer) <= ClientBuffer
    /\ ring \in Seq(Nat) /\ AllDiffer(ring) /\ Len(ring) <= RingSize
    /\ sent \in Seq(Seq(Nat)) /\ Batches(sent)
    /\ Split(1 .. captured, Items(buffer), Items(ring), lost, OnTheWay(sent))

\* The limits of the buffers are positive.
LEMMA Limits ==
    /\ MaxMetrics \in Nat \ {0} /\ ClientBuffer \in Nat \ {0}
    /\ MaxBatch \in Nat \ {0} /\ RingSize \in Nat \ {0}
    /\ RequestsPerWindow \in Nat \ {0}
BY RumLimits DEF RumLimits

\* An empty buffer holds no metric.
LEMMA NoItems == /\ Items(<<>>) = {} /\ <<>> \in Seq(Nat) /\ AllDiffer(<<>>)
                 /\ <<>> \in Seq(Seq(Nat)) /\ Len(<<>>) = 0
                 /\ OnTheWay(<<>>) = {} /\ Batches(<<>>)
<1>1. /\ <<>> \in Seq(Nat) /\ <<>> \in Seq(Seq(Nat)) /\ Len(<<>>) = 0
      /\ DOMAIN <<>> = {}
  BY EmptySeq
<1> QED BY <1>1 DEF Items, AllDiffer, OnTheWay, Batches

\* A sequence without repetitions is as long as it has elements.
LEMMA CountedItems ==
    ASSUME NEW T, NEW s \in Seq(T), AllDiffer(s)
    PROVE  IsFiniteSet(Items(s)) /\ Cardinality(Items(s)) = Len(s)
<1>1. PICK n \in Nat : n = Len(s) /\ DOMAIN s = 1 .. n
  BY LenProperties
<1>2. IsFiniteSet(1 .. n) /\ Cardinality(1 .. n) = n
  <2>1. /\ IsFiniteSet(1 .. n)
        /\ Cardinality(1 .. n) = IF 1 > n THEN 0 ELSE n - 1 + 1
    <3>1. 1 \in Int /\ n \in Int
      OBVIOUS
    <3> QED BY ONLY <3>1, FS_Interval
  <2> QED BY <2>1
<1>3. s \in Bijection(1 .. n, Items(s))
  <2>1. s \in [1 .. n -> Items(s)]
    BY <1>1, LenProperties, SeqDef DEF Items
  <2>2. \A k, l \in 1 .. n : s[k] = s[l] => k = l
    BY <1>1 DEF AllDiffer
  <2>3. \A x \in Items(s) : \E k \in 1 .. n : s[k] = x
    BY <1>1 DEF Items
  <2> QED
    BY <2>1, <2>2, <2>3 DEF Bijection, Injection, IsInjective, Surjection
<1>4. ExistsBijection(1 .. n, Items(s))
  BY <1>3 DEF ExistsBijection
<1> QED BY <1>1, <1>2, <1>4, FS_Bijection

\* Trimming keeps the newest.
LEMMA NewestKept ==
    ASSUME NEW s \in Seq(Nat), AllDiffer(s), NEW size \in Nat
    PROVE  /\ Newest(s, size) \in Seq(Nat) /\ AllDiffer(Newest(s, size))
           /\ Len(Newest(s, size)) <= size
           /\ Len(Newest(s, size)) = IF Len(s) <= size THEN Len(s) ELSE size
           /\ Items(Newest(s, size)) \subseteq Items(s)
<1>1. PICK n \in Nat : n = Len(s) /\ DOMAIN s = 1 .. n
  BY LenProperties
<1>2. CASE n <= size
  BY <1>1, <1>2 DEF Newest
<1>3. CASE n > size
  <2>1. PICK t : t = Newest(s, size)
    OBVIOUS
  <2>2. t = SubSeq(s, n - size + 1, n)
    BY <1>1, <1>3, <2>1 DEF Newest
  <2>3. /\ t \in Seq(Nat) /\ Len(t) = (IF n - size + 1 <= n THEN n - (n - size + 1) + 1 ELSE 0)
        /\ \A i \in 1 .. n - (n - size + 1) + 1 : t[i] = s[n - size + 1 + i - 1]
    <3>1. n - size + 1 \in Int /\ n \in Int
      OBVIOUS
    <3>2. \A i \in (n - size + 1) .. n : s[i] \in Nat
      BY <1>1, <1>3, ElementOfSeq
    <3> QED BY <2>2, <3>1, <3>2, SubSeqProperties
  <2>4. Len(t) = size /\ DOMAIN t = 1 .. size
    BY <1>3, <2>3, LenProperties
  <2>5. \A i \in 1 .. size : n - size + i \in 1 .. n /\ t[i] = s[n - size + i]
    BY <1>3, <2>3
  <2>6. AllDiffer(t)
    <3> SUFFICES ASSUME NEW i \in 1 .. size, NEW j \in 1 .. size, t[i] = t[j]
                 PROVE  i = j
      BY <2>4 DEF AllDiffer
    <3>1. s[n - size + i] = s[n - size + j]
      BY <2>5
    <3>2. n - size + i = n - size + j
      BY <1>1, <2>5, <3>1 DEF AllDiffer
    <3> QED BY <3>2
  <2>7. ASSUME NEW x \in Items(t) PROVE x \in Items(s)
    <3>1. PICK i \in 1 .. size : x = t[i]
      BY <2>4, <2>7 DEF Items
    <3>2. n - size + i \in DOMAIN s /\ x = s[n - size + i]
      BY <1>1, <2>5, <3>1
    <3> QED BY <3>2 DEF Items
  <2> QED BY <1>1, <1>3, <2>1, <2>3, <2>4, <2>6, <2>7
<1> QED BY <1>1, <1>2, <1>3

\* A new metric joins a buffer.
LEMMA OneMoreItem ==
    ASSUME NEW s \in Seq(Nat), AllDiffer(s), NEW x \in Nat, x \notin Items(s)
    PROVE  /\ Append(s, x) \in Seq(Nat) /\ AllDiffer(Append(s, x))
           /\ Items(Append(s, x)) = Items(s) \cup {x}
<1>1. PICK n \in Nat : n = Len(s) /\ DOMAIN s = 1 .. n
  BY LenProperties
<1>2. PICK t : t = Append(s, x)
  OBVIOUS
<1>3. /\ t \in Seq(Nat) /\ DOMAIN t = 1 .. n + 1 /\ t[n + 1] = x
      /\ \A i \in 1 .. n : t[i] = s[i]
  BY <1>1, <1>2, AppendProperties, LenProperties
<1>4. AllDiffer(t)
  <2> SUFFICES ASSUME NEW i \in 1 .. n + 1, NEW j \in 1 .. n + 1, t[i] = t[j]
               PROVE  i = j
    BY <1>3 DEF AllDiffer
  <2>1. \A k \in 1 .. n : t[k] # x
    BY <1>1, <1>3 DEF Items
  <2>2. CASE i \in 1 .. n /\ j \in 1 .. n
    BY <1>1, <1>3, <2>2 DEF AllDiffer
  <2>3. CASE i = n + 1 \/ j = n + 1
    BY <1>3, <2>1, <2>3
  <2> QED BY <2>2, <2>3
<1>5. Items(t) = Items(s) \cup {x}
  BY <1>1, <1>3 DEF Items
<1> QED BY <1>2, <1>3, <1>4, <1>5

\* Two buffers without a common metric become one.
LEMMA JoinedItems ==
    ASSUME NEW s \in Seq(Nat), AllDiffer(s), NEW t \in Seq(Nat), AllDiffer(t),
           Items(s) \cap Items(t) = {}
    PROVE  /\ s \o t \in Seq(Nat) /\ AllDiffer(s \o t)
           /\ Items(s \o t) = Items(s) \cup Items(t)
<1>1. PICK m \in Nat, n \in Nat : /\ m = Len(s) /\ DOMAIN s = 1 .. m
                                  /\ n = Len(t) /\ DOMAIN t = 1 .. n
  BY LenProperties
<1>2. PICK u : u = s \o t
  OBVIOUS
<1>3. /\ u \in Seq(Nat) /\ DOMAIN u = 1 .. m + n
      /\ \A i \in 1 .. m + n : u[i] = IF i <= m THEN s[i] ELSE t[i - m]
  BY <1>1, <1>2, ConcatProperties, LenProperties
<1>4. \A i \in 1 .. m + n :
         /\ i <= m => i \in 1 .. m /\ u[i] = s[i]
         /\ i > m => i - m \in 1 .. n /\ u[i] = t[i - m]
         /\ i <= m \/ i > m
  BY <1>3
<1>5. Items(u) = Items(s) \cup Items(t)
  <2>1. ASSUME NEW x \in Items(u) PROVE x \in Items(s) \cup Items(t)
    <3>1. PICK i \in 1 .. m + n : x = u[i]
      BY <1>3, <2>1 DEF Items
    <3>2. \/ i \in DOMAIN s /\ x = s[i]
          \/ i - m \in DOMAIN t /\ x = t[i - m]
      BY <1>1, <1>4, <3>1
    <3> QED BY <3>2 DEF Items
  <2>2. ASSUME NEW x \in Items(s) PROVE x \in Items(u)
    <3>1. PICK i \in 1 .. m : x = s[i]
      BY <1>1, <2>2 DEF Items
    <3>2. i \in 1 .. m + n /\ u[i] = x
      BY <1>3, <3>1
    <3> QED BY <1>3, <3>2 DEF Items
  <2>3. ASSUME NEW x \in Items(t) PROVE x \in Items(u)
    <3>1. PICK i \in 1 .. n : x = t[i]
      BY <1>1, <2>3 DEF Items
    <3>2. PICK j : j = m + i
      OBVIOUS
    <3>3. j \in 1 .. m + n /\ ~(j <= m) /\ j - m = i
      BY <3>2
    <3>4. u[j] = x
      BY <1>3, <3>1, <3>3
    <3> QED BY <1>3, <3>3, <3>4 DEF Items
  <2> QED BY <2>1, <2>2, <2>3
<1>6. AllDiffer(u)
  <2> SUFFICES ASSUME NEW i \in 1 .. m + n, NEW j \in 1 .. m + n, u[i] = u[j]
               PROVE  i = j
    BY <1>3 DEF AllDiffer
  <2>1. CASE i <= m /\ j <= m
    <3>1. i \in DOMAIN s /\ j \in DOMAIN s /\ s[i] = s[j]
      BY <1>1, <1>4, <2>1
    <3> QED BY <3>1 DEF AllDiffer
  <2>2. CASE i > m /\ j > m
    <3>1. i - m \in DOMAIN t /\ j - m \in DOMAIN t /\ t[i - m] = t[j - m]
      BY <1>1, <1>4, <2>2
    <3>2. i - m = j - m
      BY <3>1 DEF AllDiffer
    <3> QED BY <3>2
  <2>3. \A k, l \in 1 .. m + n : k <= m /\ l > m => u[k] # u[l]
    <3> SUFFICES ASSUME NEW k \in 1 .. m + n, NEW l \in 1 .. m + n, k <= m, l > m
                 PROVE  u[k] # u[l]
      OBVIOUS
    <3>1. k \in DOMAIN s /\ u[k] = s[k] /\ l - m \in DOMAIN t /\ u[l] = t[l - m]
      BY <1>1, <1>4
    <3>2. u[k] \in Items(s) /\ u[l] \in Items(t)
      BY <3>1 DEF Items
    <3> QED BY <3>2
  <2> QED BY <2>1, <2>2, <2>3
<1> QED BY <1>2, <1>3, <1>5, <1>6

\* One element is taken out of a sequence of length k.
Lacks(t, s, k, n) ==
    /\ DOMAIN t = 1 .. k - 1
    /\ \A i \in 1 .. k - 1 : /\ i < n => t[i] = s[i]
                             /\ i >= n => t[i] = s[i + 1]

\* Without takes the n-th element out.
LEMMA WithoutOne ==
    ASSUME NEW T, NEW ss \in Seq(T), NEW k \in Nat, k = Len(ss), NEW n \in 1 .. k
    PROVE  Without(ss, n) \in Seq(T) /\ Lacks(Without(ss, n), ss, k, n)
<1>1. DOMAIN ss = 1 .. k
  BY LenProperties
<1>2. n \in Nat /\ n >= 1 /\ n <= k /\ \A i \in 1 .. k : ss[i] \in T
  BY <1>1, ElementOfSeq
<1>3. PICK a, b, t : /\ a = SubSeq(ss, 1, n - 1) /\ b = SubSeq(ss, n + 1, k)
                     /\ t = Without(ss, n)
  OBVIOUS
<1>4. /\ a \in Seq(T) /\ Len(a) = n - 1
      /\ \A i \in 1 .. n - 1 : a[i] = ss[i]
  <2>1. /\ a \in Seq(T)
        /\ Len(a) = IF 1 <= n - 1 THEN (n - 1) - 1 + 1 ELSE 0
        /\ \A i \in 1 .. (n - 1) - 1 + 1 : a[i] = ss[1 + i - 1]
    <3>1. \A i \in 1 .. n - 1 : ss[i] \in T
      BY <1>2
    <3>2. 1 \in Int /\ n - 1 \in Int
      BY <1>2
    <3> QED BY <1>3, <3>1, <3>2, SubSeqProperties
  <2> QED BY <1>2, <2>1
<1>5. /\ b \in Seq(T) /\ Len(b) = k - n
      /\ \A i \in 1 .. k - n : b[i] = ss[n + i]
  <2>1. PICK m \in Nat : m = n + 1
    BY <1>2
  <2>2. /\ b \in Seq(T)
        /\ Len(b) = IF m <= k THEN k - m + 1 ELSE 0
        /\ \A i \in 1 .. k - m + 1 : b[i] = ss[m + i - 1]
    <3>1. \A i \in m .. k : ss[i] \in T
      BY <1>2, <2>1
    <3>2. m \in Int /\ k \in Int /\ b = SubSeq(ss, m, k)
      BY <1>3, <2>1
    <3> QED BY ONLY <3>1, <3>2, SubSeqProperties
  <2>3. k - m + 1 = k - n /\ (m <= k \/ k - n = 0)
    BY <1>2, <2>1
  <2>4. \A i \in 1 .. k - n : m + i - 1 = n + i
    BY <1>2, <2>1
  <2>5. Len(b) = k - n
    BY <1>2, <2>1, <2>2, <2>3
  <2> QED BY <2>2, <2>3, <2>4, <2>5
<1>6. t = a \o b
  BY <1>3 DEF Without
<1>7. /\ t \in Seq(T) /\ DOMAIN t = 1 .. k - 1
      /\ \A i \in 1 .. k - 1 : /\ i < n => t[i] = ss[i]
                               /\ i >= n => t[i] = ss[i + 1]
  <2>1. /\ t \in Seq(T) /\ Len(t) = Len(a) + Len(b)
        /\ \A i \in 1 .. Len(a) + Len(b) :
              t[i] = IF i <= Len(a) THEN a[i] ELSE b[i - Len(a)]
    BY <1>4, <1>5, <1>6, ConcatProperties
  <2>2. Len(a) + Len(b) = k - 1 /\ DOMAIN t = 1 .. k - 1
    BY <1>2, <1>4, <1>5, <2>1, LenProperties
  <2>3. ASSUME NEW i \in 1 .. k - 1
        PROVE  /\ i < n => t[i] = ss[i]
               /\ i >= n => t[i] = ss[i + 1]
    <3>0. n \in Nat /\ i \in Nat
      BY <1>2
    <3>1. ASSUME i < n PROVE t[i] = ss[i]
      <4>1. i \in 1 .. n - 1 /\ i <= n - 1
        BY <3>0, <3>1
      <4>2. t[i] = a[i]
        BY <1>4, <2>1, <2>2, <4>1
      <4> QED BY <1>4, <4>1, <4>2
    <3>2. ASSUME i >= n PROVE t[i] = ss[i + 1]
      <4>1. i - (n - 1) \in 1 .. k - n /\ n + (i - (n - 1)) = i + 1 /\ ~(i <= n - 1)
        BY <1>2, <3>2
      <4>2. t[i] = b[i - (n - 1)]
        BY <1>4, <2>1, <2>2, <4>1
      <4>3. b[i - (n - 1)] = ss[n + (i - (n - 1))]
        BY <1>5, <4>1
      <4> QED BY <1>2, <3>2, <4>1, <4>2, <4>3
    <3> QED BY <1>2, <3>1, <3>2
  <2> QED BY <2>1, <2>2, <2>3
<1> QED BY <1>3, <1>7 DEF Lacks

\* A batch leaves.
LEMMA WithoutBatch ==
    ASSUME NEW ss \in Seq(Seq(Nat)), Batches(ss), NEW n \in DOMAIN ss
    PROVE  /\ Without(ss, n) \in Seq(Seq(Nat)) /\ Batches(Without(ss, n))
           /\ OnTheWay(Without(ss, n)) = OnTheWay(ss) \ Items(ss[n])
           /\ Items(ss[n]) \subseteq OnTheWay(ss)
           /\ ss[n] \in Seq(Nat) /\ AllDiffer(ss[n])
<1>1. PICK k \in Nat : k = Len(ss) /\ DOMAIN ss = 1 .. k
  BY LenProperties
<1>2. n \in 1 .. k /\ \A i \in 1 .. k : ss[i] \in Seq(Nat)
  BY <1>1, ElementOfSeq
<1>3. PICK t : t = Without(ss, n)
  OBVIOUS
<1>7. /\ t \in Seq(Seq(Nat)) /\ DOMAIN t = 1 .. k - 1
      /\ \A i \in 1 .. k - 1 : /\ i < n => t[i] = ss[i]
                               /\ i >= n => t[i] = ss[i + 1]
  <2>1. PICK T : T = Seq(Nat)
    OBVIOUS
  <2>2. ss \in Seq(T)
    BY <2>1
  <2>3. k \in Nat /\ n \in 1 .. k /\ k = Len(ss)
    BY <1>1, <1>2
  <2>4. t \in Seq(T) /\ Lacks(t, ss, k, n)
    BY <1>3, <2>2, <2>3, WithoutOne
  <2> QED BY <2>1, <2>4 DEF Lacks
<1>0. n \in Nat /\ n >= 1 /\ n <= k
  BY <1>2
<1>8. ASSUME NEW i \in DOMAIN t
      PROVE  \E j \in DOMAIN ss : /\ j # n /\ t[i] = ss[j]
                                  /\ i < n => j = i
                                  /\ i >= n => j = i + 1
  <2>1. i \in 1 .. k - 1 /\ i \in Nat /\ k \in Nat
    BY <1>7
  <2>2. CASE i < n
    <3>1. i \in 1 .. k /\ i # n /\ ~(i >= n)
      BY ONLY <1>0, <2>1, <2>2
    <3>2. t[i] = ss[i]
      BY <1>7, <2>1, <2>2
    <3> QED BY <1>1, <2>2, <3>1, <3>2
  <2>3. CASE i >= n
    <3>1. i + 1 \in 1 .. k /\ i + 1 # n /\ ~(i < n)
      BY ONLY <1>0, <2>1, <2>3
    <3>2. t[i] = ss[i + 1]
      BY <1>7, <2>1, <2>3
    <3> QED BY <1>1, <2>3, <3>1, <3>2
  <2> QED BY <1>0, <2>1, <2>2, <2>3
<1>9. ASSUME NEW j \in DOMAIN ss, j # n
      PROVE  \E i \in DOMAIN t : t[i] = ss[j]
  <2>1. j \in 1 .. k /\ j \in Nat
    BY <1>1
  <2>2. CASE j < n
    <3>1. j \in 1 .. k - 1 /\ t[j] = ss[j]
      BY <1>0, <1>7, <2>1, <2>2
    <3> QED BY <1>7, <3>1
  <2>3. CASE j > n
    <3>1. j - 1 \in 1 .. k - 1 /\ j - 1 >= n /\ (j - 1) + 1 = j
      BY <1>0, <2>1, <2>3
    <3>2. t[j - 1] = ss[(j - 1) + 1]
      BY <1>7, <3>1
    <3>3. t[j - 1] = ss[j]
      BY <3>1, <3>2
    <3> QED BY <1>7, <3>1, <3>3
  <2> QED BY <1>0, <1>9, <2>1, <2>2, <2>3
<1>10. Batches(t)
  <2>1. \A i \in DOMAIN t : AllDiffer(t[i]) /\ Len(t[i]) \in 1 .. ClientBuffer
    BY <1>8 DEF Batches
  <2>2. ASSUME NEW i \in DOMAIN t, NEW l \in DOMAIN t, i # l
        PROVE  Items(t[i]) \cap Items(t[l]) = {}
    <3>1. i \in Nat /\ l \in Nat
      BY <1>7
    <3>2. PICK x \in DOMAIN ss : t[i] = ss[x] /\ (i < n => x = i) /\ (i >= n => x = i + 1)
      BY <1>8
    <3>3. PICK y \in DOMAIN ss : t[l] = ss[y] /\ (l < n => y = l) /\ (l >= n => y = l + 1)
      BY <1>8
    <3>4. x # y
      <4>1. x \in Nat /\ y \in Nat /\ i # l
        BY <1>1, <2>2, <3>2, <3>3
      <4>2. (i < n => x = i) /\ (i >= n => x = i + 1)
            /\ (l < n => y = l) /\ (l >= n => y = l + 1)
        BY <3>2, <3>3
      <4> QED BY ONLY <1>0, <3>1, <4>1, <4>2
    <3> QED BY <3>2, <3>3, <3>4 DEF Batches
  <2> QED BY <2>1, <2>2 DEF Batches
<1>11. OnTheWay(t) = OnTheWay(ss) \ Items(ss[n])
  <2>1. ASSUME NEW x \in OnTheWay(t) PROVE x \in OnTheWay(ss) \ Items(ss[n])
    <3>1. PICK i \in DOMAIN t : x \in Items(t[i])
      BY <2>1 DEF OnTheWay
    <3>2. PICK j \in DOMAIN ss : j # n /\ t[i] = ss[j]
      BY <1>8
    <3>3. Items(ss[j]) \cap Items(ss[n]) = {}
      BY <3>2 DEF Batches
    <3> QED BY <3>1, <3>2, <3>3 DEF OnTheWay
  <2>2. ASSUME NEW x \in OnTheWay(ss) \ Items(ss[n]) PROVE x \in OnTheWay(t)
    <3>1. PICK j \in DOMAIN ss : x \in Items(ss[j]) /\ j # n
      BY <2>2 DEF OnTheWay
    <3>2. PICK i \in DOMAIN t : t[i] = ss[j]
      BY <1>9, <3>1
    <3> QED BY <3>1, <3>2 DEF OnTheWay
  <2> QED BY <2>1, <2>2
<1>12. Items(ss[n]) \subseteq OnTheWay(ss) /\ ss[n] \in Seq(Nat) /\ AllDiffer(ss[n])
  BY <1>1, <1>2 DEF OnTheWay, Batches
<1> QED BY <1>3, <1>7, <1>10, <1>11, <1>12

\* A batch is handed over.
LEMMA AnotherBatch ==
    ASSUME NEW ss \in Seq(Seq(Nat)), Batches(ss), NEW b \in Seq(Nat),
           AllDiffer(b), Len(b) \in 1 .. ClientBuffer,
           Items(b) \cap OnTheWay(ss) = {}
    PROVE  /\ Append(ss, b) \in Seq(Seq(Nat)) /\ Batches(Append(ss, b))
           /\ OnTheWay(Append(ss, b)) = OnTheWay(ss) \cup Items(b)
<1>1. PICK n \in Nat : n = Len(ss) /\ DOMAIN ss = 1 .. n
  BY LenProperties
<1>2. PICK t : t = Append(ss, b)
  OBVIOUS
<1>3. /\ t \in Seq(Seq(Nat)) /\ DOMAIN t = 1 .. n + 1 /\ t[n + 1] = b
      /\ \A i \in 1 .. n : t[i] = ss[i]
  BY <1>1, <1>2, AppendProperties, LenProperties
<1>4. \A i \in 1 .. n + 1 : i \in 1 .. n \/ i = n + 1
  OBVIOUS
<1>5. \A i \in 1 .. n : Items(ss[i]) \cap Items(b) = {}
  BY <1>1 DEF OnTheWay
<1>6. Batches(t)
  <2>1. \A i \in DOMAIN t : AllDiffer(t[i]) /\ Len(t[i]) \in 1 .. ClientBuffer
    BY <1>1, <1>3, <1>4 DEF Batches
  <2>2. ASSUME NEW i \in DOMAIN t, NEW j \in DOMAIN t, i # j
        PROVE  Items(t[i]) \cap Items(t[j]) = {}
    BY <1>1, <1>3, <1>4, <1>5, <2>2 DEF Batches
  <2> QED BY <2>1, <2>2 DEF Batches
<1>7. OnTheWay(t) = OnTheWay(ss) \cup Items(b)
  <2>1. ASSUME NEW x \in OnTheWay(t) PROVE x \in OnTheWay(ss) \cup Items(b)
    <3>1. PICK i \in 1 .. n + 1 : x \in Items(t[i])
      BY <1>3, <2>1 DEF OnTheWay
    <3> QED BY <1>1, <1>3, <1>4, <3>1 DEF OnTheWay
  <2>2. ASSUME NEW x \in OnTheWay(ss) PROVE x \in OnTheWay(t)
    <3>1. PICK i \in 1 .. n : x \in Items(ss[i])
      BY <1>1, <2>2 DEF OnTheWay
    <3>2. i \in DOMAIN t /\ x \in Items(t[i])
      BY <1>3, <3>1
    <3> QED BY <3>2 DEF OnTheWay
  <2>3. Items(b) \subseteq OnTheWay(t)
    <3>1. n + 1 \in DOMAIN t
      BY <1>3
    <3> QED BY <1>3, <3>1 DEF OnTheWay
  <2> QED BY <2>1, <2>2, <2>3
<1> QED BY <1>2, <1>3, <1>6, <1>7

\* Trimming splits a sequence into what is kept and what is dropped.
LEMMA TrimmedItems ==
    ASSUME NEW s \in Seq(Nat), AllDiffer(s), NEW size \in Nat
    PROVE  /\ Items(s) = Items(Newest(s, size)) \cup Dropped(s, size)
           /\ Items(Newest(s, size)) \cap Dropped(s, size) = {}
<1>1. PICK a, b : a = Items(s) /\ b = Items(Newest(s, size))
  OBVIOUS
<1>2. b \subseteq a
  BY <1>1, NewestKept
<1> QED BY <1>1, <1>2 DEF Dropped

\* Metrics moved from one of the four places to another are still in exactly
\* one.
LEMMA SplitMoves ==
    ASSUME NEW N, NEW a, NEW b, NEW c, NEW d, Split(N, a, b, c, d)
    PROVE  /\ \A x : x \notin N /\ N \cap {x} = {}
                  => Split(N \cup {x}, a \cup {x}, b, c, d)
           /\ \A x : x \subseteq a => Split(N, a \ x, b, c \cup x, d)
           /\ Split(N, {}, b, c, d \cup a)
           /\ \A x : x \subseteq d => /\ Split(N, a, b, c \cup x, d \ x)
                                      /\ Split(N, a, b \cup x, c, d \ x)
           /\ \A x : x \subseteq b => Split(N, a, b \ x, c \cup x, d)
BY DEF Split

\* The invariant holds when the client starts.
LEMMA RumStart == RumInit => RumInv
<1> SUFFICES ASSUME RumInit PROVE RumInv
  OBVIOUS
<1>1. 1 .. captured = {} /\ captured \in 0 .. MaxMetrics /\ recent \in 0 .. RequestsPerWindow
  BY Limits DEF RumInit
<1>2. Split({}, {}, {}, {}, {})
  BY DEF Split
<1>3. /\ Len(buffer) <= ClientBuffer /\ Len(ring) <= RingSize
  BY NoItems, Limits DEF RumInit
<1> QED BY <1>1, <1>2, <1>3, NoItems DEF RumInit, RumInv

\* addMetric, which may flush and may push out the oldest metric.
LEMMA Added ==
    ASSUME RumInv, AddMetric
    PROVE  RumInv'
<1>1. PICK next : next = Append(buffer, captured + 1)
  OBVIOUS
<1>2. PICK kept : kept = Newest(next, ClientBuffer)
  OBVIOUS
<1>3. /\ buffer' = kept /\ lost' = lost \cup Dropped(next, ClientBuffer)
      /\ captured' = captured + 1
      /\ UNCHANGED <<running, sent, ring, recent>>
  BY <1>1, <1>2 DEF AddMetric
<1>4. /\ captured \in Nat /\ captured + 1 \in Nat /\ captured' \in 0 .. MaxMetrics
      /\ 1 .. captured' = (1 .. captured) \cup {captured + 1}
      /\ captured + 1 \notin 1 .. captured
  BY <1>3, Limits DEF RumInv, AddMetric
<1>5. captured + 1 \notin Items(buffer)
  BY <1>4 DEF RumInv, Split
<1>6. /\ next \in Seq(Nat) /\ AllDiffer(next)
      /\ Items(next) = Items(buffer) \cup {captured + 1}
  BY <1>1, <1>4, <1>5, OneMoreItem DEF RumInv
<1>7. /\ kept \in Seq(Nat) /\ AllDiffer(kept) /\ Len(kept) <= ClientBuffer
      /\ Items(next) = Items(kept) \cup Dropped(next, ClientBuffer)
      /\ Items(kept) \cap Dropped(next, ClientBuffer) = {}
  BY <1>2, <1>6, NewestKept, TrimmedItems, Limits
<1>8. Split(1 .. captured', Items(kept), Items(ring), lost', OnTheWay(sent))
  <2>1. PICK N, a, b, c, d, k, x :
           /\ N = 1 .. captured /\ a = Items(buffer) /\ b = Items(ring)
           /\ c = lost /\ d = OnTheWay(sent) /\ k = Items(kept)
           /\ x = Dropped(next, ClientBuffer)
    OBVIOUS
  <2>2. PICK m : m = captured + 1
    OBVIOUS
  <2>3. Split(N, a, b, c, d) /\ m \notin N /\ a \cup {m} = k \cup x /\ k \cap x = {}
    BY <1>4, <1>6, <1>7, <2>1, <2>2 DEF RumInv
  <2>4. Split(N \cup {m}, k, b, c \cup x, d)
    BY <2>3 DEF Split
  <2> QED BY <1>3, <1>4, <2>1, <2>2, <2>4
<1> QED BY <1>3, <1>4, <1>7, <1>8 DEF RumInv

\* flush sends at most one batch.
LEMMA Flushed ==
    ASSUME RumInv, Flush, UNCHANGED <<captured, ring, recent, lost>>,
           running' \in BOOLEAN
    PROVE  RumInv'
<1>1. Len(buffer) \in 1 .. ClientBuffer
  <2>1. Len(buffer) \in Nat /\ Len(buffer) # 0
    BY LenProperties, EmptySeq DEF Flush, RumInv
  <2> QED BY <2>1, Limits DEF RumInv
<1>2. Items(buffer) \cap OnTheWay(sent) = {}
  BY DEF RumInv, Split
<1>3. /\ sent' \in Seq(Seq(Nat)) /\ Batches(sent')
      /\ OnTheWay(sent') = OnTheWay(sent) \cup Items(buffer)
  BY <1>1, <1>2, AnotherBatch DEF RumInv, Flush
<1>4. Split(1 .. captured, {}, Items(ring), lost, OnTheWay(sent) \cup Items(buffer))
  BY SplitMoves DEF RumInv
<1>5. buffer' = <<>> /\ 0 <= ClientBuffer
  BY Limits DEF Flush
<1> QED BY <1>3, <1>4, <1>5, NoItems DEF RumInv

\* A batch is lost or refused.
LEMMA BatchLost ==
    ASSUME RumInv, NEW n \in DOMAIN sent, lost' = lost \cup Items(sent[n]),
           sent' = Without(sent, n), recent' \in 0 .. RequestsPerWindow,
           UNCHANGED <<running, captured, buffer, ring>>
    PROVE  RumInv'
<1>1. /\ sent' \in Seq(Seq(Nat)) /\ Batches(sent')
      /\ OnTheWay(sent') = OnTheWay(sent) \ Items(sent[n])
      /\ Items(sent[n]) \subseteq OnTheWay(sent)
  BY WithoutBatch DEF RumInv
<1>2. Split(1 .. captured, Items(buffer), Items(ring), lost \cup Items(sent[n]),
            OnTheWay(sent) \ Items(sent[n]))
  BY <1>1, SplitMoves DEF RumInv
<1> QED BY <1>1, <1>2 DEF RumInv

\* The API records a batch and trims its ring.
LEMMA BatchRecorded ==
    ASSUME RumInv, NEW n \in DOMAIN sent, Accepted(n)
    PROVE  RumInv'
<1>1. /\ sent' \in Seq(Seq(Nat)) /\ Batches(sent')
      /\ OnTheWay(sent') = OnTheWay(sent) \ Items(sent[n])
      /\ Items(sent[n]) \subseteq OnTheWay(sent)
      /\ sent[n] \in Seq(Nat) /\ AllDiffer(sent[n])
  BY WithoutBatch DEF RumInv, Accepted
<1>2. PICK next : next = ring \o sent[n]
  OBVIOUS
<1>3. Items(ring) \cap Items(sent[n]) = {}
  BY <1>1 DEF RumInv, Split
<1>4. /\ next \in Seq(Nat) /\ AllDiffer(next)
      /\ Items(next) = Items(ring) \cup Items(sent[n])
  BY <1>1, <1>2, <1>3, JoinedItems DEF RumInv
<1>5. PICK kept : kept = Newest(next, RingSize)
  OBVIOUS
<1>6. /\ ring' = kept /\ lost' = lost \cup Dropped(next, RingSize)
      /\ recent' = recent + 1 /\ UNCHANGED <<running, captured, buffer>>
  BY <1>2, <1>5 DEF Accepted, Trimmed
<1>7. /\ kept \in Seq(Nat) /\ AllDiffer(kept) /\ Len(kept) <= RingSize
      /\ Items(next) = Items(kept) \cup Dropped(next, RingSize)
      /\ Items(kept) \cap Dropped(next, RingSize) = {}
  BY <1>4, <1>5, NewestKept, TrimmedItems, Limits
<1>8. recent' \in 0 .. RequestsPerWindow
  BY <1>6, Limits DEF RumInv, Accepted, Limited
<1>9. Split(1 .. captured', Items(buffer'), Items(kept), lost', OnTheWay(sent'))
  <2>1. PICK N, a, b, c, d, e, k, x :
           /\ N = 1 .. captured /\ a = Items(buffer) /\ b = Items(ring)
           /\ c = lost /\ d = OnTheWay(sent) /\ e = Items(sent[n])
           /\ k = Items(kept) /\ x = Dropped(next, RingSize)
    OBVIOUS
  <2>2. Split(N, a, b, c, d) /\ e \subseteq d /\ b \cup e = k \cup x /\ k \cap x = {}
    BY <1>1, <1>4, <1>7, <2>1 DEF RumInv
  <2>3. Split(N, a, k, c \cup x, d \ e)
    BY <2>2 DEF Split
  <2> QED BY <1>1, <1>6, <2>1, <2>3
<1> QED BY <1>1, <1>6, <1>7, <1>8, <1>9 DEF RumInv

\* Every step keeps the invariant.
LEMMA RumKept ==
    ASSUME RumInv, RumNext
    PROVE  RumInv'
<1>1. CASE InitRum
  BY <1>1 DEF RumInv, InitRum
<1>2. CASE AddMetric
  BY <1>2, Added
<1>3. CASE FlushBuffer
  BY <1>3, Flushed DEF FlushBuffer, RumInv
<1>4. CASE DestroyRum
  <2>1. CASE buffer = <<>>
    BY <1>4, <2>1 DEF DestroyRum, RumInv
  <2>2. CASE buffer # <<>>
    BY <1>4, <2>2, Flushed DEF DestroyRum
  <2> QED BY <2>1, <2>2
<1>5. ASSUME NEW n \in DOMAIN sent, Vanishes(n) PROVE RumInv'
  <2>1. recent' \in 0 .. RequestsPerWindow
    BY <1>5 DEF Vanishes, RumInv
  <2> QED BY <1>5, <2>1, BatchLost DEF Vanishes
<1>6. ASSUME NEW n \in DOMAIN sent, Refused(n) PROVE RumInv'
  <2>1. recent' \in 0 .. RequestsPerWindow
    BY <1>6, Limits DEF Refused, RumInv, Limited
  <2> QED BY <1>6, <2>1, BatchLost DEF Refused
<1>7. ASSUME NEW n \in DOMAIN sent, Accepted(n) PROVE RumInv'
  BY <1>7, BatchRecorded
<1>8. CASE WindowMoves
  <2>1. recent' \in 0 .. RequestsPerWindow
    BY <1>8, Limits DEF WindowMoves, RumInv
  <2> QED BY <1>8, <2>1 DEF RumInv, WindowMoves
<1> QED
  BY <1>1, <1>2, <1>3, <1>4, <1>5, <1>6, <1>7, <1>8 DEF RumNext

\* The parts of a split are as large as the whole.
LEMMA SplitCounted ==
    ASSUME NEW n \in Nat, NEW a, NEW b, NEW c, NEW d, Split(1 .. n, a, b, c, d)
    PROVE  Cardinality(a) + Cardinality(b) + Cardinality(c) + Cardinality(d) = n
<1>1. IsFiniteSet(1 .. n) /\ Cardinality(1 .. n) = n
  <2>1. /\ IsFiniteSet(1 .. n)
        /\ Cardinality(1 .. n) = IF 1 > n THEN 0 ELSE n - 1 + 1
    <3>1. 1 \in Int /\ n \in Int
      OBVIOUS
    <3> QED BY ONLY <3>1, FS_Interval
  <2> QED BY <2>1
<1>2. PICK N : N = 1 .. n
  OBVIOUS
<1>3. /\ a \in SUBSET N /\ b \in SUBSET N /\ c \in SUBSET N /\ d \in SUBSET N
      /\ N = a \cup b \cup c \cup d
  BY <1>2 DEF Split
<1>4. IsFiniteSet(a) /\ IsFiniteSet(b) /\ IsFiniteSet(c) /\ IsFiniteSet(d)
  BY <1>1, <1>2, <1>3, FS_Subset
<1>5. /\ Cardinality(a) \in Nat /\ Cardinality(b) \in Nat
      /\ Cardinality(c) \in Nat /\ Cardinality(d) \in Nat
  BY <1>4, FS_CardinalityType
<1>6. ASSUME NEW x, NEW y, IsFiniteSet(x), IsFiniteSet(y), x \cap y = {}
      PROVE  /\ IsFiniteSet(x \cup y)
             /\ Cardinality(x \cup y) = Cardinality(x) + Cardinality(y) - 0
  <2>1. Cardinality(x \cap y) = 0
    BY <1>6, FS_EmptySet
  <2>2. /\ IsFiniteSet(x \cup y)
        /\ Cardinality(x \cup y) = Cardinality(x) + Cardinality(y) - Cardinality(x \cap y)
    BY ONLY <1>6, FS_Union
  <2> QED BY <2>1, <2>2
<1>7. /\ IsFiniteSet(a \cup b)
      /\ Cardinality(a \cup b) = Cardinality(a) + Cardinality(b) - 0
  BY <1>4, <1>6 DEF Split
<1>8. (a \cup b) \cap c = {} /\ ((a \cup b) \cup c) \cap d = {}
  BY DEF Split
<1>9. /\ IsFiniteSet((a \cup b) \cup c)
      /\ Cardinality((a \cup b) \cup c) = Cardinality(a \cup b) + Cardinality(c) - 0
  BY <1>4, <1>6, <1>7, <1>8
<1>10. Cardinality(((a \cup b) \cup c) \cup d)
          = Cardinality((a \cup b) \cup c) + Cardinality(d) - 0
  BY <1>4, <1>6, <1>8, <1>9
<1>11. Cardinality(((a \cup b) \cup c) \cup d) = n
  BY <1>1, <1>2, <1>3
<1> QED BY <1>5, <1>7, <1>9, <1>10, <1>11

\* The invariant says where each metric is.
LEMMA MetricsCounted ==
    ASSUME RumInv
    PROVE  MetricsAreSound
<1>0. PICK n \in Nat : n = captured
  BY DEF RumInv
<1>1. PICK a, b, c, d :
         /\ a = Items(buffer) /\ b = Items(ring)
         /\ c = lost /\ d = OnTheWay(sent)
  OBVIOUS
<1>2. Split(1 .. n, a, b, c, d)
  BY <1>0, <1>1 DEF RumInv
<1>3. Cardinality(a) + Cardinality(b) + Cardinality(c) + Cardinality(d) = n
  BY <1>2, SplitCounted
<1>4. Cardinality(a) = Len(buffer) /\ Cardinality(b) = Len(ring)
  BY <1>1, CountedItems DEF RumInv
<1>5. d = UNION {Items(sent[m]) : m \in DOMAIN sent}
  BY <1>1 DEF OnTheWay
<1>6. 1 .. captured = Items(buffer) \cup Items(ring) \cup lost \cup d
  BY <1>0, <1>1, <1>2 DEF Split
<1>7. EachMetricOnce
  BY <1>0, <1>1, <1>3, <1>4, <1>5, <1>6 DEF EachMetricOnce
<1>8. RumTypeOK
  BY DEF RumInv, RumTypeOK, Batches
<1> QED BY <1>7, <1>8 DEF MetricsAreSound

\* Every metric that was captured is in one place: waiting in the client, on
\* its way, in the ring of the API or known to be lost; it is never recorded
\* twice, and the buffers keep their sizes (rum.ts, rum-routes.ts).
THEOREM MetricsCorrect == Spec => []MetricsAreSound
<1>1. Init => RumInv
  BY RumStart DEF Init
<1>2. ASSUME RumInv, [Next]_clientVars PROVE RumInv'
  <2>1. CASE RumNext
    BY <1>2, <2>1, RumKept
  <2>2. CASE UNCHANGED rumVars
    BY <1>2, <2>2 DEF RumInv, rumVars
  <2>3. RumNext \/ UNCHANGED rumVars
    BY <1>2 DEF Next, InterviewStep, ToastsStep, ReorderStep, PagesStep,
       RumStep, clientVars
  <2> QED BY <2>1, <2>2, <2>3
<1>3. RumInv => MetricsAreSound
  BY MetricsCounted
<1> QED BY <1>1, <1>2, <1>3, PTL DEF Spec

-----------------------------------------------------------------------------
(***************************************************************************)
(* The toasts.                                                             *)
(***************************************************************************)
ToastsInv ==
    /\ shown \in Seq(Toasts) /\ AllDiffer(shown) /\ Len(shown) <= MaxVisible
    /\ exiting \subseteq Toasts /\ timers \subseteq Toasts
    /\ leaving \subseteq Toasts /\ staying \subseteq Toasts
    /\ clearing \in BOOLEAN
    /\ NoToastIsStuck

\* What is shown when id comes: some of the first of the list, and what falls
\* off its end.
LEMMA NewestToast ==
    ASSUME ToastsInv, NEW id \in Toasts, id \notin Shown
    PROVE  LET next == <<id>> \o shown
               cut  == Cut(next)
           IN /\ cut \in Seq(Toasts) /\ AllDiffer(cut) /\ Len(cut) <= MaxVisible
              /\ Items(cut) \subseteq Shown \cup {id}
              /\ timers \cap Items(cut) \subseteq TimersAfter(next)
              /\ TimersAfter(next) \subseteq timers
<1> DEFINE next == <<id>> \o shown
<1>1. PICK n \in Nat : n = Len(shown) /\ DOMAIN shown = 1 .. n
  BY LenProperties DEF ToastsInv
<1>2. PICK x : x = next
  OBVIOUS
<1>3. /\ <<id>> \in Seq(Toasts) /\ Len(<<id>>) = 1 /\ <<id>>[1] = id
  OBVIOUS
<1>4. /\ x \in Seq(Toasts) /\ Len(x) = n + 1 /\ DOMAIN x = 1 .. n + 1
      /\ \A i \in 1 .. n + 1 : /\ i = 1 => x[i] = id
                               /\ i > 1 => i - 1 \in 1 .. n /\ x[i] = shown[i - 1]
  <2>1. /\ x \in Seq(Toasts) /\ Len(x) = 1 + n
        /\ \A i \in 1 .. 1 + n : x[i] = IF i <= 1 THEN <<id>>[i]
                                        ELSE shown[i - 1]
    BY <1>1, <1>2, <1>3, ConcatProperties DEF ToastsInv
  <2>2. Len(x) = n + 1 /\ DOMAIN x = 1 .. n + 1
    BY <2>1, LenProperties
  <2> QED BY <1>3, <2>1, <2>2
<1>5. AllDiffer(x)
  <2> SUFFICES ASSUME NEW i \in 1 .. n + 1, NEW j \in 1 .. n + 1, x[i] = x[j]
               PROVE  i = j
    BY <1>4 DEF AllDiffer
  <2>1. \A k \in 1 .. n + 1 : k > 1 => k - 1 \in DOMAIN shown /\ x[k] = shown[k - 1]
    BY <1>1, <1>4
  <2>2. \A k \in 1 .. n + 1 : k > 1 => x[k] # id
    BY <2>1 DEF Shown
  <2>3. CASE i > 1 /\ j > 1
    <3>1. i - 1 = j - 1
      BY <2>1, <2>3 DEF AllDiffer, ToastsInv
    <3> QED BY <3>1
  <2>4. CASE ~(i > 1 /\ j > 1)
    BY <1>4, <2>2, <2>4
  <2> QED BY <2>3, <2>4
<1>6. PICK m \in Nat : m = (IF n + 1 > MaxVisible THEN MaxVisible ELSE n + 1)
  BY SomeAreVisible DEF SomeAreVisible
<1>7. PICK c : c = Cut(x)
  OBVIOUS
<1>8. m <= n + 1 /\ m <= MaxVisible
  BY <1>6, SomeAreVisible DEF SomeAreVisible
<1>9. /\ c \in Seq(Toasts) /\ Len(c) = m /\ DOMAIN c = 1 .. m
      /\ \A i \in 1 .. m : c[i] = x[i]
  <2>1. c = SubSeq(x, 1, m)
    BY <1>4, <1>6, <1>7 DEF Cut
  <2>2. 1 \in Int /\ m \in Int /\ \A i \in 1 .. m : x[i] \in Toasts
    BY <1>4, <1>8, ElementOfSeq
  <2>3. /\ c \in Seq(Toasts)
        /\ Len(c) = IF 1 <= m THEN m - 1 + 1 ELSE 0
        /\ \A i \in 1 .. m - 1 + 1 : c[i] = x[1 + i - 1]
    BY ONLY <2>1, <2>2, SubSeqProperties
  <2>4. Len(c) = m
    BY <2>3
  <2> QED BY <2>3, <2>4, LenProperties
<1>10. AllDiffer(c)
  BY <1>4, <1>5, <1>8, <1>9 DEF AllDiffer
<1>11. ASSUME NEW y \in Items(c) PROVE y \in Shown \cup {id}
  <2>1. PICK i \in 1 .. n + 1 : y = x[i]
    BY <1>8, <1>9, <1>11 DEF Items
  <2>2. i = 1 \/ i > 1
    OBVIOUS
  <2> QED BY <1>1, <1>4, <2>1, <2>2 DEF Shown
<1>12. TimersAfter(x) \subseteq timers
  BY DEF TimersAfter
<1>13. ASSUME NEW y \in timers \cap Items(c) PROVE y \in TimersAfter(x)
  <2>1. PICK i \in 1 .. m : y = x[i]
    BY <1>9, <1>13 DEF Items
  <2>2. \A k \in DOMAIN x \ (1 .. MaxVisible) : x[k] # y
    <3> SUFFICES ASSUME NEW k \in DOMAIN x \ (1 .. MaxVisible), x[k] = x[i]
                 PROVE  FALSE
      BY <2>1
    <3>1. i \in DOMAIN x /\ k = i
      <4>1. i \in DOMAIN x
        BY <1>4, <1>8
      <4> QED BY <1>5, <4>1 DEF AllDiffer
    <3> QED BY <1>8, <3>1, SomeAreVisible DEF SomeAreVisible
  <2> QED BY <1>13, <2>2 DEF TimersAfter
<1> QED
  BY <1>2, <1>7, <1>8, <1>9, <1>10, <1>11, <1>12, <1>13

\* notify: the oldest toasts over the limit go, and a timer starts.
LEMMA Notified ==
    ASSUME ToastsInv, NEW id \in Toasts, NEW goes \in BOOLEAN, Notify(id, goes)
    PROVE  ToastsInv'
<1>1. PICK next : next = <<id>> \o shown
  OBVIOUS
<1>2. id \notin Shown /\ id \notin timers /\ id \notin leaving
  BY DEF Notify, Fresh
<1>3. /\ shown' = Cut(next)
      /\ timers' = TimersAfter(next) \cup (IF goes THEN {id} ELSE {})
      /\ staying' = IF goes THEN staying \ {id} ELSE staying \cup {id}
      /\ exiting' = exiting \ {id} /\ leaving' = leaving /\ clearing' = clearing
  BY <1>1 DEF Notify
<1>4. /\ Cut(next) \in Seq(Toasts) /\ AllDiffer(Cut(next))
      /\ Len(Cut(next)) <= MaxVisible
      /\ Items(Cut(next)) \subseteq Shown \cup {id}
      /\ timers \cap Items(Cut(next)) \subseteq TimersAfter(next)
      /\ TimersAfter(next) \subseteq timers
  BY <1>1, <1>2, NewestToast
<1>5. /\ timers' \subseteq Toasts /\ staying' \subseteq Toasts
      /\ exiting' \subseteq Toasts /\ leaving' \subseteq Toasts
      /\ clearing' \in BOOLEAN
  BY <1>3, <1>4 DEF ToastsInv
<1>6. Shown' = Items(Cut(next))
  BY <1>3 DEF Shown, Items
<1>7. ASSUME NEW y \in Shown' \ staying' PROVE y \in timers' \cup exiting'
  <2>1. CASE y = id
    BY <1>3, <1>7, <2>1
  <2>2. CASE y # id
    <3>1. y \in Shown \ staying /\ y \in Items(Cut(next))
      BY <1>3, <1>4, <1>6, <1>7, <2>2
    <3> QED BY <1>3, <1>4, <2>2, <3>1 DEF ToastsInv, NoToastIsStuck
  <2> QED BY <2>1, <2>2
<1>8. ASSUME NEW y \in Shown' \cap exiting' PROVE y \in leaving' \/ clearing'
  <2>1. y \in Shown \cap exiting
    BY <1>3, <1>4, <1>6, <1>8
  <2> QED BY <1>3, <2>1 DEF ToastsInv, NoToastIsStuck
<1>9. NoToastIsStuck'
  BY <1>7, <1>8 DEF NoToastIsStuck
<1> QED BY <1>3, <1>4, <1>5, <1>9 DEF ToastsInv

\* A toast starts to leave, by its timer or by the user.
LEMMA Left ==
    ASSUME ToastsInv, NEW id \in Toasts, Leaves(id)
    PROVE  ToastsInv'
<1>1. PICK A : A = {n \in DOMAIN shown : shown[n] \notin {id}}
  OBVIOUS
<1>2. /\ shown' = Picked(shown, A) /\ leaving' = leaving \ {id}
      /\ UNCHANGED <<exiting, timers, clearing, staying>>
  BY <1>1 DEF Leaves, WithoutAll
<1>3. PICK t : t = Picked(shown, A)
  OBVIOUS
<1>4. A \in SUBSET (DOMAIN shown) /\ shown \in Seq(Toasts)
  BY <1>1 DEF ToastsInv
<1>5. /\ t \in Seq(Toasts) /\ Len(t) <= Len(shown)
      /\ \A k \in DOMAIN t : \E i \in A : t[k] = shown[i]
  BY <1>3, <1>4, PickedSeq
<1>6. Len(t) <= MaxVisible
  BY <1>4, <1>5, SomeAreVisible, LenProperties DEF ToastsInv, SomeAreVisible
<1>7. AllDiffer(t)
  <2> SUFFICES ASSUME NEW k \in DOMAIN t, NEW l \in DOMAIN t, t[k] = t[l]
               PROVE  k = l
    BY DEF AllDiffer
  <2>1. PICK i, j \in A : /\ t[k] = shown[i] /\ t[l] = shown[j]
                          /\ k < l => i < j
                          /\ l < k => j < i
    BY <1>3, <1>4, PickedOrder
  <2>2. i = j
    BY <1>4, <2>1 DEF AllDiffer, ToastsInv
  <2>3. k \in Nat /\ l \in Nat /\ i \in Nat
    BY <1>4, <1>5, LenProperties
  <2> QED BY <2>1, <2>2, <2>3
<1>8. \A y \in Shown' : y \in Shown /\ y # id
  BY <1>1, <1>2, <1>3, <1>5 DEF Shown
<1>9. NoToastIsStuck'
  BY <1>2, <1>8 DEF NoToastIsStuck, ToastsInv
<1> QED BY <1>2, <1>3, <1>5, <1>6, <1>7, <1>9 DEF ToastsInv

\* Every step keeps the invariant.
LEMMA ToastsKept ==
    ASSUME ToastsInv, ToastsNext
    PROVE  ToastsInv'
<1>1. ASSUME NEW id \in Toasts, NEW goes \in BOOLEAN, Notify(id, goes)
      PROVE  ToastsInv'
  BY <1>1, Notified
<1>2. ASSUME NEW id \in Toasts, Dismiss(id) PROVE ToastsInv'
  <2>1. Shown' = Shown
    BY <1>2 DEF Dismiss, Shown
  <2>2. NoToastIsStuck'
    BY <1>2, <2>1 DEF Dismiss, ToastsInv, NoToastIsStuck
  <2> QED BY <1>2, <2>2 DEF Dismiss, ToastsInv
<1>3. ASSUME NEW id \in Toasts, Leaves(id) PROVE ToastsInv'
  BY <1>3, Left
<1>4. CASE dismissAll
  <2>1. Shown' = Shown /\ Shown \subseteq Toasts
    BY <1>4, ElementOfSeq DEF dismissAll, Shown, ToastsInv
  <2>2. NoToastIsStuck'
    BY <1>4, <2>1 DEF dismissAll, ToastsInv, NoToastIsStuck
  <2> QED BY <1>4, <2>1, <2>2 DEF dismissAll, ToastsInv
<1>5. CASE ClearAll
  <2>1. Shown' = {} /\ shown' \in Seq(Toasts) /\ AllDiffer(shown')
    BY <1>5, EmptySeq DEF ClearAll, Shown, AllDiffer
  <2>2. Len(shown') <= MaxVisible
    BY <1>5, EmptySeq, SomeAreVisible DEF ClearAll, SomeAreVisible
  <2> QED BY <1>5, <2>1, <2>2 DEF ClearAll, ToastsInv, NoToastIsStuck
<1> QED BY <1>1, <1>2, <1>3, <1>4, <1>5 DEF ToastsNext

\* At most MaxVisible toasts are shown, each once; one that is not to stay has
\* a timer or is on its way out, and one on its way out has a removal ahead of
\* it, whatever was evicted, dismissed or cleared before (useNotifications.ts).
THEOREM ToastsCorrect == Spec => []ToastsAreSound
<1>1. Init => ToastsInv
  <2> SUFFICES ASSUME Init PROVE ToastsInv
    OBVIOUS
  <2>1. /\ shown = <<>> /\ exiting = {} /\ timers = {} /\ leaving = {}
        /\ clearing = FALSE /\ staying = {}
    BY DEF Init, ToastsInit
  <2>2. shown \in Seq(Toasts) /\ AllDiffer(shown) /\ Len(shown) = 0 /\ Shown = {}
    BY <2>1, EmptySeq DEF AllDiffer, Shown
  <2>3. Len(shown) <= MaxVisible
    BY <2>2, SomeAreVisible DEF SomeAreVisible
  <2> QED BY <2>1, <2>2, <2>3 DEF ToastsInv, NoToastIsStuck
<1>2. ASSUME ToastsInv, [Next]_clientVars PROVE ToastsInv'
  <2>1. CASE ToastsNext
    BY <1>2, <2>1, ToastsKept
  <2>2. CASE UNCHANGED toastVars
    <3>1. Shown' = Shown
      BY <2>2 DEF toastVars, Shown
    <3> QED BY <1>2, <2>2, <3>1 DEF ToastsInv, NoToastIsStuck, toastVars
  <2>3. ToastsNext \/ UNCHANGED toastVars
    BY <1>2 DEF Next, InterviewStep, ToastsStep, ReorderStep, PagesStep,
       RumStep, clientVars
  <2> QED BY <2>1, <2>2, <2>3
<1>3. ToastsInv => ToastsAreSound
  <2> SUFFICES ASSUME ToastsInv PROVE ToastsAreSound
    OBVIOUS
  <2>1. Shown = Items(shown)
    BY DEF Shown, Items
  <2>2. Len(shown) = Cardinality(Shown)
    BY <2>1, CountedItems DEF ToastsInv
  <2> QED BY <2>2 DEF ToastsInv, ToastsAreSound, ToastsTypeOK
<1> QED BY <1>1, <1>2, <1>3, PTL DEF Spec

-----------------------------------------------------------------------------
(***************************************************************************)
(* The order of clauses.  To move a clause is to take the element at one   *)
(* place to another; h says where the other elements go.                   *)
(***************************************************************************)
Rearranges(h, t, s, n, from, to) ==
    /\ \A i \in (1 .. n) \ {from} : h[i] \in (1 .. n) \ {to} /\ t[h[i]] = s[i]
    /\ \A i, j \in (1 .. n) \ {from} : i < j => h[i] < h[j]
    /\ \A l \in (1 .. n) \ {to} : \E i \in (1 .. n) \ {from} : h[i] = l

Shifts(t, s, n, from, to) ==
    /\ DOMAIN t = 1 .. n /\ t[to] = s[from]
    /\ \E h : Rearranges(h, t, s, n, from, to)

\* The others keep their order among each other.
LEMMA ShiftKeeps ==
    ASSUME NEW n \in Nat, NEW s, DOMAIN s = 1 .. n, AllDiffer(s), NEW t,
           NEW from \in 1 .. n, NEW to \in 1 .. n, Shifts(t, s, n, from, to)
    PROVE  /\ AllDiffer(t) /\ Items(t) = Items(s)
           /\ \A a, b \in Items(s) \ {s[from]} : Before(s, a, b) = Before(t, a, b)
<1>1. DOMAIN t = 1 .. n /\ t[to] = s[from]
  BY DEF Shifts
<1>2. PICK h : Rearranges(h, t, s, n, from, to)
  BY DEF Shifts
<1>3. \A i \in (1 .. n) \ {from} : h[i] \in 1 .. n /\ h[i] # to /\ t[h[i]] = s[i]
  BY <1>2 DEF Rearranges
<1>4. \A i, j \in (1 .. n) \ {from} : i < j => h[i] < h[j]
  BY <1>2 DEF Rearranges
<1>5. \A l \in (1 .. n) \ {to} : \E i \in (1 .. n) \ {from} : h[i] = l
  BY <1>2 DEF Rearranges
<1>6. \A l \in 1 .. n : \E i \in 1 .. n : /\ t[l] = s[i] /\ (l = to <=> i = from)
                                          /\ i # from => l = h[i]
  <2> SUFFICES ASSUME NEW l \in 1 .. n
               PROVE  \E i \in 1 .. n : /\ t[l] = s[i] /\ (l = to <=> i = from)
                                        /\ i # from => l = h[i]
    OBVIOUS
  <2>1. CASE l = to
    BY <1>1, <2>1
  <2>2. CASE l # to
    <3>1. PICK i \in (1 .. n) \ {from} : h[i] = l
      BY <1>5, <2>2
    <3> QED BY <1>3, <2>2, <3>1
  <2> QED BY <2>1, <2>2
<1>7. AllDiffer(t)
  <2> SUFFICES ASSUME NEW k \in 1 .. n, NEW l \in 1 .. n, t[k] = t[l]
               PROVE  k = l
    BY <1>1 DEF AllDiffer
  <2>1. PICK i \in 1 .. n : /\ t[k] = s[i] /\ (k = to <=> i = from)
                            /\ i # from => k = h[i]
    BY <1>6
  <2>2. PICK j \in 1 .. n : /\ t[l] = s[j] /\ (l = to <=> j = from)
                            /\ j # from => l = h[j]
    BY <1>6
  <2>3. i = j
    BY <2>1, <2>2 DEF AllDiffer
  <2> QED BY <2>1, <2>2, <2>3
<1>8. Items(t) = Items(s)
  <2>1. ASSUME NEW x \in Items(t) PROVE x \in Items(s)
    <3>1. PICK l \in 1 .. n : x = t[l]
      BY <1>1, <2>1 DEF Items
    <3>2. PICK i \in 1 .. n : t[l] = s[i]
      BY <1>6
    <3> QED BY <3>1, <3>2 DEF Items
  <2>2. ASSUME NEW x \in Items(s) PROVE x \in Items(t)
    <3>1. PICK i \in 1 .. n : x = s[i]
      BY <2>2 DEF Items
    <3>2. CASE i = from
      BY <1>1, <3>1, <3>2 DEF Items
    <3>3. CASE i # from
      <4>1. h[i] \in DOMAIN t /\ t[h[i]] = x
        BY <1>1, <1>3, <3>1, <3>3
      <4> QED BY <4>1 DEF Items
    <3> QED BY <3>2, <3>3
  <2> QED BY <2>1, <2>2
<1>9. ASSUME NEW a \in Items(s) \ {s[from]}, NEW b \in Items(s) \ {s[from]}
      PROVE  Before(s, a, b) = Before(t, a, b)
  <2>1. ASSUME Before(s, a, b) PROVE Before(t, a, b)
    <3>1. PICK i, j \in 1 .. n : i < j /\ s[i] = a /\ s[j] = b
      BY <2>1 DEF Before
    <3>2. i # from /\ j # from
      BY <3>1
    <3>3. /\ h[i] \in DOMAIN t /\ h[j] \in DOMAIN t
          /\ h[i] < h[j] /\ t[h[i]] = a /\ t[h[j]] = b
      BY <1>1, <1>3, <1>4, <3>1, <3>2
    <3> QED BY <3>3 DEF Before
  <2>2. ASSUME Before(t, a, b) PROVE Before(s, a, b)
    <3>1. PICK k, l \in 1 .. n : k < l /\ t[k] = a /\ t[l] = b
      BY <1>1, <2>2 DEF Before
    <3>2. PICK i \in 1 .. n : t[k] = s[i] /\ (i # from => k = h[i])
      BY <1>6
    <3>3. PICK j \in 1 .. n : t[l] = s[j] /\ (j # from => l = h[j])
      BY <1>6
    <3>4. i # from /\ j # from /\ k = h[i] /\ l = h[j]
      BY <3>1, <3>2, <3>3
    <3>5. i # j /\ ~(j < i)
      BY <1>4, <3>1, <3>4
    <3>6. i < j
      BY <3>5
    <3> QED BY <3>1, <3>2, <3>3, <3>6 DEF Before
  <2> QED BY <2>1, <2>2 DEF Before
<1> QED BY <1>7, <1>8, <1>9

\* One element is put in.
Gains(u, s, k, to, x) ==
    /\ DOMAIN u = 1 .. k + 1
    /\ \A i \in 1 .. k + 1 : /\ i < to => u[i] = s[i]
                             /\ i = to => u[i] = x
                             /\ i > to => u[i] = s[i - 1]

Inserted(s, k, to, x) == SubSeq(s, 1, to - 1) \o <<x>> \o SubSeq(s, to, k)

\* The second splice of handleDrop puts one clause in.
LEMMA InsertedOne ==
    ASSUME NEW T, NEW s \in Seq(T), NEW k \in Nat, k = Len(s),
           NEW to \in 1 .. k + 1, NEW x \in T
    PROVE  /\ Inserted(s, k, to, x) \in Seq(T)
           /\ Gains(Inserted(s, k, to, x), s, k, to, x)
<1>0. PICK u : u = Inserted(s, k, to, x)
  OBVIOUS
<1>1. \A i \in 1 .. k : s[i] \in T
  BY ElementOfSeq, LenProperties
<1>2. PICK a, b, c : /\ a = SubSeq(s, 1, to - 1) /\ b = SubSeq(s, to, k)
                     /\ c = a \o <<x>>
  OBVIOUS
<1>3. /\ a \in Seq(T) /\ Len(a) = to - 1
      /\ \A i \in 1 .. to - 1 : a[i] = s[i]
  <2>1. PICK m \in Nat : m = to - 1
    OBVIOUS
  <2>2. 1 \in Int /\ m \in Int /\ a = SubSeq(s, 1, m) /\ \A i \in 1 .. m : s[i] \in T
    BY <1>1, <1>2, <2>1
  <2>3. /\ a \in Seq(T)
        /\ Len(a) = IF 1 <= m THEN m - 1 + 1 ELSE 0
        /\ \A i \in 1 .. m - 1 + 1 : a[i] = s[1 + i - 1]
    BY ONLY <2>2, SubSeqProperties
  <2>4. Len(a) = m /\ \A i \in 1 .. m : a[i] = s[i]
    BY <2>3
  <2> QED BY <2>1, <2>3, <2>4
<1>4. /\ b \in Seq(T) /\ Len(b) = k - to + 1
      /\ \A i \in 1 .. k - to + 1 : b[i] = s[to + i - 1]
  <2>1. /\ to \in Int /\ k \in Int /\ b = SubSeq(s, to, k)
        /\ \A i \in to .. k : s[i] \in T
    BY <1>1, <1>2
  <2>2. /\ b \in Seq(T)
        /\ Len(b) = IF to <= k THEN k - to + 1 ELSE 0
        /\ \A i \in 1 .. k - to + 1 : b[i] = s[to + i - 1]
    BY ONLY <2>1, SubSeqProperties
  <2>3. to <= k \/ k - to + 1 = 0
    OBVIOUS
  <2> QED BY <2>2, <2>3
<1>5. <<x>> \in Seq(T) /\ Len(<<x>>) = 1 /\ <<x>>[1] = x
  OBVIOUS
<1>6. /\ c \in Seq(T) /\ Len(c) = to
      /\ \A i \in 1 .. to : /\ i < to => c[i] = s[i]
                            /\ i = to => c[i] = x
  <2>1. /\ c \in Seq(T) /\ Len(c) = Len(a) + 1
        /\ \A i \in 1 .. Len(a) + 1 :
              c[i] = IF i <= Len(a) THEN a[i] ELSE <<x>>[i - Len(a)]
    BY <1>2, <1>3, <1>5, ConcatProperties
  <2>2. Len(a) + 1 = to
    BY <1>3
  <2>3. \A i \in 1 .. to : i < to => i <= Len(a) /\ i \in 1 .. to - 1
    BY <1>3
  <2>4. ~(to <= Len(a)) /\ to - Len(a) = 1 /\ to \in 1 .. to
    BY <1>3
  <2>5. c[to] = x
    BY <1>5, <2>1, <2>2, <2>4
  <2> QED BY <1>3, <2>1, <2>2, <2>3, <2>5
<1>7. u = c \o b
  BY <1>0, <1>2 DEF Inserted
<1>8. /\ u \in Seq(T) /\ Len(u) = k + 1 /\ DOMAIN u = 1 .. k + 1
      /\ \A i \in 1 .. k + 1 : /\ i <= to => u[i] = c[i]
                               /\ i > to => u[i] = b[i - to]
  <2>1. /\ u \in Seq(T) /\ Len(u) = Len(c) + Len(b)
        /\ \A i \in 1 .. Len(c) + Len(b) :
              u[i] = IF i <= Len(c) THEN c[i] ELSE b[i - Len(c)]
    <3>1. c \in Seq(T) /\ b \in Seq(T) /\ u = c \o b
      BY <1>4, <1>6, <1>7
    <3> QED BY ONLY <3>1, ConcatProperties
  <2>2. Len(c) = to /\ Len(c) + Len(b) = k + 1
    BY <1>4, <1>6
  <2>3. Len(u) = k + 1 /\ DOMAIN u = 1 .. k + 1
    BY <2>1, <2>2, LenProperties
  <2>4. \A i \in 1 .. k + 1 : u[i] = IF i <= to THEN c[i] ELSE b[i - to]
    BY <2>1, <2>2
  <2>5. \A i \in 1 .. k + 1 : i > to => ~(i <= to)
    OBVIOUS
  <2> QED BY <2>1, <2>3, <2>4, <2>5
<1>9. ASSUME NEW i \in 1 .. k + 1
      PROVE  /\ i < to => u[i] = s[i]
             /\ i = to => u[i] = x
             /\ i > to => u[i] = s[i - 1]
  <2>0. i <= to => i \in 1 .. to
    OBVIOUS
  <2>1. i < to => u[i] = s[i]
    <3>1. i < to => i <= to
      OBVIOUS
    <3> QED BY <1>6, <1>8, <2>0, <3>1
  <2>2. i = to => u[i] = x
    <3>1. i = to => i <= to
      OBVIOUS
    <3> QED BY <1>6, <1>8, <2>0, <3>1
  <2>3. ASSUME i > to PROVE u[i] = s[i - 1]
    <3>1. i - to \in 1 .. k - to + 1 /\ to + (i - to) - 1 = i - 1
      BY <2>3
    <3>2. b[i - to] = s[to + (i - to) - 1]
      BY <1>4, <3>1
    <3> QED BY <1>8, <2>3, <3>1, <3>2
  <2> QED BY <2>1, <2>2, <2>3
<1> QED BY <1>0, <1>8, <1>9 DEF Gains

\* Taking an element out and putting it in again moves it; by keys it changes
\* places with a neighbour.
LEMMA SplicedShifts ==
    ASSUME NEW T, NEW s \in Seq(T), NEW n \in Nat, n = Len(s),
           NEW from \in 1 .. n, NEW to \in 1 .. n
    PROVE  /\ Spliced(s, from, to) \in Seq(T)
           /\ Shifts(Spliced(s, from, to), s, n, from, to)
<1>1. PICK rest : rest = Without(s, from)
  OBVIOUS
<1>2. rest \in Seq(T) /\ Lacks(rest, s, n, from)
  BY <1>1, WithoutOne
<1>3. PICK k \in Nat : k = n - 1
  OBVIOUS
<1>4. DOMAIN rest = 1 .. k
  BY <1>2, <1>3 DEF Lacks
<1>5. k = Len(rest)
  BY <1>2, <1>3, <1>4, LenProperties
<1>6. s[from] \in T
  BY ElementOfSeq, LenProperties
<1>7. PICK u : u = Spliced(s, from, to)
  OBVIOUS
<1>8. u = SubSeq(rest, 1, to - 1) \o <<s[from]>> \o SubSeq(rest, to, k)
  BY <1>1, <1>5, <1>7 DEF Spliced, Without
<1>9. to \in 1 .. k + 1
  BY <1>3
<1>10. u \in Seq(T) /\ Gains(u, rest, k, to, s[from])
  <2>1. PICK x \in T : x = s[from]
    BY <1>6
  <2>2. u = Inserted(rest, k, to, x)
    BY <1>8, <2>1 DEF Inserted
  <2>3. /\ Inserted(rest, k, to, x) \in Seq(T)
        /\ Gains(Inserted(rest, k, to, x), rest, k, to, x)
    BY <1>2, <1>5, <1>9, InsertedOne
  <2> QED BY <2>1, <2>2, <2>3
<1>11. /\ DOMAIN u = 1 .. n /\ u[to] = s[from]
       /\ \A i \in 1 .. n : /\ i < to => u[i] = rest[i]
                            /\ i > to => u[i] = rest[i - 1]
  <2>1. k + 1 = n
    BY <1>3
  <2> QED BY <1>9, <1>10, <2>1 DEF Gains
<1>12. \A i \in 1 .. n - 1 : /\ i < from => rest[i] = s[i]
                             /\ i >= from => rest[i] = s[i + 1]
  BY <1>2 DEF Lacks
<1> DEFINE Left1(i) == IF i < from THEN i ELSE i - 1
           h == [i \in (1 .. n) \ {from} |->
                    IF Left1(i) < to THEN Left1(i) ELSE Left1(i) + 1]
<1>13. ASSUME NEW i \in (1 .. n) \ {from}
       PROVE  h[i] \in (1 .. n) \ {to} /\ u[h[i]] = s[i]
  <2>1. PICK l \in 1 .. n - 1 : l = Left1(i)
    OBVIOUS
  <2>2. rest[l] = s[i]
    <3>1. CASE i < from
      BY <1>12, <2>1, <3>1
    <3>2. CASE i > from
      <4>1. l >= from /\ l + 1 = i
        BY <2>1, <3>2
      <4>2. rest[l] = s[l + 1]
        BY <1>12, <4>1
      <4> QED BY <4>1, <4>2
    <3> QED BY <3>1, <3>2
  <2>3. CASE l < to
    <3>1. h[i] = l
      BY <2>1, <2>3
    <3> QED BY <1>11, <2>2, <2>3, <3>1
  <2>4. CASE l >= to
    <3>1. h[i] = l + 1 /\ l + 1 \in 1 .. n /\ l + 1 > to /\ (l + 1) - 1 = l
      BY <2>1, <2>4
    <3>2. u[l + 1] = rest[(l + 1) - 1]
      BY <1>11, <3>1
    <3> QED BY <2>2, <3>1, <3>2
  <2> QED BY <2>3, <2>4
<1>14. \A i, j \in (1 .. n) \ {from} : i < j => h[i] < h[j]
  OBVIOUS
<1>15. ASSUME NEW l \in (1 .. n) \ {to}
       PROVE  \E i \in (1 .. n) \ {from} : h[i] = l
  <2>1. PICK m \in Nat : m = (IF l < to THEN l ELSE l - 1)
    OBVIOUS
  <2>2. m \in 1 .. n - 1 /\ (IF m < to THEN m ELSE m + 1) = l
    BY <2>1
  <2>3. CASE m < from
    <3>1. m \in (1 .. n) \ {from} /\ Left1(m) = m
      BY <2>2, <2>3
    <3> QED BY <2>2, <3>1
  <2>4. CASE m >= from
    <3>1. m + 1 \in (1 .. n) \ {from} /\ Left1(m + 1) = m
      BY <2>2, <2>4
    <3> QED BY <2>2, <3>1
  <2> QED BY <2>1, <2>3, <2>4
<1> HIDE DEF h
<1>16. Rearranges(h, u, s, n, from, to)
  BY <1>13, <1>14, <1>15 DEF Rearranges
<1> QED BY <1>7, <1>10, <1>11, <1>16 DEF Shifts

\* An exchange of neighbours is a move by one place.
LEMMA ExchangedShifts ==
    ASSUME NEW T, NEW s \in Seq(T), NEW n \in Nat, n = Len(s),
           NEW from \in 1 .. n, NEW to \in 1 .. n, to = from - 1 \/ to = from + 1
    PROVE  /\ Exchanged(s, from, to) \in Seq(T)
           /\ Shifts(Exchanged(s, from, to), s, n, from, to)
<1>1. DOMAIN s = 1 .. n /\ s \in [1 .. n -> T]
  BY LenProperties, SeqDef
<1>2. PICK u : u = Exchanged(s, from, to)
  OBVIOUS
<1>3. /\ u \in [1 .. n -> T] /\ u[to] = s[from] /\ u[from] = s[to]
      /\ \A i \in (1 .. n) \ {from, to} : u[i] = s[i]
  BY <1>1, <1>2 DEF Exchanged
<1>4. u \in Seq(T)
  BY <1>3, SeqDef
<1>5. PICK h : h = [i \in (1 .. n) \ {from} |-> IF i = to THEN from ELSE i]
  OBVIOUS
<1>6. \A i \in (1 .. n) \ {from} : h[i] \in (1 .. n) \ {to} /\ u[h[i]] = s[i]
  BY <1>3, <1>5
<1>7. \A i, j \in (1 .. n) \ {from} : i < j => h[i] < h[j]
  BY <1>5
<1>8. ASSUME NEW l \in (1 .. n) \ {to}
      PROVE  \E i \in (1 .. n) \ {from} : h[i] = l
  <2>1. CASE l = from
    <3>1. to \in (1 .. n) \ {from} /\ h[to] = from
      BY <1>5
    <3> QED BY <2>1, <3>1
  <2>2. CASE l # from
    <3>1. l \in (1 .. n) \ {from} /\ h[l] = l
      BY <1>5, <2>2
    <3> QED BY <3>1
  <2> QED BY <2>1, <2>2
<1>9. Rearranges(h, u, s, n, from, to)
  BY <1>6, <1>7, <1>8 DEF Rearranges
<1>10. DOMAIN u = 1 .. n
  BY <1>3
<1> QED BY <1>2, <1>3, <1>4, <1>9, <1>10 DEF Shifts

\* Every section keeps its clauses, each once; what is dragged or hovered is
\* one of its section's clauses, and what is focused one of its places.
ReorderInv ==
    /\ DOMAIN order = DOMAIN Sections /\ reported = order
    /\ \A s \in DOMAIN Sections :
          /\ order[s] \in Seq(Items(Sections[s])) /\ AllDiffer(order[s])
          /\ Items(order[s]) = Items(Sections[s])
    /\ drag = NoSlot => over = NoSlot
    /\ drag # NoSlot => /\ drag.section \in DOMAIN Sections
                        /\ drag.clause \in Items(order[drag.section]) \ Required
                        /\ over \in Items(order[drag.section]) \cup {NoSlot}
    /\ focus # NoSlot => /\ focus \in [section : DOMAIN Sections, index : Nat]
                         /\ focus.index \in DOMAIN order[focus.section]

\* What one step does to the sections.
OneMoved ==
    \A s \in DOMAIN Sections : order'[s] # order[s] =>
        \E moved \in Clauses(s) \ Required :
            \A a, b \in Clauses(s) \ {moved} :
                Before(order[s], a, b) = Before(order'[s], a, b)

\* The clauses of a section are the elements of its list.
LEMMA ClausesAreItems == \A s : Clauses(s) = Items(order[s])
BY DEF Clauses, Items, Indices

\* A clause that is not required is moved within its section.
LEMMA ClauseMoved ==
    ASSUME ReorderInv, NEW s \in DOMAIN Sections, NEW n \in Nat,
           n = Len(order[s]), NEW from \in 1 .. n, NEW to \in 1 .. n,
           order[s][from] \notin Required,
           NEW next \in Seq(Items(Sections[s])),
           Shifts(next, order[s], n, from, to), applyNewOrder(s, next)
    PROVE  /\ OneMoved
           /\ DOMAIN order' = DOMAIN Sections /\ reported' = order'
           /\ \A r \in DOMAIN Sections :
                 /\ order'[r] \in Seq(Items(Sections[r])) /\ AllDiffer(order'[r])
                 /\ Items(order'[r]) = Items(Sections[r])
           /\ \A r \in DOMAIN Sections : Items(order'[r]) = Items(order[r])
           /\ DOMAIN order'[s] = 1 .. n
           /\ \A r \in DOMAIN Sections : r # s => order'[r] = order[r]
<1>1. DOMAIN order[s] = 1 .. n
  BY LenProperties DEF ReorderInv
<1>2. PICK old : old = order[s]
  OBVIOUS
<1>3. /\ AllDiffer(next) /\ Items(next) = Items(old)
      /\ \A a, b \in Items(old) \ {old[from]} : Before(old, a, b) = Before(next, a, b)
  BY <1>1, <1>2, ShiftKeeps DEF ReorderInv
<1>4. /\ DOMAIN order' = DOMAIN order /\ order'[s] = next
      /\ \A r \in DOMAIN Sections : r # s => order'[r] = order[r]
  BY DEF applyNewOrder, ReorderInv
<1>5. reported' = order'
  BY DEF applyNewOrder, ReorderInv
<1>6. \A r \in DOMAIN Sections :
         /\ order'[r] \in Seq(Items(Sections[r])) /\ AllDiffer(order'[r])
         /\ Items(order'[r]) = Items(Sections[r])
  BY <1>2, <1>3, <1>4 DEF ReorderInv
<1>7. \A r \in DOMAIN Sections : Items(order'[r]) = Items(order[r])
  BY <1>6 DEF ReorderInv
<1>8. OneMoved
  <2> SUFFICES ASSUME NEW r \in DOMAIN Sections, order'[r] # order[r]
               PROVE  \E moved \in Clauses(r) \ Required :
                         \A a, b \in Clauses(r) \ {moved} :
                            Before(order[r], a, b) = Before(order'[r], a, b)
    BY DEF OneMoved
  <2>1. r = s /\ Clauses(s) = Items(old)
    BY <1>2, <1>4, ClausesAreItems
  <2>2. old[from] \in Items(old) \ Required
    BY <1>1, <1>2 DEF Items
  <2> QED BY <1>2, <1>3, <1>4, <2>1, <2>2
<1>9. DOMAIN order'[s] = 1 .. n
  BY <1>4 DEF Shifts
<1> QED BY <1>4, <1>5, <1>6, <1>7, <1>8, <1>9 DEF ReorderInv

\* An unchanged order is one in which one clause moved, to where it was.
LEMMA SameOrder ==
    ASSUME ReorderInv, UNCHANGED <<order, reported>>
    PROVE  /\ OneMoved
           /\ DOMAIN order' = DOMAIN Sections /\ reported' = order'
           /\ \A r \in DOMAIN Sections :
                 /\ order'[r] \in Seq(Items(Sections[r])) /\ AllDiffer(order'[r])
                 /\ Items(order'[r]) = Items(Sections[r])
           /\ \A r : order'[r] = order[r]
BY DEF ReorderInv, OneMoved

\* handleDrop.
LEMMA Dropped1 ==
    ASSUME ReorderInv, NEW s \in DOMAIN Sections, Drop(s)
    PROVE  ReorderInv' /\ OneMoved
<1>1. /\ drag # NoSlot /\ drag.section = s /\ over # NoSlot
      /\ drag' = NoSlot /\ over' = NoSlot /\ focus' = focus
  BY DEF Drop, resetDragState
<1>2. CASE over = drag.clause
  <2>1. UNCHANGED <<order, reported>>
    BY <1>2 DEF Drop
  <2> QED BY <1>1, <2>1, SameOrder DEF ReorderInv
<1>3. CASE over # drag.clause
  <2>1. PICK a, b : a = drag.clause /\ b = over
    OBVIOUS
  <2>2. a \in Clauses(s) \ Required /\ b \in Clauses(s)
    BY <1>1, <2>1, ClausesAreItems DEF ReorderInv
  <2>3. PICK from, to : from = IndexOf(s, a) /\ to = IndexOf(s, b)
    OBVIOUS
  <2>4. PICK n \in Nat : n = Len(order[s]) /\ DOMAIN order[s] = 1 .. n
    BY LenProperties DEF ReorderInv
  <2>5. /\ from \in 1 .. n /\ order[s][from] = a
        /\ to \in 1 .. n
    <3>1. \A c \in Clauses(s) : \E i \in Indices(s) : order[s][i] = c
      BY DEF Clauses
    <3>2. \A c \in Clauses(s) : /\ IndexOf(s, c) \in Indices(s)
                                /\ order[s][IndexOf(s, c)] = c
      BY <3>1 DEF IndexOf
    <3> QED BY <2>2, <2>3, <2>4, <3>2 DEF Indices
  <2>6. applyNewOrder(s, Spliced(order[s], from, to))
    BY <1>3, <2>1, <2>3 DEF Drop
  <2>7. PICK next, T : next = Spliced(order[s], from, to) /\ T = Items(Sections[s])
    OBVIOUS
  <2>8. order[s] \in Seq(T)
    BY <2>7 DEF ReorderInv
  <2>9. next \in Seq(T) /\ Shifts(next, order[s], n, from, to)
    BY <2>4, <2>5, <2>7, <2>8, SplicedShifts
  <2>10. /\ next \in Seq(Items(Sections[s])) /\ applyNewOrder(s, next)
         /\ order[s][from] \notin Required
    BY <2>2, <2>5, <2>6, <2>7, <2>9
  <2>11. /\ OneMoved /\ DOMAIN order' = DOMAIN Sections /\ reported' = order'
         /\ \A r \in DOMAIN Sections :
               /\ order'[r] \in Seq(Items(Sections[r])) /\ AllDiffer(order'[r])
               /\ Items(order'[r]) = Items(Sections[r])
         /\ DOMAIN order'[s] = 1 .. n
         /\ \A r \in DOMAIN Sections : r # s => order'[r] = order[r]
    BY <2>4, <2>5, <2>9, <2>10, ClauseMoved
  <2>12. \A r \in DOMAIN Sections : DOMAIN order'[r] = DOMAIN order[r]
    BY <2>4, <2>11
  <2>13. focus' # NoSlot => /\ focus' \in [section : DOMAIN Sections, index : Nat]
                            /\ focus'.index \in DOMAIN order'[focus'.section]
    BY <1>1, <2>12 DEF ReorderInv
  <2> QED BY <1>1, <2>11, <2>13 DEF ReorderInv
<1> QED BY <1>2, <1>3

\* The keys exchange a clause with its neighbour.
LEMMA MovedByKey ==
    ASSUME ReorderInv, MoveByKey
    PROVE  ReorderInv' /\ OneMoved
<1>1. PICK s, n : s = focus.section /\ n = focus.index
  OBVIOUS
<1>2. PICK m \in Neighbours(s, n) :
         /\ order[s][n] \notin Required
         /\ applyNewOrder(s, Exchanged(order[s], n, m))
         /\ focus' = [focus EXCEPT !.index = m]
         /\ drag' = drag /\ over' = over
  BY <1>1 DEF MoveByKey, isDraggable
<1>3. /\ focus # NoSlot /\ focus \in [section : DOMAIN Sections, index : Nat]
      /\ s \in DOMAIN Sections /\ n \in Nat /\ n \in Indices(s)
  BY <1>1 DEF MoveByKey, ReorderInv, Indices
<1>4. PICK k \in Nat : k = Len(order[s]) /\ DOMAIN order[s] = 1 .. k
  BY <1>3, LenProperties DEF ReorderInv
<1>5. n \in 1 .. k /\ m \in 1 .. k /\ (m = n - 1 \/ m = n + 1)
  BY <1>2, <1>3, <1>4 DEF Neighbours, Indices
<1>6. PICK next, T : next = Exchanged(order[s], n, m) /\ T = Items(Sections[s])
  OBVIOUS
<1>7. order[s] \in Seq(T)
  BY <1>3, <1>6 DEF ReorderInv
<1>8. next \in Seq(T) /\ Shifts(next, order[s], k, n, m)
  BY <1>4, <1>5, <1>6, <1>7, ExchangedShifts
<1>9. next \in Seq(Items(Sections[s])) /\ applyNewOrder(s, next)
  BY <1>2, <1>6, <1>8
<1>10. /\ OneMoved /\ DOMAIN order' = DOMAIN Sections /\ reported' = order'
       /\ \A r \in DOMAIN Sections :
             /\ order'[r] \in Seq(Items(Sections[r])) /\ AllDiffer(order'[r])
             /\ Items(order'[r]) = Items(Sections[r])
       /\ \A r \in DOMAIN Sections : Items(order'[r]) = Items(order[r])
       /\ DOMAIN order'[s] = 1 .. k
  BY <1>2, <1>3, <1>4, <1>5, <1>8, <1>9, ClauseMoved
<1>11. /\ focus' \in [section : DOMAIN Sections, index : Nat]
       /\ focus'.section = s /\ focus'.index = m
  BY <1>1, <1>2, <1>3, <1>5
<1>12. focus'.index \in DOMAIN order'[focus'.section]
  BY <1>5, <1>10, <1>11
<1>13. drag' # NoSlot => /\ drag'.section \in DOMAIN Sections
                         /\ drag'.clause \in Items(order'[drag'.section]) \ Required
                         /\ over' \in Items(order'[drag'.section]) \cup {NoSlot}
  BY <1>2, <1>10 DEF ReorderInv
<1>14. drag' = NoSlot => over' = NoSlot
  BY <1>2 DEF ReorderInv
<1> QED BY <1>10, <1>11, <1>12, <1>13, <1>14 DEF ReorderInv

\* Every step keeps the invariant and moves one clause.
LEMMA ReorderKept ==
    ASSUME ReorderInv, ReorderNext
    PROVE  ReorderInv' /\ OneMoved
<1>1. ASSUME NEW s \in DOMAIN Sections, DragStart(s)
      PROVE  ReorderInv' /\ OneMoved
  <2>1. PICK clause \in Clauses(s) :
           clause \notin Required /\ drag' = [section |-> s, clause |-> clause]
    BY <1>1 DEF DragStart, isDraggable
  <2>2. /\ drag = NoSlot /\ UNCHANGED <<order, over, focus, reported>>
        /\ over' = NoSlot
    BY <1>1 DEF DragStart, ReorderInv
  <2>3. drag'.section = s /\ drag'.clause = clause
    BY <2>1
  <2>4. /\ drag'.section \in DOMAIN Sections
        /\ drag'.clause \in Items(order'[drag'.section]) \ Required
    BY <2>1, <2>2, <2>3, ClausesAreItems
  <2>5. focus' # NoSlot => /\ focus' \in [section : DOMAIN Sections, index : Nat]
                           /\ focus'.index \in DOMAIN order'[focus'.section]
    BY <2>2, SameOrder DEF ReorderInv
  <2> QED BY <2>2, <2>4, <2>5, SameOrder DEF ReorderInv
<1>2. ASSUME NEW s \in DOMAIN Sections, DragOver(s)
      PROVE  ReorderInv' /\ OneMoved
  <2>1. /\ drag # NoSlot /\ drag.section = s /\ over' \in Clauses(s) \cup {NoSlot}
        /\ UNCHANGED <<order, drag, focus, reported>>
    BY <1>2 DEF DragOver
  <2>2. focus' # NoSlot => /\ focus' \in [section : DOMAIN Sections, index : Nat]
                           /\ focus'.index \in DOMAIN order'[focus'.section]
    BY <2>1, SameOrder DEF ReorderInv
  <2>3. /\ drag'.section \in DOMAIN Sections
        /\ drag'.clause \in Items(order'[drag'.section]) \ Required
        /\ over' \in Items(order'[drag'.section]) \cup {NoSlot}
    BY <2>1, SameOrder, ClausesAreItems DEF ReorderInv
  <2> QED BY <2>1, <2>2, <2>3, SameOrder DEF ReorderInv
<1>3. ASSUME NEW s \in DOMAIN Sections, Drop(s)
      PROVE  ReorderInv' /\ OneMoved
  BY <1>3, Dropped1
<1>4. ASSUME NEW s \in DOMAIN Sections, Focus(s)
      PROVE  ReorderInv' /\ OneMoved
  <2>1. PICK n \in Indices(s) : focus' = [section |-> s, index |-> n]
    BY <1>4 DEF Focus
  <2>2. UNCHANGED <<order, drag, over, reported>>
    BY <1>4 DEF Focus
  <2>3. n \in Nat
    BY LenProperties DEF Indices, ReorderInv
  <2>4. focus' \in [section : DOMAIN Sections, index : Nat] /\ focus'.index = n
        /\ focus'.section = s
    BY <2>1, <2>3
  <2>5. focus'.index \in DOMAIN order'[focus'.section]
    BY <2>2, <2>4, SameOrder DEF Indices
  <2>6. drag' # NoSlot => /\ drag'.section \in DOMAIN Sections
                          /\ drag'.clause \in Items(order'[drag'.section]) \ Required
                          /\ over' \in Items(order'[drag'.section]) \cup {NoSlot}
    BY <2>2, SameOrder DEF ReorderInv
  <2>7. drag' = NoSlot => over' = NoSlot
    BY <2>2 DEF ReorderInv
  <2> QED BY <2>2, <2>4, <2>5, <2>6, <2>7, SameOrder DEF ReorderInv
<1>5. CASE DragEnd
  <2>1. /\ drag' = NoSlot /\ over' = NoSlot
        /\ UNCHANGED <<order, focus, reported>>
    BY <1>5 DEF DragEnd, resetDragState
  <2>2. focus' # NoSlot => /\ focus' \in [section : DOMAIN Sections, index : Nat]
                           /\ focus'.index \in DOMAIN order'[focus'.section]
    BY <2>1, SameOrder DEF ReorderInv
  <2> QED BY <2>1, <2>2, SameOrder DEF ReorderInv
<1>6. CASE MoveByKey
  BY <1>6, MovedByKey
<1>7. CASE FocusByKey
  <2>1. PICK m \in Neighbours(focus.section, focus.index) :
           focus' = [focus EXCEPT !.index = m]
    BY <1>7 DEF FocusByKey
  <2>2. UNCHANGED <<order, drag, over, reported>> /\ focus # NoSlot
    BY <1>7 DEF FocusByKey
  <2>3. focus \in [section : DOMAIN Sections, index : Nat]
    BY <2>2 DEF ReorderInv
  <2>4. m \in Indices(focus.section)
    BY DEF Neighbours
  <2>5. m \in Nat
    BY <2>3, <2>4, LenProperties DEF Indices, ReorderInv
  <2>6. /\ focus' \in [section : DOMAIN Sections, index : Nat]
        /\ focus'.index = m /\ focus'.section = focus.section
    BY <2>1, <2>3, <2>5
  <2>7. focus'.index \in DOMAIN order'[focus'.section]
    BY <2>2, <2>4, <2>6, SameOrder DEF Indices
  <2>8. drag' # NoSlot => /\ drag'.section \in DOMAIN Sections
                          /\ drag'.clause \in Items(order'[drag'.section]) \ Required
                          /\ over' \in Items(order'[drag'.section]) \cup {NoSlot}
    BY <2>2, SameOrder DEF ReorderInv
  <2>9. drag' = NoSlot => over' = NoSlot
    BY <2>2 DEF ReorderInv
  <2> QED BY <2>2, <2>6, <2>7, <2>8, <2>9, SameOrder DEF ReorderInv
<1> QED
  BY <1>1, <1>2, <1>3, <1>4, <1>5, <1>6, <1>7 DEF ReorderNext

\* The invariant implies the types.
LEMMA ReorderTyped ==
    ASSUME ReorderInv
    PROVE  ReorderTypeOK
<1>1. ASSUME NEW s \in DOMAIN Sections
      PROVE  /\ Len(order[s]) = Len(Sections[s])
             /\ Clauses(s) = {Sections[s][n] : n \in DOMAIN Sections[s]}
  <2>1. PICK T : T = Items(Sections[s])
    OBVIOUS
  <2>2. /\ order[s] \in Seq(T) /\ AllDiffer(order[s]) /\ Items(order[s]) = T
    BY <2>1 DEF ReorderInv
  <2>3. Sections[s] \in Seq(T) /\ AllDiffer(Sections[s])
    BY <2>1, ClausesAreDistinct DEF ClausesAreDistinct, Items, AllDiffer
  <2>4. Cardinality(T) = Len(order[s]) /\ Cardinality(T) = Len(Sections[s])
    BY <2>1, <2>2, <2>3, CountedItems
  <2>5. Clauses(s) = T
    BY <2>2, ClausesAreItems
  <2> QED BY <2>1, <2>4, <2>5 DEF Items
<1>2. focus # NoSlot => /\ focus.section \in DOMAIN Sections
                        /\ focus.index \in Indices(focus.section)
  BY DEF ReorderInv, Indices
<1>3. drag # NoSlot => /\ drag.section \in DOMAIN Sections
                       /\ drag.clause \in Clauses(drag.section) \ Required
  BY ClausesAreItems DEF ReorderInv
<1> QED BY <1>1, <1>2, <1>3 DEF ReorderInv, ReorderTypeOK

\* A move takes one clause, never one of a required slot, to another place of
\* its section; all the others keep their order, every section keeps its
\* clauses, and the owner of the panel knows the order that is shown
\* (handleDrop with its two splices, and the exchange by keys).
THEOREM ReorderCorrect == Spec => OneClauseMoves
<1>1. Init => ReorderInv
  <2> SUFFICES ASSUME Init PROVE ReorderInv
    OBVIOUS
  <2>1. /\ order = Sections /\ drag = NoSlot /\ over = NoSlot /\ focus = NoSlot
        /\ reported = Sections
    BY DEF Init, ReorderInit
  <2>2. \A s \in DOMAIN Sections : /\ Sections[s] \in Seq(Items(Sections[s]))
                                   /\ AllDiffer(Sections[s])
    BY ClausesAreDistinct DEF ClausesAreDistinct, Items, AllDiffer
  <2> QED BY <2>1, <2>2 DEF ReorderInv
<1>2. ASSUME ReorderInv, [Next]_clientVars
      PROVE  ReorderInv' /\ (OneMoved \/ UNCHANGED reorderVars)
  <2>1. CASE ReorderNext
    BY <1>2, <2>1, ReorderKept
  <2>2. CASE UNCHANGED reorderVars
    <3>1. UNCHANGED <<order, drag, over, focus, reported>>
      BY <2>2 DEF reorderVars
    <3>2. /\ drag' = NoSlot => over' = NoSlot
          /\ drag' # NoSlot => /\ drag'.section \in DOMAIN Sections
                               /\ drag'.clause \in Items(order'[drag'.section]) \ Required
                               /\ over' \in Items(order'[drag'.section]) \cup {NoSlot}
          /\ focus' # NoSlot => /\ focus' \in [section : DOMAIN Sections, index : Nat]
                                /\ focus'.index \in DOMAIN order'[focus'.section]
      BY <1>2, <3>1, SameOrder DEF ReorderInv
    <3> QED BY <1>2, <2>2, <3>1, <3>2, SameOrder DEF ReorderInv
  <2>3. ReorderNext \/ UNCHANGED reorderVars
    BY <1>2 DEF Next, InterviewStep, ToastsStep, ReorderStep, PagesStep,
       RumStep, clientVars
  <2> QED BY <2>1, <2>2, <2>3
<1>3. ReorderInv => ReorderTypeOK
  BY ReorderTyped
<1>4. ReorderInv /\ [Next]_clientVars => [OneMoved]_reorderVars
  BY <1>2
<1>5. ReorderInv /\ [Next]_clientVars => ReorderInv'
  BY <1>2
<1>6. Spec => [][ReorderTypeOK' /\ OneMoved]_reorderVars
  BY <1>1, <1>3, <1>4, <1>5, PTL DEF Spec
<1> QED BY <1>6, PTL DEF OneClauseMoves, OneMoved

-----------------------------------------------------------------------------
(***************************************************************************)
(* The interview.  As long as the last PATCH was sent alone and arrived,   *)
(* at most one save is in flight, and unless the auto-save is scheduled it *)
(* carries what the page shows.                                            *)
(***************************************************************************)
SavesAreCurrent ==
    /\ ~doubtful => \A s, t \in Saves : s = t
    /\ ~timer /\ ~doubtful => \A s \in Saves : request[s].body = answers

InterviewInv ==
    InterviewTypeOK /\ NothingUnsaved /\ SavesAreCurrent /\ QuestionIsShown

-----------------------------------------------------------------------------
\* What is shown depends on the answers to earlier questions only.
Positions(a) == {n \in DOMAIN Questions : evaluateConditions(Questions[n], a)}

\* The visible questions are those whose conditions hold, in the order of
\* the flow.
LEMMA VisibleAre ==
    ASSUME NEW a
    PROVE  /\ Visible(a) \in Seq(FlowKeys)
           /\ DOMAIN Visible(a) = 1 .. Cardinality(Positions(a))
           /\ Visible(a) # <<>> => 1 \in DOMAIN Visible(a)
           /\ \A k \in DOMAIN Visible(a) :
                 \E i \in Positions(a) :
                    Place(Positions(a), i) = k /\ Visible(a)[k] = Questions[i]
<1>1. Questions \in Seq(FlowKeys)
  BY KeysAreDistinct DEF KeysAreDistinct
<1>2. PICK n \in Nat : n = Len(Questions) /\ DOMAIN Questions = 1 .. n
  BY <1>1, LenProperties
<1>3. PICK P : P = Positions(a)
  OBVIOUS
<1>4. P \in SUBSET (1 .. n) /\ P \in SUBSET (DOMAIN Questions)
  BY <1>2, <1>3 DEF Positions
<1>5. PICK c : c = Cardinality(P)
  OBVIOUS
<1>6. Visible(a) = Picked(Questions, P)
  BY <1>3 DEF Visible, Positions
<1>7. Visible(a) \in Seq(FlowKeys) /\ Len(Visible(a)) = c /\ c \in Nat
  BY <1>1, <1>4, <1>5, <1>6, PickedSeq
<1>8. DOMAIN Visible(a) = 1 .. c
  BY <1>7, LenProperties
<1>9. Visible(a) # <<>> => 1 \in 1 .. c
  <2>1. ASSUME c = 0 PROVE Visible(a) = <<>>
    BY <1>7, <2>1, EmptySeq
  <2> QED BY <1>7, <2>1
<1>10. ASSUME NEW k \in 1 .. c
       PROVE  \E i \in P : Place(P, i) = k /\ Visible(a)[k] = Questions[i]
  <2>1. \E i \in P : Place(P, i) = k
    BY <1>4, <1>5, Places
  <2>2. PICK i : i = (CHOOSE j \in P : Place(P, j) = k)
    OBVIOUS
  <2>3. i \in P /\ Place(P, i) = k
    BY <2>1, <2>2
  <2>4. Visible(a)[k] = Questions[i]
    BY <1>5, <1>6, <2>2 DEF Picked
  <2> QED BY <2>3, <2>4
<1> QED BY <1>3, <1>5, <1>7, <1>8, <1>9, <1>10

\* Each question has one position.
LEMMA PositionOfQuestion ==
    ASSUME NEW n \in DOMAIN Questions
    PROVE  /\ Questions[n] \in FlowKeys /\ Position(Questions[n]) = n
           /\ n \in Nat
<1>1. Questions[n] \in FlowKeys
  BY DEF FlowKeys
<1>2. Position(Questions[n]) = n
  BY KeysAreDistinct DEF KeysAreDistinct, Position
<1>3. n \in Nat
  BY LenProperties, KeysAreDistinct DEF KeysAreDistinct
<1> QED BY <1>1, <1>2, <1>3

\* An answer to the question that is shown leaves it and those before it.
LEMMA StillShown ==
    ASSUME NEW a \in Answers, NEW k \in DOMAIN Visible(a), NEW value,
           NEW b, b = [a EXCEPT ![Visible(a)[k]] = value]
    PROVE  k \in DOMAIN Visible(b)
<1>1. PICK i \in Positions(a) :
         Place(Positions(a), i) = k /\ Visible(a)[k] = Questions[i]
  BY VisibleAre
<1>2. i \in DOMAIN Questions
  BY DEF Positions
<1>3. \A key \in FlowKeys : Position(key) < i => b[key] = a[key]
  <2>1. a \in [FlowKeys -> (UNION {ValuesOf[key] : key \in FlowKeys}) \cup {NoAnswer}]
    BY DEF Answers
  <2>2. \A key \in FlowKeys : key # Questions[i] => b[key] = a[key]
    BY <1>1, <2>1
  <2>3. Position(Questions[i]) = i /\ i \in Nat
    BY <1>2, PositionOfQuestion
  <2> QED BY <2>2, <2>3
<1>4. ASSUME NEW j \in DOMAIN Questions, j <= i
      PROVE  j \in Positions(a) <=> j \in Positions(b)
  <2>1. /\ Questions[j] \in FlowKeys /\ Position(Questions[j]) = j
        /\ j \in Nat /\ i \in Nat
    BY <1>2, PositionOfQuestion
  <2>2. ASSUME NEW cond \in Conditions[Questions[j]]
        PROVE  Holds(cond, a) <=> Holds(cond, b)
    <3>1. /\ cond.operator \in {"equals", "not_equals", "is_truthy"}
          /\ cond.key \in FlowKeys
          /\ Position(cond.key) < Position(Questions[j])
      BY <2>1, ConditionsLookBack DEF ConditionsLookBack
    <3>2. PICK n \in DOMAIN Questions : cond.key = Questions[n]
      BY <3>1 DEF FlowKeys
    <3>3. Position(cond.key) \in Nat
      BY <3>2, PositionOfQuestion
    <3>4. Position(cond.key) < i
      BY <1>4, <2>1, <3>1, <3>3
    <3>5. b[cond.key] = a[cond.key]
      BY <1>3, <3>1, <3>4
    <3> QED BY <3>1, <3>5 DEF Holds
  <2> QED BY <2>2 DEF Positions, evaluateConditions
<1>5. PICK P, Q : P = Positions(a) /\ Q = Positions(b)
  OBVIOUS
<1>6. \A j \in P \cup Q : j \in DOMAIN Questions
  BY <1>5 DEF Positions
<1>7. {j \in Q : j <= i} = {j \in P : j <= i}
  BY <1>4, <1>5, <1>6
<1>8. Place(Q, i) = k
  BY <1>1, <1>5, <1>7 DEF Place
<1>9. i \in Q
  <2>1. i <= i
    BY <1>2, PositionOfQuestion
  <2> QED BY <1>2, <1>4, <1>5, <2>1
<1>10. k \in 1 .. Cardinality(Q)
  <2>1. PICK n \in Nat : DOMAIN Questions = 1 .. n
    BY LenProperties, KeysAreDistinct DEF KeysAreDistinct
  <2>2. Q \in SUBSET (1 .. n)
    BY <1>5, <2>1 DEF Positions
  <2> QED BY <1>8, <1>9, <2>2, Places
<1> QED BY <1>5, <1>10, VisibleAre

-----------------------------------------------------------------------------
\* Answering and merging give answers again.
LEMMA AnswersKnown ==
    /\ Unanswered \in Answers
    /\ \A a \in Answers, key \in FlowKeys : \A value \in ValuesOf[key] :
          [a EXCEPT ![key] = value] \in Answers
    /\ \A a, b \in Answers : Merge(a, b) \in Answers
<1> DEFINE Values == (UNION {ValuesOf[key] : key \in FlowKeys}) \cup {NoAnswer}
<1>1. Unanswered \in Answers
  <2>1. Unanswered \in [FlowKeys -> Values]
    BY DEF Unanswered
  <2>2. \A q \in FlowKeys : Unanswered[q] = NoAnswer
    BY DEF Unanswered
  <2> QED BY <2>1, <2>2 DEF Answers
<1>2. ASSUME NEW a \in Answers, NEW key \in FlowKeys, NEW value \in ValuesOf[key]
      PROVE  [a EXCEPT ![key] = value] \in Answers
  <2>1. a \in [FlowKeys -> Values]
        /\ \A q \in FlowKeys : a[q] \in ValuesOf[q] \cup {NoAnswer}
    BY DEF Answers
  <2>2. value \in Values
    OBVIOUS
  <2>3. PICK b : b = [a EXCEPT ![key] = value]
    OBVIOUS
  <2>4. b \in [FlowKeys -> Values]
    BY <2>1, <2>2, <2>3
  <2>5. \A q \in FlowKeys : b[q] \in ValuesOf[q] \cup {NoAnswer}
    BY <2>1, <2>3
  <2> QED BY <2>3, <2>4, <2>5 DEF Answers
<1>3. ASSUME NEW a \in Answers, NEW b \in Answers PROVE Merge(a, b) \in Answers
  <2>1. /\ a \in [FlowKeys -> Values] /\ b \in [FlowKeys -> Values]
        /\ \A q \in FlowKeys : /\ a[q] \in ValuesOf[q] \cup {NoAnswer}
                               /\ b[q] \in ValuesOf[q] \cup {NoAnswer}
    BY DEF Answers
  <2>2. PICK m : m = Merge(a, b)
    OBVIOUS
  <2>3. /\ m \in [FlowKeys -> Values]
        /\ \A q \in FlowKeys : m[q] = a[q] \/ m[q] = b[q]
    BY <2>1, <2>2 DEF Merge
  <2>4. \A q \in FlowKeys : m[q] \in ValuesOf[q] \cup {NoAnswer}
    BY <2>1, <2>3
  <2> QED BY <2>2, <2>3, <2>4 DEF Answers
<1> QED BY <1>1, <1>2, <1>3

\* What the requests in flight carry.
LEMMA RequestTypes ==
    ASSUME InterviewTypeOK
    PROVE  /\ \A s \in Saves : s \in Slots /\ request[s].body \in Answers
           /\ NoRequest \in Requests /\ NoRequest.kind = "none"
           /\ \A kind \in {"save", "complete.patch"}, body \in Answers :
                 [kind |-> kind, body |-> body] \in Requests
           /\ [kind |-> "complete.validate"] \in Requests
           /\ [kind |-> "complete.complete"] \in Requests
<1>1. ASSUME NEW s \in Saves PROVE s \in Slots /\ request[s].body \in Answers
  <2>1. s \in Slots /\ request[s].kind \in {"save", "complete.patch"}
    BY DEF Saves
  <2>2. request[s] \in Requests
    BY <2>1 DEF InterviewTypeOK
  <2>3. request[s] \in [kind : {"save", "complete.patch"}, body : Answers]
    BY <2>1, <2>2 DEF Requests, NoRequest
  <2> QED BY <2>1, <2>3
<1> QED BY <1>1 DEF Requests, NoRequest

\* A request that is not one of PATCH takes the place of another.
LEMMA Became ==
    ASSUME InterviewTypeOK, NEW s \in Slots, NEW r \in Requests,
           r.kind \notin {"save", "complete.patch"}, Becomes(s, r)
    PROVE  /\ request' \in [Slots -> Requests] /\ Saves' = Saves \ {s}
           /\ \A t \in Slots : t # s => request'[t] = request[t]
<1>1. /\ request' \in [Slots -> Requests] /\ request'[s] = r
      /\ \A t \in Slots : t # s => request'[t] = request[t]
  BY DEF Becomes, InterviewTypeOK
<1>2. Saves' = {t \in Slots : request'[t].kind \in {"save", "complete.patch"}}
  BY DEF Saves
<1>3. \A t : t \in Saves' <=> t \in Saves \ {s}
  BY <1>1, <1>2 DEF Saves
<1> QED BY <1>1, <1>3

\* A PATCH is sent with what the page shows.
LEMMA Sent ==
    ASSUME InterviewInv, NEW s \in Slots,
           NEW kind \in {"save", "complete.patch"}, Send(s, kind),
           answers' = answers, contract' = contract
    PROVE  /\ request' \in [Slots -> Requests] /\ doubtful' \in BOOLEAN
           /\ NothingUnsaved' /\ SavesAreCurrent'
<1>1. /\ request' = [request EXCEPT ![s] = [kind |-> kind, body |-> answers]]
      /\ doubtful' = (Saves # {})
  BY DEF Send
<1>2. /\ request \in [Slots -> Requests]
      /\ [kind |-> kind, body |-> answers] \in Requests
  BY RequestTypes DEF InterviewInv, InterviewTypeOK
<1>3. /\ request' \in [Slots -> Requests]
      /\ request'[s] = [kind |-> kind, body |-> answers]
      /\ \A t \in Slots : t # s => request'[t] = request[t]
  BY <1>1, <1>2
<1>4. request'[s].kind = kind /\ request'[s].body = answers
  BY <1>3
<1>5. Saves' = {t \in Slots : request'[t].kind \in {"save", "complete.patch"}}
  BY DEF Saves
<1>6. s \in Saves' /\ \A t \in Saves' : t = s \/ t \in Saves
  BY <1>3, <1>4, <1>5 DEF Saves
<1>7. NothingUnsaved'
  BY <1>6 DEF NothingUnsaved
<1>8. SavesAreCurrent'
  BY <1>1, <1>4, <1>6 DEF SavesAreCurrent
<1> QED BY <1>1, <1>3, <1>7, <1>8

\* What does not touch the question that is shown.
LEMMA SameQuestion ==
    ASSUME QuestionIsShown, answers' = answers, step' = step
    PROVE  QuestionIsShown'
BY DEF QuestionIsShown, Visible, evaluateConditions, Holds

\* Nothing becomes unsaved while neither answers nor saves change.
LEMMA SameSaves ==
    ASSUME NothingUnsaved, SavesAreCurrent, answers' = answers, timer' = timer,
           doubtful' = doubtful, contract'.answers = contract.answers,
           Saves' = Saves,
           \A t \in Saves : request'[t] = request[t]
    PROVE  NothingUnsaved' /\ SavesAreCurrent'
BY DEF NothingUnsaved, SavesAreCurrent

-----------------------------------------------------------------------------
\* A new answer schedules a save and does not hide the question it is given
\* to.
LEMMA Answered ==
    ASSUME InterviewInv, AnswerChange
    PROVE  InterviewInv'
<1>1. PICK k, key : k = step /\ key = Current
  OBVIOUS
<1>2. k \in DOMAIN Visible(answers) /\ key = Visible(answers)[k]
  BY <1>1 DEF AnswerChange, Answering, Current
<1>3. key \in FlowKeys
  BY <1>2, VisibleAre, ElementOfSeq, LenProperties
<1>4. PICK value \in ValuesOf[key] : answers' = [answers EXCEPT ![key] = value]
  BY <1>1 DEF AnswerChange
<1>5. /\ timer' = TRUE
      /\ UNCHANGED <<step, page, request, contract, doubtful>>
  BY DEF AnswerChange
<1>6. answers' \in Answers
  BY <1>3, <1>4, AnswersKnown DEF InterviewInv, InterviewTypeOK
<1>7. QuestionIsShown'
  <2>1. PICK b : b = answers'
    OBVIOUS
  <2>2. k \in DOMAIN Visible(b)
    BY <1>2, <1>4, <2>1, StillShown DEF InterviewInv, InterviewTypeOK
  <2>3. Visible(answers)' = Visible(b)
    BY <2>1 DEF Visible, evaluateConditions, Holds
  <2> QED BY <1>1, <1>5, <2>2, <2>3 DEF QuestionIsShown
<1>8. Saves' = Saves
  BY <1>5 DEF Saves
<1>9. NothingUnsaved' /\ SavesAreCurrent'
  BY <1>5, <1>8 DEF NothingUnsaved, SavesAreCurrent, InterviewInv
<1>10. InterviewTypeOK'
  BY <1>5, <1>6 DEF InterviewInv, InterviewTypeOK
<1> QED BY <1>7, <1>9, <1>10 DEF InterviewInv

\* A fresh page shows what the server has.
LEMMA Loaded ==
    ASSUME InterviewInv, Load
    PROVE  InterviewInv'
<1>1. /\ answers' = contract.answers /\ step' = 1 /\ page' = "open"
      /\ timer' = FALSE /\ doubtful' = (Saves # {}) /\ contract' = contract
      /\ request' = [s \in Slots |->
            IF s \in Saves THEN [kind |-> "save", body |-> request[s].body]
            ELSE NoRequest]
  BY DEF Load
<1>2. /\ contract \in [answers : Answers, status : {"draft", "completed"},
                       verdict : {"valid", "has_conflicts"}]
      /\ contract.answers \in Answers
  BY DEF InterviewInv, InterviewTypeOK
<1>3. request' \in [Slots -> Requests]
  BY <1>1, RequestTypes DEF InterviewInv
<1>4. Saves' = {t \in Slots : request'[t].kind \in {"save", "complete.patch"}}
  BY DEF Saves
<1>5. \A s \in Saves' : s \in Saves
  <2> SUFFICES ASSUME NEW s \in Slots, s \notin Saves
               PROVE  request'[s].kind \notin {"save", "complete.patch"}
    BY <1>4
  <2>1. request'[s] = NoRequest
    BY <1>1
  <2> QED BY <2>1 DEF NoRequest
<1>6. NothingUnsaved'
  BY <1>1 DEF NothingUnsaved
<1>7. SavesAreCurrent'
  BY <1>1, <1>5 DEF SavesAreCurrent
<1>8. QuestionIsShown'
  <2>1. PICK b : b = answers'
    OBVIOUS
  <2>2. Visible(answers)' = Visible(b)
    BY <2>1 DEF Visible, evaluateConditions, Holds
  <2>3. Visible(b) # <<>> => 1 \in DOMAIN Visible(b)
    BY VisibleAre
  <2> QED BY <1>1, <2>2, <2>3 DEF QuestionIsShown
<1>9. InterviewTypeOK'
  <2>1. answers' \in Answers /\ timer' \in BOOLEAN /\ doubtful' \in BOOLEAN
    BY <1>1, <1>2
  <2>2. step' \in Nat \ {0} /\ page' \in {"open", "error", "left"}
    BY <1>1
  <2>3. contract' \in [answers : Answers, status : {"draft", "completed"},
                       verdict : {"valid", "has_conflicts"}]
    BY <1>1, <1>2
  <2> QED BY <1>3, <2>1, <2>2, <2>3 DEF InterviewTypeOK
<1> QED BY <1>6, <1>7, <1>8, <1>9 DEF InterviewInv

\* A PATCH arrives: the server merges what the page showed when it was sent.
LEMMA Patched ==
    ASSUME InterviewInv, NEW s \in Slots, PatchDone(s)
    PROVE  InterviewInv'
<1>1. PICK r : r = IF request[s].kind = "save" THEN NoRequest
                   ELSE [kind |-> "complete.validate"]
  OBVIOUS
<1>2. /\ s \in Saves /\ Becomes(s, r)
      /\ contract' = [contract EXCEPT !.answers = Merge(@, request[s].body)]
      /\ UNCHANGED <<answers, step, page, timer, doubtful>>
  BY <1>1 DEF PatchDone
<1>3. r \in Requests /\ r.kind \notin {"save", "complete.patch"}
  BY <1>1, RequestTypes DEF InterviewInv
<1>4. /\ request' \in [Slots -> Requests] /\ Saves' = Saves \ {s}
      /\ \A t \in Slots : t # s => request'[t] = request[t]
  BY <1>2, <1>3, Became DEF InterviewInv
<1>5. PICK body : body = request[s].body
  OBVIOUS
<1>6. body \in Answers
  BY <1>2, <1>5, RequestTypes DEF InterviewInv
<1>7. /\ contract \in [answers : Answers, status : {"draft", "completed"},
                       verdict : {"valid", "has_conflicts"}]
  BY DEF InterviewInv, InterviewTypeOK
<1>8. Merge(contract.answers, body) \in Answers
  BY <1>6, <1>7, AnswersKnown
<1>9. /\ contract' \in [answers : Answers, status : {"draft", "completed"},
                        verdict : {"valid", "has_conflicts"}]
      /\ contract'.answers = Merge(contract.answers, body)
  BY <1>2, <1>5, <1>7, <1>8
<1>10. NothingUnsaved'
  <2> SUFFICES ASSUME ~timer, ~doubtful, NEW key \in FlowKeys, answers[key] # NoAnswer
               PROVE  contract'.answers[key] = answers[key]
    BY <1>2 DEF NothingUnsaved
  <2>1. body = answers
    BY <1>2, <1>5 DEF InterviewInv, SavesAreCurrent
  <2> QED BY <1>9, <2>1 DEF Merge
<1>11. SavesAreCurrent'
  <2>1. \A t \in Saves' : t \in Saves /\ request'[t] = request[t]
    BY <1>4, RequestTypes DEF InterviewInv
  <2> QED BY <1>2, <2>1 DEF InterviewInv, SavesAreCurrent
<1>12. QuestionIsShown'
  BY <1>2, SameQuestion DEF InterviewInv
<1>13. InterviewTypeOK'
  BY <1>2, <1>4, <1>9 DEF InterviewInv, InterviewTypeOK
<1> QED BY <1>10, <1>11, <1>12, <1>13 DEF InterviewInv

\* The later requests of the chain change nothing about saves.
LEMMA ChainGoesOn ==
    ASSUME InterviewInv, NEW s \in Slots, s \notin Saves, NEW r \in Requests,
           r.kind \notin {"save", "complete.patch"}, Becomes(s, r),
           page' \in {"open", "error", "left"},
           contract' \in [answers : Answers, status : {"draft", "completed"},
                          verdict : {"valid", "has_conflicts"}],
           contract'.answers = contract.answers,
           UNCHANGED <<answers, step, timer, doubtful>>
    PROVE  InterviewInv'
<1>1. /\ request' \in [Slots -> Requests] /\ Saves' = Saves
      /\ \A t \in Saves : request'[t] = request[t]
  <2>1. /\ request' \in [Slots -> Requests] /\ Saves' = Saves \ {s}
        /\ \A t \in Slots : t # s => request'[t] = request[t]
    BY Became DEF InterviewInv
  <2>2. \A t \in Saves : t \in Slots /\ t # s
    BY DEF Saves
  <2> QED BY <2>1, <2>2
<1>2. NothingUnsaved' /\ SavesAreCurrent'
  BY <1>1, SameSaves DEF InterviewInv
<1>3. QuestionIsShown'
  BY SameQuestion DEF InterviewInv
<1>4. InterviewTypeOK'
  BY <1>1 DEF InterviewInv, InterviewTypeOK
<1> QED BY <1>2, <1>3, <1>4 DEF InterviewInv

\* Every step keeps the invariant.
LEMMA InterviewKept ==
    ASSUME InterviewInv, InterviewNext
    PROVE  InterviewInv'
<1>0. /\ contract \in [answers : Answers, status : {"draft", "completed"},
                       verdict : {"valid", "has_conflicts"}]
      /\ page \in {"open", "error", "left"}
  BY DEF InterviewInv, InterviewTypeOK
<1>1. CASE AnswerChange
  BY <1>1, Answered
<1>2. CASE GoTo
  <2>1. /\ step' \in DOMAIN Visible(answers)
        /\ UNCHANGED <<answers, page, timer, request, contract, doubtful>>
    BY <1>2 DEF GoTo, Steps
  <2>2. step' \in Nat \ {0}
    BY <2>1, VisibleAre
  <2>3. QuestionIsShown'
    <3>1. Visible(answers)' = Visible(answers)
      BY <2>1 DEF Visible, evaluateConditions, Holds
    <3> QED BY <2>1, <3>1 DEF QuestionIsShown
  <2>4. Saves' = Saves
    BY <2>1 DEF Saves
  <2>5. NothingUnsaved' /\ SavesAreCurrent'
    BY <2>1, <2>4, SameSaves DEF InterviewInv
  <2> QED BY <2>1, <2>2, <2>3, <2>5 DEF InterviewInv, InterviewTypeOK
<1>3. CASE Leave
  <2>1. page' = "left" /\ UNCHANGED <<answers, step, timer, request, contract, doubtful>>
    BY <1>3 DEF Leave
  <2>2. Saves' = Saves
    BY <2>1 DEF Saves
  <2>3. NothingUnsaved' /\ SavesAreCurrent' /\ QuestionIsShown'
    BY <2>1, <2>2, SameSaves, SameQuestion DEF InterviewInv
  <2> QED BY <2>1, <2>3 DEF InterviewInv, InterviewTypeOK
<1>4. CASE Load
  BY <1>4, Loaded
<1>5. ASSUME NEW s \in Slots, AutoSave(s) \/ ManualSave(s) \/ Complete(s)
      PROVE  InterviewInv'
  <2>1. PICK kind \in {"save", "complete.patch"} : Send(s, kind)
    BY <1>5 DEF AutoSave, ManualSave, Complete
  <2>2. timer' \in BOOLEAN /\ UNCHANGED <<answers, step, page, contract>>
    BY <1>5 DEF AutoSave, ManualSave, Complete, InterviewInv, InterviewTypeOK
  <2>3. /\ request' \in [Slots -> Requests] /\ doubtful' \in BOOLEAN
        /\ NothingUnsaved' /\ SavesAreCurrent'
    BY <2>1, <2>2, Sent
  <2>4. QuestionIsShown'
    BY <2>2, SameQuestion DEF InterviewInv
  <2> QED BY <2>2, <2>3, <2>4 DEF InterviewInv, InterviewTypeOK
<1>6. ASSUME NEW s \in Slots, PatchDone(s) PROVE InterviewInv'
  BY <1>6, Patched
<1>7. ASSUME NEW s \in Slots, PatchFails(s) PROVE InterviewInv'
  <2>1. /\ Becomes(s, NoRequest) /\ doubtful' = TRUE
        /\ page' \in {page, "error"}
        /\ UNCHANGED <<answers, step, timer, contract>>
    BY <1>7 DEF PatchFails
  <2>2. request' \in [Slots -> Requests]
    BY <2>1, RequestTypes DEF InterviewInv, InterviewTypeOK, Becomes
  <2>3. NothingUnsaved' /\ SavesAreCurrent' /\ QuestionIsShown'
    BY <2>1, SameQuestion DEF InterviewInv, NothingUnsaved, SavesAreCurrent
  <2> QED BY <1>0, <2>1, <2>2, <2>3 DEF InterviewInv, InterviewTypeOK
<1>8. ASSUME NEW s \in Slots, Validated(s) PROVE InterviewInv'
  <2>1. PICK verdict \in {"valid", "has_conflicts"} :
          /\ contract' = [contract EXCEPT !.verdict = verdict]
          /\ IF verdict = "has_conflicts"
             THEN /\ Becomes(s, NoRequest)
                  /\ page' = IF page = "left" THEN page ELSE "error"
             ELSE /\ Becomes(s, [kind |-> "complete.complete"])
                  /\ UNCHANGED page
    BY <1>8 DEF Validated
  <2>2. s \notin Saves /\ UNCHANGED <<answers, step, timer, doubtful>>
    BY <1>8 DEF Validated, Saves
  <2>3. /\ contract' \in [answers : Answers, status : {"draft", "completed"},
                          verdict : {"valid", "has_conflicts"}]
        /\ contract'.answers = contract.answers
    BY <1>0, <2>1
  <2>4. page' \in {"open", "error", "left"}
    BY <1>0, <2>1
  <2>5. PICK r \in Requests : r.kind \notin {"save", "complete.patch"} /\ Becomes(s, r)
    BY <2>1, RequestTypes DEF InterviewInv
  <2> QED BY <2>2, <2>3, <2>4, <2>5, ChainGoesOn
<1>9. ASSUME NEW s \in Slots, Completed(s) PROVE InterviewInv'
  <2>1. /\ contract' = [contract EXCEPT !.status = "completed"]
        /\ Becomes(s, NoRequest) /\ page' = "left" /\ s \notin Saves
        /\ UNCHANGED <<answers, step, timer, doubtful>>
    BY <1>9 DEF Completed, Saves
  <2>2. /\ contract' \in [answers : Answers, status : {"draft", "completed"},
                          verdict : {"valid", "has_conflicts"}]
        /\ contract'.answers = contract.answers
    BY <1>0, <2>1
  <2>3. NoRequest \in Requests /\ NoRequest.kind \notin {"save", "complete.patch"}
    BY RequestTypes DEF InterviewInv
  <2> QED BY <2>1, <2>2, <2>3, ChainGoesOn
<1>10. ASSUME NEW s \in Slots, ChainFails(s) PROVE InterviewInv'
  <2>1. /\ Becomes(s, NoRequest) /\ page' \in {page, "error"} /\ s \notin Saves
        /\ contract' = contract /\ UNCHANGED <<answers, step, timer, doubtful>>
    BY <1>10 DEF ChainFails, Saves
  <2>2. NoRequest \in Requests /\ NoRequest.kind \notin {"save", "complete.patch"}
    BY RequestTypes DEF InterviewInv
  <2>3. page' \in {"open", "error", "left"}
    BY <1>0, <2>1
  <2> QED BY <1>0, <2>1, <2>2, <2>3, ChainGoesOn
<1> QED
  BY <1>1, <1>2, <1>3, <1>4, <1>5, <1>6, <1>7, <1>8, <1>9, <1>10
     DEF InterviewNext

\* When no save is scheduled or in flight the server has every answer that the
\* page shows, unless the last PATCH was lost, refused or sent beside another
\* one; and the page always shows a question, as no answer hides the question
\* it is given to (InterviewPage.tsx).
THEOREM InterviewCorrect == Spec => []InterviewIsSound
<1>1. Init => InterviewInv
  <2> SUFFICES ASSUME Init PROVE InterviewInv
    OBVIOUS
  <2>1. /\ answers = Unanswered /\ step = 1 /\ page = "open" /\ timer = FALSE
        /\ request = [s \in Slots |-> NoRequest] /\ doubtful = FALSE
        /\ contract = [answers |-> Unanswered, status |-> "draft", verdict |-> "valid"]
    BY DEF Init, InterviewInit
  <2>2. InterviewTypeOK
    <3>1. Unanswered \in Answers
      BY AnswersKnown
    <3>2. answers \in Answers
      BY <2>1, <3>1
    <3>5. step \in Nat \ {0}
      BY <2>1
    <3>7. timer \in BOOLEAN /\ doubtful \in BOOLEAN
      BY <2>1
    <3>6. page \in {"open", "error", "left"}
      BY <2>1
    <3>3. contract \in [answers : Answers, status : {"draft", "completed"},
                        verdict : {"valid", "has_conflicts"}]
      BY <2>1, <3>1
    <3>4. request \in [Slots -> Requests]
      BY <2>1 DEF Requests
    <3> QED BY <3>2, <3>3, <3>4, <3>5, <3>6, <3>7 DEF InterviewTypeOK
  <2>3. Saves = {}
    BY <2>1 DEF Saves, NoRequest
  <2>4. QuestionIsShown
    BY <2>1, VisibleAre DEF QuestionIsShown
  <2> QED
    BY <2>1, <2>2, <2>3, <2>4 DEF InterviewInv, NothingUnsaved, SavesAreCurrent
<1>2. ASSUME InterviewInv, [Next]_clientVars PROVE InterviewInv'
  <2>1. CASE InterviewNext
    BY <1>2, <2>1, InterviewKept
  <2>2. CASE UNCHANGED interviewVars
    <3>1. UNCHANGED <<answers, step, page, timer, request, contract, doubtful>>
      BY <2>2 DEF interviewVars
    <3>2. Saves' = Saves
      BY <3>1 DEF Saves
    <3>3. NothingUnsaved' /\ SavesAreCurrent' /\ QuestionIsShown'
      BY <1>2, <3>1, <3>2, SameSaves, SameQuestion DEF InterviewInv
    <3> QED BY <1>2, <3>1, <3>3 DEF InterviewInv, InterviewTypeOK
  <2>3. InterviewNext \/ UNCHANGED interviewVars
    BY <1>2 DEF Next, InterviewStep, ToastsStep, ReorderStep, PagesStep,
       RumStep, clientVars
  <2> QED BY <2>1, <2>2, <2>3
<1>3. InterviewInv => InterviewIsSound
  BY DEF InterviewInv, InterviewIsSound
<1> QED BY <1>1, <1>2, <1>3, PTL DEF Spec

=============================================================================
