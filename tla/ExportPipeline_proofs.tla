------------------------- MODULE ExportPipeline_proofs -------------------------
(***************************************************************************)
(* Proofs about ExportPipeline, for any jobs, callers, handlers, contracts *)
(* and bounds, whatever key the messages carry.                            *)
(*                                                                         *)
(* HandlerOK says what a handler may rely on at each of its awaits: that   *)
(* the contract it read belongs to the time since its job was requested,   *)
(* that a cached document shows the same answers, and that the row is      *)
(* updated after the upload.  QueueOK counts the faults behind the         *)
(* attempts of a message, which is why its retries suffice.                *)
(***************************************************************************)
EXTENDS ExportPipeline, SequenceTheorems, TLAPS

\* A handler that has read the contract, and one that has uploaded.
Loaded == {"lookup", "render", "upload", "cachedUpload", "update",
           "cachedUpdate", "complete"}
Uploaded == {"update", "cachedUpdate", "complete"}

HandlerOK(p) ==
    /\ p # Idle => /\ p.message \in DOMAIN queue
                   /\ p.id \in {queue[p.message].job, Undefined}
                   /\ queue[p.message].key = "exportJobId" => p.id # Undefined
    /\ p.at \in Loaded =>
          /\ p.document.answers = p.contract.answers
          /\ p.id # Undefined => p.contract \in since[p.id]
    /\ p.at \in Uploaded => stored[p.id] # NoDocument

\* Requests and messages are about jobs that have a row.
CallerOK(q) ==
    /\ q.at = "send" => \A j \in q.jobs : status[j] # "none"
    /\ q.at \in {"retry", "archive"} => status[q.job] # "none"

MessagesHaveRows == \A i \in DOMAIN queue : status[queue[i].job] # "none"

SinceOK == \A j \in Jobs :
    IF status[j] = "none" THEN since[j] = {} ELSE contract \in since[j]

CacheOK ==
    \A k \in CacheKeys : cache[k] # NoDocument => CacheKey(cache[k]) = k

IInv ==
    /\ TypeOK
    /\ \A w \in Workers : HandlerOK(worker[w])
    /\ \A c \in Callers : CallerOK(caller[c])
    /\ MessagesHaveRows
    /\ SinceOK
    /\ CacheOK
    /\ DoneHasDocument
    /\ AnswersAreAsRequested

\* Attempts cost faults: as many as were made, and one more when the message
\* waits for another attempt or lost its handler.
AttemptsOK(i) ==
    /\ queue[i].tries <= faults
    /\ queue[i].state = "retry" => queue[i].tries < faults
    /\ queue[i].state = "active" /\ ~HandlerRuns(i) => queue[i].tries < faults

\* Message i will be worked on, and no handler is about to complete it.
WillBeHandled(i) ==
    /\ queue[i].state \in {"created", "retry", "active"}
    /\ \A w \in Workers :
          worker[w].at = "complete" => worker[w].message # i

BeingSent(j) ==
    \E c \in Callers : caller[c].at = "send" /\ j \in caller[c].jobs

QueuedOK ==
    \A j \in Jobs : status[j] = "queued" =>
        \/ BeingSent(j)
        \/ \E i \in DOMAIN queue : queue[i].job = j /\ WillBeHandled(i)

PInv ==
    /\ IInv
    /\ \A i \in DOMAIN queue : AttemptsOK(i)
    /\ QueuedOK

\* Every message carries the id under the key the worker reads, sends do not
\* fail, and there are no more faults than retries.
RetriesSuffice ==
    /\ SentKeys = {"exportJobId"}
    /\ ~SendsFail
    /\ MaxFaults <= RetryLimit

-----------------------------------------------------------------------------
(***************************************************************************)
(* Lemmas about handlers, callers and the queue.                           *)
(***************************************************************************)

\* The field at tells which kind of handler state a handler state is.
LEMMA HandlerKinds ==
    ASSUME NEW p \in WorkerState
    PROVE  /\ p = Idle <=> p.at = "idle"
           /\ p.at \in {"idle", "load"} \cup Loaded
           /\ p # Idle => p.message \in Nat \ {0} /\ p.id \in JobIds
           /\ p.at \in Loaded => p.contract \in Documents
                                 /\ p.document \in Documents
BY DEF WorkerState, Idle, Loaded

\* A handler that has read the contract may go on to any later place.
LEMMA HandlerMoves ==
    ASSUME NEW p \in WorkerState, NEW at \in Loaded, p.at \in Loaded,
           NEW document \in Documents
    PROVE  /\ [p EXCEPT !.at = at] \in WorkerState
           /\ [p EXCEPT !.at = at, !.document = document] \in WorkerState
<1> DEFINE LoadedState == [at : Loaded, message : Nat \ {0}, id : JobIds,
                           contract : Documents, document : Documents]
<1>1. p \in LoadedState
  BY DEF WorkerState, Idle, Loaded
<1>2. [p EXCEPT !.at = at] \in LoadedState
  BY <1>1
<1>3. [p EXCEPT !.at = at, !.document = document] \in LoadedState
  BY <1>1
<1>4. LoadedState \subseteq WorkerState
  BY DEF WorkerState, Loaded
<1> QED BY <1>2, <1>3, <1>4

\* The field at tells which kind of caller state a caller state is.
LEMMA CallerKinds ==
    ASSUME NEW q \in CallerState
    PROVE  /\ q = Idle <=> q.at = "idle"
           /\ q.at \in {"idle", "send", "retry", "archive"}
           /\ q.at = "send" => q.jobs \in (SUBSET Jobs) \ {{}}
           /\ q.at \in {"retry", "archive"} => q.job \in Jobs
BY DEF CallerState, Idle

\* A handler and a request that rest satisfy their parts of the invariant.
LEMMA IdleOK ==
    /\ Idle \in WorkerState /\ Idle \in CallerState /\ Idle.at = "idle"
    /\ HandlerOK(Idle) /\ CallerOK(Idle)
    /\ HandlerOK(Idle)' /\ CallerOK(Idle)'
BY DEF WorkerState, CallerState, Idle, HandlerOK, CallerOK, Loaded, Uploaded

\* Replacing one message leaves the others and the length alone.
LEMMA ReplaceMessage ==
    ASSUME queue \in Seq(Message), NEW i \in DOMAIN queue, NEW m \in Message,
           queue' = [queue EXCEPT ![i] = m]
    PROVE  /\ queue' \in Seq(Message)
           /\ DOMAIN queue' = DOMAIN queue
           /\ queue'[i] = m
           /\ \A k \in DOMAIN queue \ {i} : queue'[k] = queue[k]
<1>1. DOMAIN queue = 1..Len(queue)
  OBVIOUS
<1>2. queue' \in Seq(Message) /\ Len(queue') = Len(queue)
  BY <1>1, ExceptSeq
<1> QED BY <1>1, <1>2

\* Every message of the queue is one, and has a positive number.
LEMMA QueueTypes ==
    ASSUME queue \in Seq(Message)
    PROVE  /\ DOMAIN queue = 1..Len(queue) /\ Len(queue) \in Nat
           /\ \A i \in DOMAIN queue : i \in Nat \ {0} /\ queue[i] \in Message
<1>1. Len(queue) \in Nat /\ DOMAIN queue = 1..Len(queue)
  OBVIOUS
<1> QED BY <1>1, ElementOfSeq

\* Sending adds a new message at the end.
LEMMA SendMessage ==
    ASSUME queue \in Seq(Message), NEW j \in Jobs, Enqueue(j)
    PROVE  /\ queue' \in Seq(Message)
           /\ DOMAIN queue' = DOMAIN queue \cup {Len(queue) + 1}
           /\ Len(queue) + 1 \notin DOMAIN queue
           /\ \A k \in DOMAIN queue : queue'[k] = queue[k]
           /\ queue'[Len(queue) + 1].job = j
           /\ queue'[Len(queue) + 1].state = "created"
           /\ queue'[Len(queue) + 1].tries = 0
           /\ queue'[Len(queue) + 1].key \in SentKeys
<1> PICK key \in SentKeys :
        queue' = Append(queue, [job |-> j, key |-> key,
                                state |-> "created", tries |-> 0])
  BY DEF Enqueue
<1> DEFINE m == [job |-> j, key |-> key, state |-> "created", tries |-> 0]
<1>1. m \in Message
  BY DEF Message, MessageStates
<1>2. /\ queue' \in Seq(Message)
      /\ Len(queue') = Len(queue) + 1
      /\ \A k \in 1..Len(queue) : queue'[k] = queue[k]
      /\ queue'[Len(queue) + 1] = m
  BY <1>1, AppendProperties
<1>3. Len(queue) \in Nat /\ DOMAIN queue = 1..Len(queue)
      /\ DOMAIN queue' = 1..Len(queue')
  BY <1>2
<1> QED BY <1>2, <1>3

\* What pg-boss does to a message keeps its job and its key.
LEMMA MessageKept ==
    ASSUME NEW m \in Message
    PROVE  /\ GiveBack(m) \in Message /\ Attempted(m) \in Message
           /\ [m EXCEPT !.state = "completed"] \in Message
           /\ GiveBack(m).job = m.job /\ GiveBack(m).key = m.key
           /\ GiveBack(m).tries = m.tries
           /\ GiveBack(m).state = IF m.tries < RetryLimit THEN "retry"
                                                          ELSE "failed"
           /\ Attempted(m).job = m.job /\ Attempted(m).key = m.key
           /\ Attempted(m).state = "active"
           /\ Attempted(m).tries =
                 IF m.state = "retry" THEN m.tries + 1 ELSE m.tries
<1>1. [m EXCEPT !.state = "completed"] \in Message
  BY DEF Message, MessageStates
<1>2. /\ GiveBack(m) \in Message
      /\ GiveBack(m).job = m.job /\ GiveBack(m).key = m.key
      /\ GiveBack(m).tries = m.tries
      /\ GiveBack(m).state = IF m.tries < RetryLimit THEN "retry"
                                                     ELSE "failed"
  BY LimitsAreNat DEF Message, MessageStates, GiveBack
<1> DEFINE tries == IF m.state = "retry" THEN m.tries + 1 ELSE m.tries
<1>3. tries \in Nat
  BY DEF Message
<1>4. Attempted(m) = [m EXCEPT !.state = "active", !.tries = tries]
  BY DEF Message, Attempted
<1>5. /\ Attempted(m) \in Message
      /\ Attempted(m).job = m.job /\ Attempted(m).key = m.key
      /\ Attempted(m).state = "active" /\ Attempted(m).tries = tries
  BY <1>3, <1>4 DEF Message, MessageStates
<1> QED BY <1>1, <1>2, <1>5

\* Documents have keys and are never the absence of one.
LEMMA KeysOfDocuments ==
    ASSUME NEW document \in Documents
    PROVE  /\ CacheKey(document) \in CacheKeys
           /\ document # NoDocument
BY NoDocumentIsNone DEF CacheKeys, Documents

-----------------------------------------------------------------------------
(***************************************************************************)
(* The types.                                                              *)
(***************************************************************************)

\* The actions of the API.
LEMMA CallTypes ==
    ASSUME TypeOK, NEW c \in Callers, Call(c)
    PROVE  TypeOK'
<1> USE DEF TypeOK, apiVars, workerVars
<1>1. CASE Request(c)
  <2> PICK js \in SUBSET {j \in Jobs : status[j] = "none"} :
            /\ js # {}
            /\ status' = [j \in Jobs |-> IF j \in js THEN "queued"
                                                     ELSE status[j]]
            /\ since' = [j \in Jobs |-> IF j \in js THEN {contract}
                                                    ELSE since[j]]
            /\ caller' = [caller EXCEPT ![c] = [at |-> "send", jobs |-> js]]
            /\ UNCHANGED <<contract, queue, faults, workerVars>>
    BY <1>1 DEF Request
  <2>1. [at |-> "send", jobs |-> js] \in CallerState
    BY DEF CallerState
  <2>2. caller' \in [Callers -> CallerState]
    BY <2>1
  <2>3. status' \in [Jobs -> Statuses] /\ since' \in [Jobs -> SUBSET Documents]
    BY DEF Statuses
  <2> QED BY <2>2, <2>3
<1>2. CASE Send(c)
  <2> PICK j \in caller[c].jobs :
            /\ Enqueue(j)
            /\ caller' = [caller EXCEPT ![c] = AfterSend(c, j)]
    BY <1>2 DEF Send
  <2>1. caller[c].at = "send" /\ caller[c].jobs \in (SUBSET Jobs) \ {{}}
    BY <1>2, CallerKinds DEF Send
  <2>2. AfterSend(c, j) \in CallerState
    BY <2>1 DEF AfterSend, CallerState
  <2>3. queue' \in Seq(Message)
    BY <2>1, SendMessage
  <2> QED BY <1>2, <2>2, <2>3 DEF Send
<1>3. CASE SendFails(c)
  BY <1>3, IdleOK DEF SendFails
<1>4. CASE ReadFailed(c)
  <2> PICK j \in Jobs, at \in {"retry", "archive"} :
            caller' = [caller EXCEPT ![c] = [at |-> at, job |-> j]]
    BY <1>4 DEF ReadFailed
  <2>1. [at |-> at, job |-> j] \in CallerState
    BY DEF CallerState
  <2> QED BY <1>4, <2>1 DEF ReadFailed
<1>5. CASE WriteRetry(c)
  <2>1. caller[c].job \in Jobs
    BY <1>5, CallerKinds DEF WriteRetry
  <2>2. [at |-> "send", jobs |-> {caller[c].job}] \in CallerState
    BY <2>1 DEF CallerState
  <2>3. status' \in [Jobs -> Statuses]
    BY <1>5, <2>1 DEF WriteRetry, Statuses
  <2> QED BY <1>5, <2>2, <2>3 DEF WriteRetry
<1>6. CASE WriteArchive(c)
  <2>1. caller[c].job \in Jobs
    BY <1>6, CallerKinds DEF WriteArchive
  <2>2. status' \in [Jobs -> Statuses]
    BY <1>6, <2>1 DEF WriteArchive, Statuses
  <2> QED BY <1>6, <2>2, IdleOK DEF WriteArchive
<1> QED BY <1>1, <1>2, <1>3, <1>4, <1>5, <1>6 DEF Call

\* A handler that has read the contract goes to another place.
LEMMA GotoTypes ==
    ASSUME TypeOK, NEW w \in Workers, NEW at \in Loaded, Goto(w, at),
           worker[w].at \in Loaded
    PROVE  /\ worker' \in [Workers -> WorkerState]
           /\ worker'[w] = [worker[w] EXCEPT !.at = at]
           /\ worker'[w].at = at
           /\ worker'[w].message = worker[w].message
           /\ worker'[w].id = worker[w].id
           /\ worker'[w].contract = worker[w].contract
           /\ worker'[w].document = worker[w].document
           /\ \A v \in Workers \ {w} : worker'[v] = worker[v]
<1>1. [worker[w] EXCEPT !.at = at] \in WorkerState
  BY HandlerKinds, HandlerMoves DEF TypeOK
<1>2. /\ worker' \in [Workers -> WorkerState]
      /\ worker'[w] = [worker[w] EXCEPT !.at = at]
      /\ \A v \in Workers \ {w} : worker'[v] = worker[v]
  BY <1>1 DEF Goto, TypeOK
<1>3. worker[w] # Idle
  BY HandlerKinds DEF TypeOK, Loaded
<1>4. worker[w] \in [at : Loaded, message : Nat \ {0}, id : JobIds,
                     contract : Documents, document : Documents]
  BY DEF TypeOK, WorkerState, Idle, Loaded
<1> QED BY <1>2, <1>4

\* The same with a document for the job.
LEMMA DocumentTypes ==
    ASSUME TypeOK, NEW w \in Workers, NEW at \in Loaded, NEW d \in Documents,
           worker' = [worker EXCEPT ![w].at = at, ![w].document = d],
           worker[w].at \in Loaded
    PROVE  /\ worker' \in [Workers -> WorkerState]
           /\ worker'[w].at = at
           /\ worker'[w].message = worker[w].message
           /\ worker'[w].id = worker[w].id
           /\ worker'[w].contract = worker[w].contract
           /\ worker'[w].document = d
           /\ \A v \in Workers \ {w} : worker'[v] = worker[v]
<1> DEFINE p == [worker[w] EXCEPT !.at = at, !.document = d]
<1>1. p \in WorkerState
  BY HandlerKinds, HandlerMoves DEF TypeOK
<1>2. worker' = [worker EXCEPT ![w] = p]
  BY DEF TypeOK
<1>3. /\ worker' \in [Workers -> WorkerState] /\ worker'[w] = p
      /\ \A v \in Workers \ {w} : worker'[v] = worker[v]
  BY <1>1, <1>2 DEF TypeOK
<1>4. worker[w] \in [at : Loaded, message : Nat \ {0}, id : JobIds,
                     contract : Documents, document : Documents]
  BY DEF TypeOK, WorkerState, Idle, Loaded
<1> QED BY <1>3, <1>4

\* Messages keep their numbers, jobs and keys.
QueueKept ==
    /\ queue' \in Seq(Message)
    /\ DOMAIN queue \subseteq DOMAIN queue'
    /\ \A k \in DOMAIN queue : /\ queue'[k].job = queue[k].job
                               /\ queue'[k].key = queue[k].key

\* What a handler relies on stays true as long as messages, documents and the
\* history since a request are kept.
LEMMA HandlersKept ==
    ASSUME TypeOK, QueueKept,
           \A j \in Jobs : since[j] \subseteq since'[j],
           \A id \in JobIds : stored[id] # NoDocument => stored'[id] # NoDocument
    PROVE  \A p \in WorkerState : HandlerOK(p) => HandlerOK(p)'
<1> SUFFICES ASSUME NEW p \in WorkerState, HandlerOK(p)
             PROVE  HandlerOK(p)'
  OBVIOUS
<1>1. p # Idle => p.message \in Nat \ {0} /\ p.id \in JobIds
  BY HandlerKinds
<1>2. (p # Idle => /\ p.message \in DOMAIN queue
                   /\ p.id \in {queue[p.message].job, Undefined}
                   /\ queue[p.message].key = "exportJobId"
                         => p.id # Undefined)'
  BY DEF HandlerOK, QueueKept
<1>3. p.at \in Loaded => p # Idle
  BY HandlerKinds DEF Loaded
<1>4. (p.at \in Loaded =>
         /\ p.document.answers = p.contract.answers
         /\ p.id # Undefined => p.contract \in since[p.id])'
  BY <1>1, <1>3 DEF HandlerOK, JobIds
<1>5. (p.at \in Uploaded => stored[p.id] # NoDocument)'
  BY <1>1, <1>3 DEF HandlerOK, Uploaded, Loaded
<1> QED BY <1>2, <1>4, <1>5 DEF HandlerOK

\* A step of one handler, or of pg-boss, that changes no row and no document.
LEMMA HandlerMoved ==
    ASSUME IInv, NEW w \in Workers, QueueKept, DOMAIN queue' = DOMAIN queue,
           worker' \in [Workers -> WorkerState],
           \A v \in Workers \ {w} : worker'[v] = worker[v],
           HandlerOK(worker[w])',
           storing' \subseteq Documents, faults' \in 0..MaxFaults,
           UNCHANGED <<contract, status, stored, cache, since, caller>>
    PROVE  IInv'
<1>1. TypeOK'
  BY DEF IInv, TypeOK, QueueKept
<1>2. \A v \in Workers : HandlerOK(worker[v])'
  <2> SUFFICES ASSUME NEW v \in Workers \ {w}
               PROVE  HandlerOK(worker[v])'
    OBVIOUS
  <2>1. worker[v] \in WorkerState /\ HandlerOK(worker[v])
    BY DEF IInv, TypeOK
  <2>2. \A p \in WorkerState : HandlerOK(p) => HandlerOK(p)'
    BY HandlersKept DEF IInv
  <2>3. worker'[v] = worker[v]
    OBVIOUS
  <2> QED BY <2>1, <2>2, <2>3
<1>3. (\A c \in Callers : CallerOK(caller[c]))'
  BY DEF IInv, CallerOK
<1>4. MessagesHaveRows'
  BY DEF IInv, MessagesHaveRows, QueueKept
<1>5. SinceOK' /\ CacheOK' /\ DoneHasDocument' /\ AnswersAreAsRequested'
  BY DEF IInv, SinceOK, CacheOK, DoneHasDocument, AnswersAreAsRequested
<1> QED BY <1>1, <1>2, <1>3, <1>4, <1>5 DEF IInv

\* The rest of the queue is kept when one message is replaced by another
\* about the same job.
LEMMA MessageReplaced ==
    ASSUME TypeOK, NEW i \in DOMAIN queue, NEW m \in Message,
           m.job = queue[i].job, m.key = queue[i].key,
           queue' = [queue EXCEPT ![i] = m]
    PROVE  QueueKept /\ DOMAIN queue' = DOMAIN queue
BY ReplaceMessage DEF TypeOK, QueueKept

-----------------------------------------------------------------------------
(***************************************************************************)
(* The worker: actions that touch neither a row nor a stored document.     *)
(***************************************************************************)

\* UNCHANGED queue is a special case of keeping the messages.
LEMMA SameQueue ==
    ASSUME TypeOK, UNCHANGED queue
    PROVE  QueueKept /\ DOMAIN queue' = DOMAIN queue
BY DEF TypeOK, QueueKept

\* A handler at work has a message of the queue and an id.
LEMMA AtWork ==
    ASSUME IInv, NEW w \in Workers, worker[w].at # "idle"
    PROVE  /\ worker[w].message \in DOMAIN queue
           /\ worker[w].message \in Nat \ {0}
           /\ queue[worker[w].message] \in Message
           /\ worker[w].id \in JobIds
           /\ worker[w].id \in {queue[worker[w].message].job, Undefined}
           /\ queue[worker[w].message].key = "exportJobId" =>
                 worker[w].id # Undefined
<1>1. worker[w] \in WorkerState /\ HandlerOK(worker[w]) /\ worker[w] # Idle
  BY IdleOK DEF IInv, TypeOK
<1>2. worker[w].message \in DOMAIN queue
  BY <1>1 DEF HandlerOK
<1>3. queue[worker[w].message] \in Message
  BY <1>2, QueueTypes DEF IInv, TypeOK
<1> QED BY <1>1, <1>2, <1>3, HandlerKinds DEF HandlerOK

\* What HandlerOK says of a handler with given fields in the new state.
LEMMA HandlerOKThere ==
    ASSUME IInv, NEW w \in Workers, QueueKept, worker[w].at # "idle",
           UNCHANGED <<since, stored>>,
           worker'[w].message = worker[w].message,
           worker'[w].id = worker[w].id,
           worker'[w].at \in Loaded \ Uploaded,
           worker'[w].document.answers = worker'[w].contract.answers,
           worker[w].id # Undefined => worker'[w].contract \in since[worker[w].id]
    PROVE  HandlerOK(worker[w])'
BY AtWork DEF HandlerOK, QueueKept

\* The handler loads the answers.
LEMMA LoadKeeps ==
    ASSUME IInv, NEW w \in Workers, Load(w)
    PROVE  IInv'
<1> DEFINE p == [at |-> "lookup", message |-> worker[w].message,
                 id |-> worker[w].id,
                 contract |-> contract, document |-> contract]
<1>1. /\ worker[w].at = "load" /\ worker' = [worker EXCEPT ![w] = p]
      /\ UNCHANGED <<contract, status, stored, cache, storing, queue, faults,
                     since, caller>>
  BY DEF Load, HandlerStep
<1>2. p \in WorkerState
  BY <1>1, AtWork DEF WorkerState, IInv, TypeOK
<1>3. /\ worker' \in [Workers -> WorkerState] /\ worker'[w] = p
      /\ \A v \in Workers \ {w} : worker'[v] = worker[v]
  BY <1>1, <1>2 DEF IInv, TypeOK
<1>4. QueueKept /\ DOMAIN queue' = DOMAIN queue
  BY <1>1, SameQueue DEF IInv
<1>5. worker[w].id # Undefined => contract \in since[worker[w].id]
  <2> HAVE worker[w].id # Undefined
  <2>1. worker[w].message \in DOMAIN queue
        /\ worker[w].id = queue[worker[w].message].job
    BY <1>1, AtWork
  <2>2. status[worker[w].id] # "none"
    BY <2>1 DEF IInv, MessagesHaveRows
  <2>3. worker[w].id \in Jobs
    BY <1>1, AtWork DEF JobIds
  <2> QED BY <2>2, <2>3 DEF IInv, SinceOK
<1>6. HandlerOK(worker[w])'
  BY <1>1, <1>3, <1>4, <1>5, HandlerOKThere DEF Loaded, Uploaded
<1> QED BY <1>1, <1>3, <1>4, <1>6, HandlerMoved DEF IInv, TypeOK

\* The handler finds its document in the result cache.
LEMMA LookupHitKeeps ==
    ASSUME IInv, NEW w \in Workers, LookupHit(w)
    PROVE  IInv'
<1> DEFINE k == CacheKey(worker[w].contract)
<1>1. /\ worker[w].at = "lookup" /\ cache[k] # NoDocument
      /\ worker' = [worker EXCEPT ![w].at = "cachedUpload",
                                  ![w].document = cache[k]]
      /\ UNCHANGED <<contract, status, stored, cache, storing, queue, faults,
                     since, caller>>
  BY DEF LookupHit, HandlerStep
<1>2. worker[w].contract \in Documents
  BY <1>1, HandlerKinds DEF IInv, TypeOK, Loaded
<1>3. cache[k] \in Documents /\ cache[k].answers = worker[w].contract.answers
  BY <1>1, <1>2, KeysOfDocuments DEF IInv, TypeOK, CacheOK, CacheKey
<1>4. /\ worker' \in [Workers -> WorkerState]
      /\ worker'[w].at = "cachedUpload"
      /\ worker'[w].message = worker[w].message
      /\ worker'[w].id = worker[w].id
      /\ worker'[w].contract = worker[w].contract
      /\ worker'[w].document = cache[k]
      /\ \A v \in Workers \ {w} : worker'[v] = worker[v]
  BY <1>1, <1>3, DocumentTypes DEF IInv, Loaded
<1>5. QueueKept /\ DOMAIN queue' = DOMAIN queue
  BY <1>1, SameQueue DEF IInv
<1>6. HandlerOK(worker[w])'
  <2>1. worker[w].id # Undefined => worker[w].contract \in since[worker[w].id]
    BY <1>1 DEF IInv, HandlerOK, Loaded
  <2> QED BY <1>1, <1>3, <1>4, <1>5, <2>1, HandlerOKThere DEF Loaded, Uploaded
<1> QED BY <1>1, <1>4, <1>5, <1>6, HandlerMoved DEF IInv, TypeOK

\* A handler goes on without having uploaded.
LEMMA GotoKeeps ==
    ASSUME IInv, NEW w \in Workers, NEW at \in Loaded \ Uploaded, Goto(w, at),
           worker[w].at \in Loaded, faults' \in 0..MaxFaults,
           UNCHANGED <<contract, status, stored, cache, storing, queue, since,
                       caller>>
    PROVE  IInv'
<1>1. worker[w].at # "idle"
  BY DEF Loaded
<1>2. QueueKept /\ DOMAIN queue' = DOMAIN queue
  BY SameQueue DEF IInv
<1>3. HandlerOK(worker[w])
  BY DEF IInv
<1>4. /\ worker[w].id # Undefined => worker[w].contract \in since[worker[w].id]
      /\ worker[w].document.answers = worker[w].contract.answers
  BY <1>3 DEF HandlerOK
<1>5. HandlerOK(worker[w])'
  BY <1>1, <1>2, <1>4, GotoTypes, HandlerOKThere DEF IInv
<1> QED BY <1>2, <1>5, GotoTypes, HandlerMoved DEF IInv, TypeOK

\* The handler finds nothing in the result cache.
LEMMA LookupMissKeeps ==
    ASSUME IInv, NEW w \in Workers, LookupMiss(w)
    PROVE  IInv'
BY GotoKeeps DEF LookupMiss, HandlerStep, Loaded, Uploaded, IInv, TypeOK

\* A step counts at most one fault, and only below the bound.
LEMMA FaultCounted ==
    ASSUME TypeOK, \/ faults < MaxFaults /\ faults' = faults + 1
                   \/ faults' = faults
    PROVE  faults' \in 0..MaxFaults
BY LimitsAreNat DEF TypeOK

\* The conversion to ODT fails and DOCX is taken instead.
LEMMA FallBackKeeps ==
    ASSUME IInv, NEW w \in Workers, FallBack(w)
    PROVE  IInv'
<1>1. faults' \in 0..MaxFaults
  BY FaultCounted DEF FallBack, IInv
<1> QED BY <1>1, GotoKeeps DEF FallBack, Loaded, Uploaded

\* The handler renders the document.
LEMMA RenderKeeps ==
    ASSUME IInv, NEW w \in Workers, Render(w)
    PROVE  IInv'
<1> DEFINE d == worker[w].contract
<1>1. /\ worker[w].at = "render"
      /\ worker' = [worker EXCEPT ![w].at = "upload", ![w].document = d]
      /\ storing' = storing \cup {d}
      /\ UNCHANGED <<contract, status, stored, cache, queue, faults, since,
                     caller>>
  BY DEF Render, HandlerStep
<1>2. d \in Documents
  BY <1>1, HandlerKinds DEF IInv, TypeOK, Loaded
<1>3. /\ worker' \in [Workers -> WorkerState]
      /\ worker'[w].at = "upload"
      /\ worker'[w].message = worker[w].message
      /\ worker'[w].id = worker[w].id
      /\ worker'[w].contract = d
      /\ worker'[w].document = d
      /\ \A v \in Workers \ {w} : worker'[v] = worker[v]
  BY <1>1, <1>2, DocumentTypes DEF IInv, Loaded
<1>4. QueueKept /\ DOMAIN queue' = DOMAIN queue
  BY <1>1, SameQueue DEF IInv
<1>5. HandlerOK(worker[w])'
  <2>1. worker[w].id # Undefined => d \in since[worker[w].id]
    BY <1>1 DEF IInv, HandlerOK, Loaded
  <2> QED BY <1>1, <1>3, <1>4, <2>1, HandlerOKThere DEF Loaded, Uploaded
<1> QED BY <1>1, <1>2, <1>3, <1>4, <1>5, HandlerMoved DEF IInv, TypeOK

\* A handler ends, and its message, if active, becomes another one about the
\* same job.
LEMMA HandlerEnds ==
    ASSUME IInv, NEW w \in Workers, worker[w].at # "idle",
           worker' = [worker EXCEPT ![w] = Idle],
           NEW m \in Message, m.job = queue[worker[w].message].job,
           m.key = queue[worker[w].message].key,
           queue' = IF queue[worker[w].message].state = "active"
                    THEN [queue EXCEPT ![worker[w].message] = m] ELSE queue,
           faults' \in 0..MaxFaults,
           UNCHANGED <<contract, status, stored, cache, storing, since, caller>>
    PROVE  IInv'
<1>1. QueueKept /\ DOMAIN queue' = DOMAIN queue
  BY AtWork, MessageReplaced, SameQueue DEF IInv
<1>2. /\ worker' \in [Workers -> WorkerState] /\ worker'[w] = Idle
      /\ \A v \in Workers \ {w} : worker'[v] = worker[v]
  BY IdleOK DEF IInv, TypeOK
<1>3. HandlerOK(worker[w])'
  BY <1>2, IdleOK
<1> QED BY <1>1, <1>2, <1>3, HandlerMoved DEF IInv, TypeOK

\* pg-boss settles the message of a handler that returned.
LEMMA CompleteKeeps ==
    ASSUME IInv, NEW w \in Workers, Complete(w)
    PROVE  IInv'
<1> DEFINE i == worker[w].message
           m == [queue[i] EXCEPT !.state = "completed"]
<1>1. queue[i] \in Message /\ i \in DOMAIN queue
  BY AtWork DEF Complete
<1>2. m \in Message /\ m.job = queue[i].job /\ m.key = queue[i].key
  BY <1>1, MessageKept DEF Message
<1>3. queue' = IF queue[i].state = "active"
               THEN [queue EXCEPT ![i] = m] ELSE queue
  BY <1>1 DEF Complete, IInv, TypeOK
<1> HIDE DEF m
<1> QED BY <1>2, <1>3, HandlerEnds DEF Complete, IInv, TypeOK

\* A handler fails and its message is retried, or failed for good.
LEMMA ThrowKeeps ==
    ASSUME IInv, NEW w \in Workers, Throw(w)
    PROVE  IInv'
<1> DEFINE i == worker[w].message
           m == GiveBack(queue[i])
<1>1. worker[w].at # "idle" /\ faults' \in 0..MaxFaults
  BY FaultCounted DEF Throw, IInv
<1>2. queue[i] \in Message /\ i \in DOMAIN queue
  BY <1>1, AtWork
<1>3. m \in Message /\ m.job = queue[i].job /\ m.key = queue[i].key
  BY <1>2, MessageKept
<1>4. queue' = IF queue[i].state = "active"
               THEN [queue EXCEPT ![i] = m] ELSE queue
  BY <1>2 DEF Throw, IInv, TypeOK
<1> HIDE DEF m
<1> QED BY <1>1, <1>3, <1>4, HandlerEnds DEF Throw

\* A worker takes a message and reads the id of the job from it.
LEMMA FetchKeeps ==
    ASSUME IInv, NEW w \in Workers, Fetch(w)
    PROVE  IInv'
<1> PICK i \in DOMAIN queue :
          /\ worker[w] = Idle
          /\ queue' = [queue EXCEPT ![i] = Attempted(@)]
          /\ worker' = [worker EXCEPT ![w] =
                [at |-> "load", message |-> i,
                 id |-> IF queue[i].key = "exportJobId"
                        THEN queue[i].job ELSE Undefined]]
          /\ UNCHANGED <<contract, status, stored, cache, storing, faults,
                         since, caller>>
  BY DEF Fetch, apiVars
<1> DEFINE p == [at |-> "load", message |-> i,
                 id |-> IF queue[i].key = "exportJobId"
                        THEN queue[i].job ELSE Undefined]
           m == Attempted(queue[i])
<1>1. queue[i] \in Message /\ i \in Nat \ {0}
  BY QueueTypes DEF IInv, TypeOK
<1>2. m \in Message /\ m.job = queue[i].job /\ m.key = queue[i].key
  BY <1>1, MessageKept
<1>3. QueueKept /\ DOMAIN queue' = DOMAIN queue
  <2>1. queue' = [queue EXCEPT ![i] = m]
    OBVIOUS
  <2> HIDE DEF m
  <2> QED BY <1>2, <2>1, MessageReplaced DEF IInv
<1>4. p \in WorkerState
  BY <1>1 DEF WorkerState, JobIds, Message
<1>5. /\ worker' \in [Workers -> WorkerState] /\ worker'[w] = p
      /\ \A v \in Workers \ {w} : worker'[v] = worker[v]
  BY <1>4 DEF IInv, TypeOK
<1>6. queue[i].job # Undefined
  BY <1>1, UndefinedIsNoJob DEF Message
<1>7. HandlerOK(worker[w])'
  BY <1>3, <1>5, <1>6 DEF HandlerOK, QueueKept, Loaded, Uploaded
<1> QED BY <1>3, <1>5, <1>7, HandlerMoved DEF IInv, TypeOK

-----------------------------------------------------------------------------
(***************************************************************************)
(* The worker, pg-boss and the draft: the other actions.                   *)
(***************************************************************************)

\* The handler puts the document into the storage.
LEMMA UploadKeeps ==
    ASSUME IInv, NEW w \in Workers, Upload(w)
    PROVE  IInv'
<1> DEFINE at == IF worker[w].at = "upload" THEN "update" ELSE "cachedUpdate"
           id == worker[w].id
           d == worker[w].document
<1>1. /\ worker[w].at \in Loaded /\ worker[w].at # "idle"
      /\ at \in Uploaded /\ at \in Loaded
      /\ Goto(w, at) /\ stored' = [stored EXCEPT ![id] = d]
      /\ UNCHANGED <<contract, status, cache, storing, queue, faults, since,
                     caller>>
  BY DEF Upload, HandlerStep, Loaded, Uploaded
<1> HIDE DEF at
<1>2. id \in JobIds /\ d \in Documents
  BY <1>1, AtWork, HandlerKinds DEF IInv, TypeOK
<1>3. d # NoDocument
  BY <1>2, KeysOfDocuments
<1>4. /\ stored' \in [JobIds -> Documents \cup {NoDocument}]
      /\ stored'[id] = d /\ \A x \in JobIds \ {id} : stored'[x] = stored[x]
  BY <1>1, <1>2 DEF IInv, TypeOK
<1>5. /\ worker' \in [Workers -> WorkerState]
      /\ worker'[w].at = at
      /\ worker'[w].message = worker[w].message
      /\ worker'[w].id = id
      /\ worker'[w].contract = worker[w].contract
      /\ worker'[w].document = d
      /\ \A v \in Workers \ {w} : worker'[v] = worker[v]
  BY <1>1, GotoTypes DEF IInv
<1>6. TypeOK'
  BY <1>1, <1>4, <1>5 DEF IInv, TypeOK
<1>7. QueueKept /\ DOMAIN queue' = DOMAIN queue
  BY <1>1, SameQueue DEF IInv
<1>8. HandlerOK(worker[w])
  BY DEF IInv
<1>9. \A v \in Workers : HandlerOK(worker[v])'
  <2>1. \A p \in WorkerState : HandlerOK(p) => HandlerOK(p)'
    <3>1. \A x \in JobIds : stored[x] # NoDocument => stored'[x] # NoDocument
      BY <1>3, <1>4
    <3>2. \A j \in Jobs : since[j] \subseteq since'[j]
      BY <1>1
    <3> QED BY <1>7, <3>1, <3>2, HandlersKept DEF IInv
  <2>2. HandlerOK(worker[w])'
    <3>1. (worker[w].at \in Uploaded => stored[worker[w].id] # NoDocument)'
      BY <1>3, <1>4, <1>5
    <3>2. (worker[w].at \in Loaded =>
             /\ worker[w].document.answers = worker[w].contract.answers
             /\ worker[w].id # Undefined =>
                   worker[w].contract \in since[worker[w].id])'
      BY <1>1, <1>5, <1>8 DEF HandlerOK
    <3>3. (worker[w] # Idle =>
             /\ worker[w].message \in DOMAIN queue
             /\ worker[w].id \in {queue[worker[w].message].job, Undefined}
             /\ queue[worker[w].message].key = "exportJobId" =>
                   worker[w].id # Undefined)'
      BY <1>1, <1>5, AtWork
    <3> QED BY <3>1, <3>2, <3>3 DEF HandlerOK
  <2>3. \A v \in Workers \ {w} : HandlerOK(worker[v])'
    <3> SUFFICES ASSUME NEW v \in Workers \ {w}
                 PROVE  HandlerOK(worker[v])'
      OBVIOUS
    <3>1. worker[v] \in WorkerState /\ HandlerOK(worker[v])
          /\ worker'[v] = worker[v]
      BY <1>5 DEF IInv, TypeOK
    <3> QED BY <2>1, <3>1
  <2> QED BY <2>2, <2>3
<1>10. (\A c \in Callers : CallerOK(caller[c]))' /\ MessagesHaveRows'
       /\ SinceOK' /\ CacheOK'
  BY <1>1 DEF IInv, CallerOK, MessagesHaveRows, SinceOK, CacheOK
<1>11. DoneHasDocument'
  BY <1>1, <1>3, <1>4 DEF IInv, DoneHasDocument, JobIds
<1>12. AnswersAreAsRequested'
  <2> SUFFICES ASSUME NEW j \in Jobs, stored'[j] # NoDocument
               PROVE  \E c \in since[j] : c.answers = stored'[j].answers
    BY <1>1 DEF AnswersAreAsRequested
  <2>1. CASE j = id
    <3>1. id # Undefined
      BY <2>1, UndefinedIsNoJob
    <3>2. worker[w].contract \in since[j]
      BY <1>1, <1>8, <2>1, <3>1 DEF HandlerOK
    <3>3. worker[w].contract.answers = d.answers
      BY <1>1, <1>8 DEF HandlerOK
    <3> QED BY <1>4, <2>1, <3>2, <3>3
  <2>2. CASE j # id
    BY <1>4, <2>2 DEF IInv, AnswersAreAsRequested, JobIds
  <2> QED BY <2>1, <2>2
<1> QED BY <1>6, <1>9, <1>10, <1>11, <1>12 DEF IInv

\* The handler writes the row: done, or failed.
LEMMA UpdateKeeps ==
    ASSUME IInv, NEW w \in Workers, Update(w)
    PROVE  IInv'
<1> DEFINE id == worker[w].id
<1>1. /\ worker[w].at \in Loaded /\ worker[w].at \in Uploaded
      /\ worker[w].at # "idle"
      /\ Goto(w, "complete") /\ id # Undefined
      /\ status' = [status EXCEPT ![id] = "done"]
      /\ UNCHANGED <<contract, stored, cache, storing, queue, faults, since,
                     caller>>
  BY DEF Update, HandlerStep, Loaded, Uploaded
<1>2. id \in Jobs
  BY <1>1, AtWork DEF JobIds
<1>3. /\ worker' \in [Workers -> WorkerState]
      /\ worker'[w].at = "complete"
      /\ worker'[w].message = worker[w].message
      /\ worker'[w].id = worker[w].id
      /\ worker'[w].contract = worker[w].contract
      /\ worker'[w].document = worker[w].document
      /\ \A v \in Workers \ {w} : worker'[v] = worker[v]
  BY <1>1, GotoTypes DEF IInv, Loaded
<1>4. status' \in [Jobs -> Statuses]
      /\ status'[id] = "done" /\ \A j \in Jobs \ {id} : status'[j] = status[j]
  BY <1>1, <1>2 DEF IInv, TypeOK, Statuses
<1>5. TypeOK'
  BY <1>1, <1>3, <1>4 DEF IInv, TypeOK
<1>6. HandlerOK(worker[w])
  BY DEF IInv
<1>7. \A v \in Workers : HandlerOK(worker[v])'
  <2>1. HandlerOK(worker[w])'
    BY <1>1, <1>3, <1>6, AtWork DEF HandlerOK
  <2>2. \A v \in Workers \ {w} : HandlerOK(worker[v])'
    BY <1>1, <1>3 DEF HandlerOK, IInv
  <2> QED BY <2>1, <2>2
<1>8. status[id] # "none"
  BY <1>1, <1>2, AtWork, UndefinedIsNoJob DEF IInv, MessagesHaveRows
<1>9. (\A c \in Callers : CallerOK(caller[c]))'
  BY <1>1, <1>4, CallerKinds DEF IInv, TypeOK, CallerOK
<1>10. MessagesHaveRows'
  BY <1>1, <1>4, QueueTypes DEF IInv, TypeOK, MessagesHaveRows, Message
<1>11. SinceOK' /\ CacheOK' /\ AnswersAreAsRequested'
  BY <1>1, <1>4, <1>8 DEF IInv, SinceOK, CacheOK, AnswersAreAsRequested
<1>12. DoneHasDocument'
  <2>1. stored[id] # NoDocument
    BY <1>1, <1>6 DEF HandlerOK
  <2> QED BY <1>1, <1>4, <2>1 DEF IInv, DoneHasDocument
<1> QED BY <1>5, <1>7, <1>9, <1>10, <1>11, <1>12 DEF IInv

\* The result cache takes a document, after the handler that made it went
\* on.
LEMMA StoreInCacheKeeps ==
    ASSUME IInv, StoreInCache
    PROVE  IInv'
<1> PICK d \in storing :
        /\ storing' = storing \ {d}
        /\ cache' \in {cache, [cache EXCEPT ![CacheKey(d)] = d]}
        /\ UNCHANGED <<status, stored, worker, contract, queue, faults, since,
                       caller>>
  BY DEF StoreInCache, HandlerStep
<1>1. d \in Documents /\ CacheKey(d) \in CacheKeys
  BY KeysOfDocuments DEF IInv, TypeOK
<1>2. TypeOK'
  BY <1>1 DEF IInv, TypeOK
<1>3. CacheOK'
  BY <1>1 DEF IInv, TypeOK, CacheOK
<1>4. \A w \in Workers : HandlerOK(worker[w])'
  BY DEF IInv, HandlerOK
<1>5. (\A c \in Callers : CallerOK(caller[c]))' /\ MessagesHaveRows'
      /\ SinceOK' /\ DoneHasDocument' /\ AnswersAreAsRequested'
  BY DEF IInv, CallerOK, MessagesHaveRows, SinceOK, DoneHasDocument,
         AnswersAreAsRequested
<1> QED BY <1>2, <1>3, <1>4, <1>5 DEF IInv

\* pg-boss gives up on a message whose handler runs too long.
LEMMA ExpireKeeps ==
    ASSUME IInv, NEW i \in DOMAIN queue, Expire(i)
    PROVE  IInv'
<1> DEFINE m == GiveBack(queue[i])
<1>1. m \in Message /\ m.job = queue[i].job /\ m.key = queue[i].key
  BY QueueTypes, MessageKept DEF IInv, TypeOK
<1>2. queue' = [queue EXCEPT ![i] = m]
      /\ UNCHANGED <<contract, since, status, caller, stored, cache, storing,
                     worker>>
  BY DEF Expire, apiVars, workerVars
<1> HIDE DEF m
<1>3. QueueKept /\ DOMAIN queue' = DOMAIN queue
  BY <1>1, <1>2, MessageReplaced DEF IInv
<1>4. faults' \in 0..MaxFaults
  BY FaultCounted DEF Expire, IInv
<1>5. TypeOK'
  BY <1>2, <1>3, <1>4 DEF IInv, TypeOK, QueueKept
<1>6. \A w \in Workers : HandlerOK(worker[w])'
  <2>1. \A p \in WorkerState : HandlerOK(p) => HandlerOK(p)'
    BY <1>2, <1>3, HandlersKept DEF IInv
  <2> QED BY <1>2, <2>1 DEF IInv, TypeOK
<1>7. MessagesHaveRows'
  BY <1>2, <1>3 DEF IInv, MessagesHaveRows, QueueKept
<1>8. (\A c \in Callers : CallerOK(caller[c]))'
      /\ SinceOK' /\ CacheOK' /\ DoneHasDocument' /\ AnswersAreAsRequested'
  BY <1>2 DEF IInv, CallerOK, SinceOK, CacheOK, DoneHasDocument,
              AnswersAreAsRequested
<1> QED BY <1>5, <1>6, <1>7, <1>8 DEF IInv

\* The worker process dies with its handlers and its cache.
LEMMA CrashKeeps ==
    ASSUME IInv, Crash
    PROVE  IInv'
<1>1. TypeOK'
  BY FaultCounted, IdleOK DEF Crash, apiVars, IInv, TypeOK
<1>2. \A w \in Workers : HandlerOK(worker[w])'
  BY IdleOK DEF Crash
<1>3. (\A c \in Callers : CallerOK(caller[c]))' /\ MessagesHaveRows'
      /\ SinceOK' /\ CacheOK' /\ DoneHasDocument' /\ AnswersAreAsRequested'
  BY DEF Crash, apiVars, IInv, CallerOK, MessagesHaveRows, SinceOK, CacheOK,
         DoneHasDocument, AnswersAreAsRequested
<1> QED BY <1>1, <1>2, <1>3 DEF IInv

\* The contract's answers change.
LEMMA EditKeeps ==
    ASSUME IInv, Edit
    PROVE  IInv'
<1>1. /\ contract' \in Documents
      /\ since' = [j \in Jobs |-> IF status[j] = "none" THEN {}
                                  ELSE since[j] \cup {contract'}]
      /\ UNCHANGED <<queue, faults, status, caller, stored, cache, storing,
                     worker>>
  BY DEF Edit, apiVars, workerVars
<1>2. TypeOK'
  BY <1>1 DEF IInv, TypeOK
<1>3. \A j \in Jobs : since[j] \subseteq since'[j]
  BY <1>1 DEF IInv, SinceOK
<1>4. \A w \in Workers : HandlerOK(worker[w])'
  <2>1. \A p \in WorkerState : HandlerOK(p) => HandlerOK(p)'
    BY <1>1, <1>3, SameQueue, HandlersKept DEF IInv
  <2> QED BY <1>1, <2>1 DEF IInv, TypeOK
<1>5. (\A c \in Callers : CallerOK(caller[c]))' /\ MessagesHaveRows'
      /\ SinceOK' /\ CacheOK' /\ DoneHasDocument' 
  BY <1>1 DEF IInv, CallerOK, MessagesHaveRows, SinceOK, CacheOK,
              DoneHasDocument
<1>6. AnswersAreAsRequested'
  BY <1>1, <1>3 DEF IInv, AnswersAreAsRequested
<1> QED BY <1>2, <1>4, <1>5, <1>6 DEF IInv

-----------------------------------------------------------------------------
(***************************************************************************)
(* The API.                                                                *)
(***************************************************************************)

\* A step that only moves rows on, and may add a message about a row.
LEMMA RowsMoved ==
    ASSUME IInv, TypeOK', QueueKept, MessagesHaveRows',
           UNCHANGED <<contract, stored, cache, storing, worker, since>>,
           \A j \in Jobs : /\ status'[j] = "none" <=> status[j] = "none"
                           /\ status'[j] = "done" => status[j] = "done",
           \A c \in Callers : CallerOK(caller[c])'
    PROVE  IInv'
<1>1. \A w \in Workers : HandlerOK(worker[w])'
  <2>1. \A p \in WorkerState : HandlerOK(p) => HandlerOK(p)'
    BY HandlersKept DEF IInv
  <2> QED BY <2>1 DEF IInv, TypeOK
<1>2. SinceOK' /\ CacheOK' /\ DoneHasDocument' /\ AnswersAreAsRequested'
  BY DEF IInv, SinceOK, CacheOK, DoneHasDocument, AnswersAreAsRequested
<1> QED BY <1>1, <1>2 DEF IInv

\* The other callers do not rely on the row of the one that moves.
LEMMA CallersKept ==
    ASSUME IInv, NEW c \in Callers,
           \A b \in Callers \ {c} : caller'[b] = caller[b],
           \A j \in Jobs : status[j] # "none" => status'[j] # "none",
           CallerOK(caller[c])'
    PROVE  \A b \in Callers : CallerOK(caller[b])'
BY CallerKinds DEF IInv, TypeOK, CallerOK

\* A message is about a job that has a row, and keeps being so.
LEMMA RowsOfMessages ==
    ASSUME IInv, UNCHANGED queue,
           \A j \in Jobs : status[j] # "none" => status'[j] # "none"
    PROVE  MessagesHaveRows'
BY QueueTypes DEF IInv, TypeOK, MessagesHaveRows, Message

\* A request inserts the rows of its jobs.
LEMMA RequestKeeps ==
    ASSUME IInv, NEW c \in Callers, Request(c)
    PROVE  IInv'
<1> PICK js \in SUBSET {j \in Jobs : status[j] = "none"} :
          /\ status' = [j \in Jobs |-> IF j \in js THEN "queued" ELSE status[j]]
          /\ since' = [j \in Jobs |-> IF j \in js THEN {contract} ELSE since[j]]
          /\ caller' = [caller EXCEPT ![c] = [at |-> "send", jobs |-> js]]
          /\ UNCHANGED <<contract, queue, faults, stored, cache, storing,
                         worker>>
  BY DEF Request, workerVars
<1>1. TypeOK'
  BY CallTypes DEF Call, IInv
<1>2. \A j \in js : j \in Jobs /\ since[j] = {} /\ stored[j] = NoDocument
  BY DEF IInv, SinceOK, AnswersAreAsRequested
<1>3. \A j \in Jobs : since[j] \subseteq since'[j]
  BY <1>2
<1>4. \A w \in Workers : HandlerOK(worker[w])'
  <2>1. \A p \in WorkerState : HandlerOK(p) => HandlerOK(p)'
    BY <1>3, SameQueue, HandlersKept DEF IInv
  <2> QED BY <2>1 DEF IInv, TypeOK
<1>5. /\ \A b \in Callers \ {c} : caller'[b] = caller[b]
      /\ caller'[c] = [at |-> "send", jobs |-> js]
  BY DEF IInv, TypeOK
<1>6. CallerOK(caller[c])'
  BY <1>5 DEF CallerOK
<1>7. \A b \in Callers : CallerOK(caller[b])'
  BY <1>5, <1>6, CallersKept
<1>8. MessagesHaveRows'
  BY RowsOfMessages
<1>9. SinceOK' /\ CacheOK' /\ DoneHasDocument'
  BY DEF IInv, SinceOK, CacheOK, DoneHasDocument
<1>10. AnswersAreAsRequested'
  BY <1>3 DEF IInv, AnswersAreAsRequested
<1> QED BY <1>1, <1>4, <1>7, <1>8, <1>9, <1>10 DEF IInv

\* A request sends the message of its next job.
LEMMA SendKeeps ==
    ASSUME IInv, NEW c \in Callers, Send(c)
    PROVE  IInv'
<1> PICK j \in caller[c].jobs :
          /\ Enqueue(j)
          /\ caller' = [caller EXCEPT ![c] = AfterSend(c, j)]
  BY DEF Send
<1>1. TypeOK'
  BY CallTypes DEF Call, IInv
<1>2. /\ caller[c].at = "send"
      /\ UNCHANGED <<contract, status, faults, since, stored, cache, storing,
                     worker>>
  BY DEF Send, workerVars
<1>3. caller[c].jobs \in SUBSET Jobs /\ CallerOK(caller[c])
  BY <1>2, CallerKinds DEF IInv, TypeOK
<1>4. status[j] # "none" /\ j \in Jobs
  BY <1>2, <1>3 DEF CallerOK
<1>5. QueueKept /\ MessagesHaveRows'
  BY <1>2, <1>4, SendMessage DEF IInv, TypeOK, QueueKept, MessagesHaveRows
<1>6. /\ \A b \in Callers \ {c} : caller'[b] = caller[b]
      /\ caller'[c] = AfterSend(c, j)
  BY DEF IInv, TypeOK
<1>7. CallerOK(caller[c])'
  BY <1>2, <1>3, <1>6, IdleOK DEF CallerOK, AfterSend
<1> QED BY <1>1, <1>2, <1>5, <1>6, <1>7, CallersKept, RowsMoved

\* The handlers that only move a row, or only the caller.
LEMMA RowOfCallerMoved ==
    ASSUME IInv, TypeOK', NEW c \in Callers, NEW q \in CallerState,
           caller' = [caller EXCEPT ![c] = q],
           CallerOK(q)',
           UNCHANGED <<contract, stored, cache, storing, worker, queue, since>>,
           \A j \in Jobs : /\ status'[j] = "none" <=> status[j] = "none"
                           /\ status'[j] = "done" => status[j] = "done"
    PROVE  IInv'
<1>1. /\ caller'[c] = q
      /\ \A b \in Callers \ {c} : caller'[b] = caller[b]
  BY DEF IInv, TypeOK
<1>2. CallerOK(caller[c])'
  BY <1>1
<1>3. QueueKept
  BY SameQueue DEF IInv
<1> QED BY <1>1, <1>2, <1>3, CallersKept, RowsOfMessages, RowsMoved

\* Requests that read or write rows of failed jobs, or whose send fails.
LEMMA RowActionsKeep ==
    ASSUME IInv, NEW c \in Callers,
           \/ SendFails(c) \/ ReadFailed(c) \/ WriteRetry(c) \/ WriteArchive(c)
    PROVE  IInv'
<1>1. TypeOK'
  BY CallTypes DEF Call, IInv
<1>2. CASE SendFails(c)
  BY <1>1, <1>2, IdleOK, RowOfCallerMoved DEF SendFails, workerVars
<1>3. CASE ReadFailed(c)
  <2> PICK j \in Jobs, at \in {"retry", "archive"} :
            /\ status[j] = "failed"
            /\ caller' = [caller EXCEPT ![c] = [at |-> at, job |-> j]]
            /\ UNCHANGED <<contract, status, queue, faults, since, stored,
                           cache, storing, worker>>
    BY <1>3 DEF ReadFailed, workerVars
  <2>1. [at |-> at, job |-> j] \in CallerState
    BY DEF CallerState
  <2>2. CallerOK([at |-> at, job |-> j])'
    BY DEF CallerOK
  <2> QED BY <1>1, <2>1, <2>2, RowOfCallerMoved
<1>4. ASSUME NEW at \in {"retry", "archive"}, caller[c].at = at,
             NEW new \in {"queued", "archived"},
             status' = [status EXCEPT ![caller[c].job] = new]
      PROVE  /\ caller[c].job \in Jobs
             /\ status'[caller[c].job] # "none"
             /\ \A j \in Jobs : /\ status'[j] = "none" <=> status[j] = "none"
                                /\ status'[j] = "done" => status[j] = "done"
  <2>1. caller[c].job \in Jobs /\ CallerOK(caller[c])
    BY <1>4, CallerKinds DEF IInv, TypeOK
  <2>2. status[caller[c].job] # "none"
    BY <1>4, <2>1 DEF CallerOK
  <2> QED BY <1>4, <2>1, <2>2 DEF IInv, TypeOK
<1>5. CASE WriteRetry(c)
  <2> DEFINE q == [at |-> "send", jobs |-> {caller[c].job}]
  <2>1. /\ caller[c].at = "retry"
        /\ status' = [status EXCEPT ![caller[c].job] = "queued"]
        /\ caller' = [caller EXCEPT ![c] = q]
        /\ UNCHANGED <<contract, queue, faults, since, stored, cache, storing,
                       worker>>
    BY <1>5 DEF WriteRetry, workerVars
  <2>2. /\ caller[c].job \in Jobs
        /\ status'[caller[c].job] # "none"
        /\ \A j \in Jobs : /\ status'[j] = "none" <=> status[j] = "none"
                           /\ status'[j] = "done" => status[j] = "done"
    BY <1>4, <2>1
  <2>3. q \in CallerState
    BY <2>2 DEF CallerState
  <2>4. caller'[c] = q
    BY <2>1 DEF IInv, TypeOK
  <2>5. CallerOK(caller[c])'
    BY <2>2, <2>4 DEF CallerOK
  <2>6. \A b \in Callers \ {c} : caller'[b] = caller[b]
    BY <2>1 DEF IInv, TypeOK
  <2> QED BY <1>1, <2>1, <2>2, <2>5, <2>6, SameQueue, CallersKept,
             RowsOfMessages, RowsMoved DEF IInv
<1>6. CASE WriteArchive(c)
  <2>1. /\ caller[c].at = "archive"
        /\ status' = [status EXCEPT ![caller[c].job] = "archived"]
        /\ caller' = [caller EXCEPT ![c] = Idle]
        /\ UNCHANGED <<contract, queue, faults, since, stored, cache, storing,
                       worker>>
    BY <1>6 DEF WriteArchive, workerVars
  <2>2. \A j \in Jobs : /\ status'[j] = "none" <=> status[j] = "none"
                        /\ status'[j] = "done" => status[j] = "done"
    BY <1>4, <2>1
  <2> QED BY <1>1, <2>1, <2>2, IdleOK, RowOfCallerMoved
<1> QED BY <1>2, <1>3, <1>5, <1>6

\* An operator marks a job as failed.
LEMMA MarkFailedKeeps ==
    ASSUME IInv, NEW j \in Jobs, MarkFailed(j)
    PROVE  IInv'
<1>1. /\ status[j] = "queued" /\ status' = [status EXCEPT ![j] = "failed"]
      /\ UNCHANGED <<contract, queue, caller, faults, since, stored, cache,
                     storing, worker>>
  BY DEF MarkFailed, workerVars
<1>2. TypeOK'
  BY <1>1 DEF IInv, TypeOK, Statuses
<1>3. \A k \in Jobs : /\ status'[k] = "none" <=> status[k] = "none"
                      /\ status'[k] = "done" => status[k] = "done"
  BY <1>1 DEF IInv, TypeOK
<1>4. \A c \in Callers : CallerOK(caller[c])'
  BY <1>1, <1>3, CallerKinds DEF IInv, TypeOK, CallerOK
<1> QED BY <1>1, <1>2, <1>3, <1>4, SameQueue, RowsOfMessages, RowsMoved
        DEF IInv

-----------------------------------------------------------------------------
(***************************************************************************)
(* The invariants of every behaviour.                                      *)
(***************************************************************************)

\* The invariant holds at the start.
LEMMA InitKeeps == Init => IInv
<1> SUFFICES ASSUME Init PROVE IInv
  OBVIOUS
<1>1. TypeOK
  <2>1. queue \in Seq(Message)
    BY EmptySeq DEF Init
  <2>2. faults \in 0..MaxFaults
    BY LimitsAreNat DEF Init
  <2> QED BY <2>1, <2>2, IdleOK DEF Init, TypeOK, Statuses
<1>2. (\A w \in Workers : HandlerOK(worker[w]))
      /\ (\A c \in Callers : CallerOK(caller[c]))
  BY IdleOK DEF Init
<1>3. MessagesHaveRows
  BY DEF Init, MessagesHaveRows
<1>4. SinceOK /\ CacheOK /\ DoneHasDocument
  BY DEF Init, SinceOK, CacheOK, DoneHasDocument
<1>5. AnswersAreAsRequested
  BY DEF Init, AnswersAreAsRequested, JobIds
<1> QED BY <1>1, <1>2, <1>3, <1>4, <1>5 DEF IInv

\* Every step keeps the invariant.
LEMMA NextKeeps == IInv /\ [Next]_vars => IInv'
<1> SUFFICES ASSUME IInv, [Next]_vars PROVE IInv'
  OBVIOUS
<1>1. CASE UNCHANGED vars
  BY <1>1 DEF vars, IInv, TypeOK, HandlerOK, CallerOK, MessagesHaveRows,
              SinceOK, CacheOK, DoneHasDocument, AnswersAreAsRequested
<1>2. ASSUME NEW c \in Callers, Call(c) PROVE IInv'
  BY <1>2, RequestKeeps, SendKeeps, RowActionsKeep DEF Call
<1>3. ASSUME NEW w \in Workers, Fetch(w) \/ Handle(w) PROVE IInv'
  BY <1>3, FetchKeeps, LoadKeeps, LookupHitKeeps, LookupMissKeeps, RenderKeeps,
     UploadKeeps, UpdateKeeps, CompleteKeeps, FallBackKeeps, ThrowKeeps
     DEF Handle
<1> QED BY <1>1, <1>2, <1>3, MarkFailedKeeps, ExpireKeeps, StoreInCacheKeeps,
           CrashKeeps, EditKeeps DEF Next

\* The invariant holds in every reachable state.
THEOREM Invariance == Spec => []IInv
BY InitKeeps, NextKeeps, PTL DEF Spec

\* Rows, objects, messages, requests and handlers have their types, with any
\* number of faults (modules/export, export-handler.ts).
THEOREM TypeCorrect == Spec => []TypeOK
<1>1. IInv => TypeOK
  BY DEF IInv
<1> QED BY <1>1, Invariance, PTL

\* A job that is done has its document, whichever handler of it updated the
\* row, after any retries, slow handlers and crashes (export-handler.ts).
THEOREM DocumentsExist == Spec => []DoneHasDocument
<1>1. IInv => DoneHasDocument
  BY DEF IInv
<1> QED BY <1>1, Invariance, PTL

\* A document shows answers of the time since its job was requested, also
\* when another job put it into the cache (export-handler.ts, export-cache.ts).
THEOREM AnswersCorrect == Spec => []AnswersAreAsRequested
<1>1. IInv => AnswersAreAsRequested
  BY DEF IInv
<1> QED BY <1>1, Invariance, PTL

-----------------------------------------------------------------------------
(***************************************************************************)
(* Queued jobs are pending as long as the retries suffice.                 *)
(***************************************************************************)

\* A message that is not touched keeps the account of its attempts, if its
\* handler runs on or a fault was counted.
LEMMA AttemptsKept ==
    ASSUME IInv, NEW i \in DOMAIN queue, AttemptsOK(i), queue'[i] = queue[i],
           faults' \in 0..MaxFaults,
           \/ faults' = faults /\ (HandlerRuns(i) => HandlerRuns(i)')
           \/ faults' = faults /\ queue[i].state # "active"
           \/ faults' = faults + 1
    PROVE  AttemptsOK(i)'
<1>1. queue[i].tries \in Nat /\ faults \in Nat
  BY QueueTypes DEF IInv, TypeOK, Message
<1> QED BY <1>1 DEF AttemptsOK

\* The account of a message that is given back or taken, and of a new one.
LEMMA AttemptsMoved ==
    ASSUME IInv, NEW i \in DOMAIN queue, AttemptsOK(i), faults' \in 0..MaxFaults,
           \/ /\ queue'[i] = GiveBack(queue[i])
              /\ queue[i].state = "active"
              /\ \/ faults' = faults + 1
                 \/ faults' = faults /\ ~HandlerRuns(i)
           \/ /\ queue'[i] = Attempted(queue[i])
              /\ queue[i].state \in {"created", "retry"}
              /\ HandlerRuns(i)' /\ faults' = faults
    PROVE  AttemptsOK(i)'
<1>1. queue[i] \in Message /\ queue[i].tries \in Nat /\ faults \in Nat
  BY QueueTypes DEF IInv, TypeOK, Message
<1>2. CASE queue'[i] = GiveBack(queue[i])
           /\ queue[i].state = "active"
           /\ \/ faults' = faults + 1
              \/ faults' = faults /\ ~HandlerRuns(i)
  <2>1. queue'[i].tries = queue[i].tries /\ queue'[i].state # "active"
    BY <1>1, <1>2, MessageKept
  <2>2. queue[i].tries < faults'
    BY <1>1, <1>2 DEF AttemptsOK
  <2> QED BY <1>1, <2>1, <2>2 DEF AttemptsOK
<1>3. CASE queue'[i] = Attempted(queue[i])
           /\ queue[i].state \in {"created", "retry"}
           /\ HandlerRuns(i)' /\ faults' = faults
  <2>1. /\ Attempted(queue[i]).state = "active"
        /\ Attempted(queue[i]).tries = IF queue[i].state = "retry"
                                       THEN queue[i].tries + 1
                                       ELSE queue[i].tries
    BY ONLY <1>1, MessageKept
  <2>2. queue'[i].state = "active" /\ queue'[i].tries <= faults
    <3>1. CASE queue[i].state = "retry"
      BY <1>1, <1>3, <2>1, <3>1 DEF AttemptsOK
    <3>2. CASE queue[i].state # "retry"
      BY <1>1, <1>3, <2>1, <3>2 DEF AttemptsOK
    <3> QED BY <3>1, <3>2
  <2> QED BY <1>3, <2>2 DEF AttemptsOK
<1> QED BY <1>2, <1>3

\* While the retries suffice, a message is given back for another attempt.
LEMMA GivenBackForRetry ==
    ASSUME RetriesSuffice, IInv, NEW i \in DOMAIN queue, AttemptsOK(i),
           queue[i].state = "active",
           \/ faults < MaxFaults
           \/ ~HandlerRuns(i)
    PROVE  GiveBack(queue[i]).state = "retry"
<1>1. queue[i] \in Message /\ queue[i].tries \in Nat /\ faults \in 0..MaxFaults
  BY QueueTypes DEF IInv, TypeOK, Message
<1>2. queue[i].tries < RetryLimit
  BY <1>1, LimitsAreNat DEF AttemptsOK, RetriesSuffice
<1> QED BY <1>1, <1>2, MessageKept

\* A handler knows the id of its job while the retries suffice.
LEMMA IdsAreRead ==
    ASSUME RetriesSuffice, IInv, NEW w \in Workers, worker[w].at # "idle"
    PROVE  worker[w].id # Undefined
           /\ worker[w].id = queue[worker[w].message].job
BY AtWork DEF RetriesSuffice, Message

\* Queued jobs stay pending in a step that queues none, ends no sending, and
\* keeps every message that will be handled.
LEMMA PendingKept ==
    ASSUME QueuedOK, DOMAIN queue \subseteq DOMAIN queue',
           \A j \in Jobs : status'[j] = "queued" => status[j] = "queued",
           \A j \in Jobs : BeingSent(j) => BeingSent(j)',
           \A i \in DOMAIN queue :
              /\ queue'[i].job = queue[i].job
              /\ WillBeHandled(i) => WillBeHandled(i)'
    PROVE  QueuedOK'
<1> SUFFICES ASSUME NEW j \in Jobs, status'[j] = "queued"
             PROVE  \/ BeingSent(j)'
                    \/ \E i \in DOMAIN queue' :
                          queue'[i].job = j /\ WillBeHandled(i)'
  BY DEF QueuedOK
<1>1. CASE BeingSent(j)
  BY <1>1
<1>2. CASE \E i \in DOMAIN queue : queue[i].job = j /\ WillBeHandled(i)
  BY <1>2
<1> QED BY <1>1, <1>2 DEF QueuedOK

\* Messages will still be handled when no other handler is about to complete.
LEMMA StillHandled ==
    ASSUME NEW i, WillBeHandled(i),
           queue'[i].state \in {"created", "retry", "active"},
           \A w \in Workers : worker'[w].at = "complete" =>
              /\ worker[w].at = "complete"
              /\ worker'[w].message = worker[w].message
    PROVE  WillBeHandled(i)'
BY DEF WillBeHandled

\* The steps of a handler that leave the queue and the rows alone.
LEMMA HandlerStepPends ==
    ASSUME PInv, IInv', NEW w \in Workers,
           worker[w].at \notin {"idle", "complete"},
           worker'[w].at # "complete", worker'[w] # Idle,
           worker'[w].message = worker[w].message,
           \A v \in Workers \ {w} : worker'[v] = worker[v],
           faults' = faults \/ faults' = faults + 1,
           UNCHANGED <<status, queue, caller>>
    PROVE  PInv'
<1>1. \A i \in DOMAIN queue : HandlerRuns(i) => HandlerRuns(i)'
  BY DEF HandlerRuns
<1>2. faults' \in 0..MaxFaults
  BY DEF IInv, TypeOK
<1>3. \A i \in DOMAIN queue : AttemptsOK(i)'
  BY <1>1, <1>2, AttemptsKept DEF PInv
<1>4. \A j \in Jobs : BeingSent(j) => BeingSent(j)'
  BY DEF BeingSent
<1>5. \A i \in DOMAIN queue : WillBeHandled(i) => WillBeHandled(i)'
  BY StillHandled DEF WillBeHandled
<1>6. QueuedOK'
  BY <1>4, <1>5, PendingKept DEF PInv
<1> QED BY <1>3, <1>6 DEF PInv

\* A step inside a handler leaves every job what it had pending.
LEMMA HandlerGoesOnPends ==
    ASSUME PInv, IInv', NEW w \in Workers,
           \/ Load(w) \/ LookupHit(w) \/ LookupMiss(w) \/ Render(w)
           \/ Upload(w) \/ FallBack(w)
    PROVE  PInv'
<1>1. /\ worker[w].at \notin {"idle", "complete"}
      /\ faults' = faults \/ faults' = faults + 1
      /\ UNCHANGED <<status, queue, caller>>
  BY DEF Load, LookupHit, LookupMiss, Render, Upload, FallBack, HandlerStep
<1>2. ASSUME NEW at \in Loaded \ {"complete"}, Goto(w, at),
             worker[w].at \in Loaded
      PROVE  PInv'
  BY <1>1, <1>2, GotoTypes, IdleOK, HandlerStepPends DEF PInv, IInv, Loaded
<1>3. ASSUME NEW at \in Loaded \ {"complete"}, NEW d \in Documents,
             worker' = [worker EXCEPT ![w].at = at, ![w].document = d],
             worker[w].at \in Loaded
      PROVE  PInv'
  BY <1>1, <1>3, DocumentTypes, IdleOK, HandlerStepPends
     DEF PInv, IInv, Loaded
<1>4. CASE Load(w)
  <2>1. /\ worker'[w].at = "lookup"
        /\ worker'[w].message = worker[w].message
        /\ \A v \in Workers \ {w} : worker'[v] = worker[v]
    BY <1>4 DEF PInv, IInv, TypeOK, Load
  <2> QED BY <1>1, <2>1, IdleOK, HandlerStepPends
<1>5. CASE LookupHit(w)
  <2>1. worker[w].contract \in Documents
    BY <1>5, HandlerKinds DEF LookupHit, PInv, IInv, TypeOK, Loaded
  <2>2. cache[CacheKey(worker[w].contract)] \in Documents
    BY <1>5, <2>1, KeysOfDocuments DEF LookupHit, PInv, IInv, TypeOK
  <2> QED BY <1>3, <1>5, <2>2 DEF LookupHit, Loaded
<1>6. CASE LookupMiss(w) \/ FallBack(w) \/ Upload(w)
  BY <1>2, <1>6 DEF LookupMiss, FallBack, Upload, Loaded
<1>7. CASE Render(w)
  <2>1. worker[w].contract \in Documents
    BY <1>7, HandlerKinds DEF Render, PInv, IInv, TypeOK, Loaded
  <2> QED BY <1>3, <1>7, <2>1 DEF Render, Loaded
<1> QED BY <1>4, <1>5, <1>6, <1>7

\* A handler that wrote the row leaves no queued job behind.
LEMMA UpdatePends ==
    ASSUME RetriesSuffice, PInv, IInv', NEW w \in Workers, Update(w)
    PROVE  PInv'
<1>1. /\ worker[w].at \in Loaded \ {"complete"} /\ worker[w].at # "idle"
      /\ Goto(w, "complete")
      /\ status' = [status EXCEPT ![worker[w].id] = "done"]
      /\ UNCHANGED <<queue, faults, caller>>
  BY DEF Update, HandlerStep, Loaded
<1>2. /\ worker'[w].at = "complete" /\ worker'[w] # Idle
      /\ worker'[w].message = worker[w].message
      /\ \A v \in Workers \ {w} : worker'[v] = worker[v]
  BY <1>1, GotoTypes, IdleOK DEF PInv, IInv, Loaded
<1>3. /\ worker[w].id = queue[worker[w].message].job
      /\ worker[w].message \in DOMAIN queue /\ worker[w].id \in JobIds
      /\ worker[w].id # Undefined
  BY <1>1, AtWork, IdsAreRead DEF PInv
<1>4. status'[worker[w].id] = "done"
      /\ \A j \in Jobs \ {worker[w].id} : status'[j] = status[j]
  BY <1>1, <1>3 DEF PInv, IInv, TypeOK, JobIds
<1>5. \A i \in DOMAIN queue : HandlerRuns(i) => HandlerRuns(i)'
  BY <1>2 DEF HandlerRuns
<1>6. \A i \in DOMAIN queue : AttemptsOK(i)'
  BY <1>1, <1>5, AttemptsKept DEF PInv, IInv, TypeOK
<1>7. \A i \in DOMAIN queue \ {worker[w].message} :
          WillBeHandled(i) => WillBeHandled(i)'
  BY <1>1, <1>2 DEF WillBeHandled
<1>8. QueuedOK'
  <2> SUFFICES ASSUME NEW j \in Jobs, status'[j] = "queued", ~BeingSent(j)'
               PROVE  \E i \in DOMAIN queue' :
                          queue'[i].job = j /\ WillBeHandled(i)'
    BY DEF QueuedOK
  <2>1. j # worker[w].id /\ status[j] = "queued" /\ ~BeingSent(j)
    BY <1>1, <1>4 DEF BeingSent
  <2>2. PICK i \in DOMAIN queue : queue[i].job = j /\ WillBeHandled(i)
    BY <2>1 DEF PInv, QueuedOK
  <2>3. i # worker[w].message
    BY <1>3, <2>1, <2>2
  <2> QED BY <1>1, <1>7, <2>2, <2>3
<1> QED BY <1>1, <1>6, <1>8 DEF PInv

\* A handler ends: whatever happens to its own message, the others will be
\* handled, and so will its own if it is given back.
LEMMA HandlerEndPends ==
    ASSUME PInv, IInv', NEW w \in Workers, worker[w].at # "idle",
           worker' = [worker EXCEPT ![w] = Idle],
           DOMAIN queue' = DOMAIN queue,
           \A k \in DOMAIN queue :
              /\ queue'[k].job = queue[k].job
              /\ k # worker[w].message => queue'[k] = queue[k],
           NEW i \in DOMAIN queue, i = worker[w].message, AttemptsOK(i)',
           \/ queue'[i].state \in {"created", "retry", "active"}
           \/ ~WillBeHandled(i),
           faults' = faults \/ faults' = faults + 1,
           UNCHANGED <<status, caller>>
    PROVE  PInv'
<1>1. /\ worker'[w] = Idle /\ \A v \in Workers \ {w} : worker'[v] = worker[v]
  BY DEF PInv, IInv, TypeOK
<1>2. \A k \in DOMAIN queue \ {i} : HandlerRuns(k) => HandlerRuns(k)'
  BY <1>1 DEF HandlerRuns
<1>3. faults' \in 0..MaxFaults
  BY DEF IInv, TypeOK
<1>4. \A k \in DOMAIN queue : AttemptsOK(k)'
  <2> SUFFICES ASSUME NEW k \in DOMAIN queue \ {i}
               PROVE  AttemptsOK(k)'
    OBVIOUS
  <2>1. queue'[k] = queue[k] /\ (HandlerRuns(k) => HandlerRuns(k)')
    BY <1>2
  <2>2. AttemptsOK(k)
    BY DEF PInv
  <2> QED BY <1>3, <2>1, <2>2, AttemptsKept DEF PInv
<1>5. \A v \in Workers : worker'[v].at = "complete" =>
         /\ worker[v].at = "complete"
         /\ worker'[v].message = worker[v].message
  BY <1>1, IdleOK
<1>6. \A k \in DOMAIN queue : WillBeHandled(k) => WillBeHandled(k)'
  <2> SUFFICES ASSUME NEW k \in DOMAIN queue, WillBeHandled(k)
               PROVE  WillBeHandled(k)'
    OBVIOUS
  <2>1. queue'[k].state \in {"created", "retry", "active"}
    BY DEF WillBeHandled
  <2> QED BY <1>5, <2>1, StillHandled
<1>7. \A j \in Jobs : BeingSent(j) => BeingSent(j)'
  BY DEF BeingSent
<1>8. QueuedOK'
  BY <1>6, <1>7, PendingKept DEF PInv
<1> QED BY <1>4, <1>8 DEF PInv

\* A settled message is not what a queued job waits for.
LEMMA CompletePends ==
    ASSUME PInv, IInv', NEW w \in Workers, Complete(w)
    PROVE  PInv'
<1> PICK i \in DOMAIN queue : i = worker[w].message
  BY AtWork DEF Complete, PInv
<1> DEFINE m == [queue[i] EXCEPT !.state = "completed"]
<1>1. /\ worker[w].at = "complete" /\ worker' = [worker EXCEPT ![w] = Idle]
      /\ queue' = IF queue[i].state = "active"
                  THEN [queue EXCEPT ![i].state = "completed"] ELSE queue
      /\ UNCHANGED <<status, faults, caller>>
  BY DEF Complete
<1>2. queue[i] \in Message /\ queue \in Seq(Message)
  BY QueueTypes DEF PInv, IInv, TypeOK
<1>3. /\ m \in Message /\ m.job = queue[i].job /\ m.state = "completed"
      /\ m.tries = queue[i].tries
  BY <1>2, MessageKept DEF Message
<1>4. queue' = IF queue[i].state = "active"
               THEN [queue EXCEPT ![i] = m] ELSE queue
  BY <1>1, <1>2
<1> HIDE DEF m
<1>5. /\ DOMAIN queue' = DOMAIN queue
      /\ \A k \in DOMAIN queue \ {i} : queue'[k] = queue[k]
      /\ queue'[i] = IF queue[i].state = "active" THEN m ELSE queue[i]
  BY <1>2, <1>3, <1>4, ReplaceMessage
<1>6. AttemptsOK(i)'
  <2>1. AttemptsOK(i)
    BY DEF PInv
  <2>2. CASE queue[i].state = "active"
    BY <1>1, <1>3, <1>5, <2>1, <2>2 DEF AttemptsOK
  <2>3. CASE queue[i].state # "active"
    BY <1>1, <1>5, <2>1, <2>3 DEF AttemptsOK
  <2> QED BY <2>2, <2>3
<1>7. ~WillBeHandled(i)
  BY <1>1 DEF WillBeHandled
<1> QED BY <1>1, <1>3, <1>5, <1>6, <1>7, HandlerEndPends

\* A failed handler leaves a retry to a queued job.
LEMMA ThrowPends ==
    ASSUME RetriesSuffice, PInv, IInv', NEW w \in Workers, Throw(w)
    PROVE  PInv'
<1>1. worker[w].at # "idle" /\ worker[w].at # "complete"
  BY DEF Throw
<1>2. worker[w].id # Undefined
  BY <1>1, IdsAreRead DEF PInv
<1> PICK i \in DOMAIN queue : i = worker[w].message
  BY <1>1, AtWork DEF PInv
<1> DEFINE m == GiveBack(queue[i])
<1>3. /\ worker' = [worker EXCEPT ![w] = Idle]
      /\ faults < MaxFaults /\ faults' = faults + 1
      /\ UNCHANGED <<status, caller>>
  BY <1>2 DEF Throw
<1>4. queue[i] \in Message /\ queue \in Seq(Message)
  BY QueueTypes DEF PInv, IInv, TypeOK
<1>5. m \in Message /\ m.job = queue[i].job
  BY <1>4, MessageKept
<1>6. queue' = IF queue[i].state = "active"
               THEN [queue EXCEPT ![i] = m] ELSE queue
  BY <1>4 DEF Throw
<1> HIDE DEF m
<1>7. /\ DOMAIN queue' = DOMAIN queue
      /\ \A k \in DOMAIN queue \ {i} : queue'[k] = queue[k]
      /\ queue'[i] = IF queue[i].state = "active" THEN m ELSE queue[i]
  BY <1>4, <1>5, <1>6, ReplaceMessage
<1>8. AttemptsOK(i)' /\ (\/ queue'[i].state \in {"created", "retry", "active"}
                         \/ ~WillBeHandled(i))
  <2>1. AttemptsOK(i) /\ faults' \in 0..MaxFaults
    BY DEF PInv, IInv, TypeOK
  <2>2. CASE queue[i].state = "active"
    <3>1. m.state = "retry"
      BY <1>3, <2>1, <2>2, GivenBackForRetry DEF PInv, m
    <3>2. queue'[i] = GiveBack(queue[i])
      BY <1>7, <2>2 DEF m
    <3>3. AttemptsOK(i)'
      BY <1>3, <2>1, <2>2, <3>2, AttemptsMoved DEF PInv
    <3> QED BY <3>1, <3>2, <3>3 DEF m
  <2>3. CASE queue[i].state # "active"
    <3>1. AttemptsOK(i)'
      BY <1>3, <1>7, <2>1, <2>3, AttemptsKept DEF PInv
    <3> QED BY <1>7, <2>3, <3>1 DEF WillBeHandled
  <2> QED BY <2>2, <2>3
<1> QED BY <1>1, <1>3, <1>5, <1>7, <1>8, HandlerEndPends

\* The job of a taken message has a handler instead.
LEMMA FetchPends ==
    ASSUME PInv, IInv', NEW w \in Workers, Fetch(w)
    PROVE  PInv'
<1> PICK i \in DOMAIN queue :
          /\ worker[w] = Idle
          /\ queue[i].state \in {"created", "retry"}
          /\ queue' = [queue EXCEPT ![i] = Attempted(@)]
          /\ worker' = [worker EXCEPT ![w] =
                [at |-> "load", message |-> i,
                 id |-> IF queue[i].key = "exportJobId"
                        THEN queue[i].job ELSE Undefined]]
          /\ UNCHANGED <<status, faults, caller>>
  BY DEF Fetch, apiVars
<1> DEFINE m == Attempted(queue[i])
<1>1. queue[i] \in Message /\ queue \in Seq(Message)
  BY QueueTypes DEF PInv, IInv, TypeOK
<1>2. m \in Message /\ m.job = queue[i].job /\ m.state = "active"
  BY <1>1, MessageKept
<1>3. queue' = [queue EXCEPT ![i] = m]
  OBVIOUS
<1> HIDE DEF m
<1>4. /\ DOMAIN queue' = DOMAIN queue /\ queue'[i] = m
      /\ \A k \in DOMAIN queue \ {i} : queue'[k] = queue[k]
  BY <1>1, <1>2, <1>3, ReplaceMessage
<1>5. /\ worker'[w].at = "load" /\ worker'[w].message = i
      /\ \A v \in Workers \ {w} : worker'[v] = worker[v]
  BY DEF PInv, IInv, TypeOK
<1>6. \A k \in DOMAIN queue : HandlerRuns(k) => HandlerRuns(k)'
  BY <1>5, IdleOK DEF HandlerRuns
<1>7. HandlerRuns(i)'
  BY <1>5, IdleOK DEF HandlerRuns
<1>8. \A k \in DOMAIN queue : AttemptsOK(k)'
  <2>1. AttemptsOK(i)'
    BY <1>4, <1>7, AttemptsMoved DEF PInv, IInv, TypeOK, m
  <2>2. \A k \in DOMAIN queue \ {i} : AttemptsOK(k)'
    BY <1>4, <1>6, AttemptsKept DEF PInv, IInv, TypeOK
  <2> QED BY <2>1, <2>2
<1>9. \A v \in Workers : worker'[v].at = "complete" =>
         /\ worker[v].at = "complete"
         /\ worker'[v].message = worker[v].message
  BY <1>5
<1>10. \A k \in DOMAIN queue : WillBeHandled(k) => WillBeHandled(k)'
  <2> SUFFICES ASSUME NEW k \in DOMAIN queue, WillBeHandled(k)
               PROVE  WillBeHandled(k)'
    OBVIOUS
  <2>1. queue'[k].state \in {"created", "retry", "active"}
    BY <1>2, <1>4 DEF WillBeHandled
  <2> QED BY <1>9, <2>1, StillHandled
<1>11. \A j \in Jobs : BeingSent(j) => BeingSent(j)'
  BY DEF BeingSent
<1>12. QueuedOK'
  BY <1>2, <1>4, <1>10, <1>11, PendingKept DEF PInv
<1> QED BY <1>4, <1>8, <1>12 DEF PInv

\* An expired message is tried again.
LEMMA ExpirePends ==
    ASSUME RetriesSuffice, PInv, IInv', NEW i \in DOMAIN queue, Expire(i)
    PROVE  PInv'
<1> DEFINE m == GiveBack(queue[i])
<1>1. queue[i] \in Message /\ queue \in Seq(Message)
  BY QueueTypes DEF PInv, IInv, TypeOK
<1>2. m \in Message /\ m.job = queue[i].job
  BY <1>1, MessageKept
<1>3. /\ queue[i].state = "active" /\ queue' = [queue EXCEPT ![i] = m]
      /\ HandlerRuns(i) => faults < MaxFaults
      /\ faults' = IF HandlerRuns(i) THEN faults + 1 ELSE faults
      /\ UNCHANGED <<status, caller, worker>>
  BY DEF Expire, apiVars, workerVars
<1>4. m.state = "retry"
  BY <1>3, GivenBackForRetry DEF PInv
<1> HIDE DEF m
<1>5. /\ DOMAIN queue' = DOMAIN queue /\ queue'[i] = m
      /\ \A k \in DOMAIN queue \ {i} : queue'[k] = queue[k]
  BY <1>1, <1>2, <1>3, ReplaceMessage
<1>6. faults' \in 0..MaxFaults
  BY DEF IInv, TypeOK
<1>7. \A k \in DOMAIN queue : AttemptsOK(k)'
  <2>1. AttemptsOK(i)'
    BY <1>3, <1>5, <1>6, AttemptsMoved DEF PInv, m
  <2>2. \A k \in DOMAIN queue : HandlerRuns(k) => HandlerRuns(k)'
    BY <1>3 DEF HandlerRuns
  <2>3. \A k \in DOMAIN queue \ {i} : AttemptsOK(k)'
    BY <1>3, <1>5, <1>6, <2>2, AttemptsKept DEF PInv
  <2> QED BY <2>1, <2>3
<1>8. \A k \in DOMAIN queue : WillBeHandled(k) => WillBeHandled(k)'
  BY <1>3, <1>4, <1>5 DEF WillBeHandled
<1>9. \A j \in Jobs : BeingSent(j) => BeingSent(j)'
  BY <1>3 DEF BeingSent
<1>10. QueuedOK'
  BY <1>2, <1>3, <1>5, <1>8, <1>9, PendingKept DEF PInv
<1> QED BY <1>5, <1>7, <1>10 DEF PInv

\* Steps that leave the queue alone and let no handler begin to complete.
LEMMA QueueUntouchedPends ==
    ASSUME PInv, IInv', UNCHANGED queue,
           \/ UNCHANGED <<worker, faults>>
           \/ faults' = faults + 1 /\ worker' = [w \in Workers |-> Idle],
           QueuedOK'
    PROVE  PInv'
<1>1. \A i \in DOMAIN queue : AttemptsOK(i)'
  <2>1. CASE UNCHANGED <<worker, faults>>
    BY <2>1 DEF PInv, AttemptsOK, HandlerRuns
  <2>2. CASE faults' = faults + 1
    BY <2>2, AttemptsKept DEF PInv, IInv, TypeOK
  <2> QED BY <2>1, <2>2
<1> QED BY <1>1 DEF PInv

\* The actions that neither queue a row nor send for one.
LEMMA OthersPend ==
    ASSUME PInv, IInv',
           StoreInCache \/ Crash \/ Edit \/ \E j \in Jobs : MarkFailed(j)
    PROVE  PInv'
<1>1. /\ UNCHANGED <<queue, caller>>
      /\ \A j \in Jobs : status'[j] = "queued" => status[j] = "queued"
      /\ \/ UNCHANGED <<worker, faults>>
         \/ faults' = faults + 1 /\ worker' = [w \in Workers |-> Idle]
  BY DEF StoreInCache, HandlerStep, Crash, Edit, MarkFailed, apiVars,
         workerVars, PInv, IInv, TypeOK
<1>2. \A j \in Jobs : BeingSent(j) => BeingSent(j)'
  BY <1>1 DEF BeingSent
<1>3. \A i \in DOMAIN queue : WillBeHandled(i) => WillBeHandled(i)'
  BY <1>1, IdleOK DEF WillBeHandled
<1>4. QueuedOK'
  BY <1>1, <1>2, <1>3, PendingKept DEF PInv
<1> QED BY <1>1, <1>4, QueueUntouchedPends

\* A request, or the retry of an operator, queues the rows it will send for.
LEMMA RowsQueuedPend ==
    ASSUME PInv, IInv', NEW c \in Callers, caller[c].at # "send",
           UNCHANGED <<queue, worker, faults>>,
           \A b \in Callers \ {c} : caller'[b] = caller[b],
           \A j \in Jobs : status'[j] = "queued" =>
              \/ status[j] = "queued"
              \/ caller'[c].at = "send" /\ j \in caller'[c].jobs
    PROVE  PInv'
<1>1. \A j \in Jobs : BeingSent(j) => BeingSent(j)'
  BY DEF BeingSent
<1>2. \A i : WillBeHandled(i) => WillBeHandled(i)'
  BY DEF WillBeHandled
<1>3. QueuedOK'
  <2> SUFFICES ASSUME NEW j \in Jobs, status'[j] = "queued", ~BeingSent(j)'
               PROVE  \E i \in DOMAIN queue' :
                          queue'[i].job = j /\ WillBeHandled(i)'
    BY DEF QueuedOK
  <2>1. status[j] = "queued" /\ ~BeingSent(j)
    BY <1>1 DEF BeingSent
  <2>2. PICK i \in DOMAIN queue : queue[i].job = j /\ WillBeHandled(i)
    BY <2>1 DEF PInv, QueuedOK
  <2> QED BY <1>2, <2>2
<1> QED BY <1>3, QueueUntouchedPends

\* A request that sends a message leaves it for the job.
LEMMA SendPends ==
    ASSUME PInv, IInv', NEW c \in Callers, Send(c)
    PROVE  PInv'
<1> PICK j \in caller[c].jobs :
          /\ Enqueue(j)
          /\ caller' = [caller EXCEPT ![c] = AfterSend(c, j)]
  BY DEF Send
<1> PICK n : n = Len(queue) + 1
  OBVIOUS
<1>1. /\ caller[c].at = "send" /\ j \in Jobs
      /\ UNCHANGED <<status, worker, faults>>
  BY CallerKinds DEF Send, workerVars, PInv, IInv, TypeOK
<1>2. /\ DOMAIN queue' = DOMAIN queue \cup {n} /\ n \notin DOMAIN queue
      /\ \A k \in DOMAIN queue : queue'[k] = queue[k]
      /\ queue'[n].job = j /\ queue'[n].state = "created"
      /\ queue'[n].tries = 0
  BY <1>1, SendMessage DEF PInv, IInv, TypeOK
<1>3. /\ caller'[c] = AfterSend(c, j)
      /\ \A b \in Callers \ {c} : caller'[b] = caller[b]
  BY DEF PInv, IInv, TypeOK
<1>4. \A k \in DOMAIN queue' : AttemptsOK(k)'
  <2>1. AttemptsOK(n)'
    BY <1>1, <1>2 DEF AttemptsOK, PInv, IInv, TypeOK
  <2>2. \A k \in DOMAIN queue : AttemptsOK(k)'
    BY <1>1, <1>2 DEF AttemptsOK, HandlerRuns, PInv
  <2> QED BY <1>2, <2>1, <2>2
<1>5. \A k \in DOMAIN queue : WillBeHandled(k) => WillBeHandled(k)'
  BY <1>1, <1>2 DEF WillBeHandled
<1>6. WillBeHandled(n)'
  <2>1. \A w \in Workers :
           worker[w].at = "complete" => worker[w].message \in DOMAIN queue
    BY AtWork DEF PInv
  <2> QED BY <1>1, <1>2, <2>1 DEF WillBeHandled
<1>7. \A k \in Jobs \ {j} : BeingSent(k) => BeingSent(k)'
  BY <1>1, <1>3 DEF BeingSent, AfterSend
<1>8. QueuedOK'
  <2> SUFFICES ASSUME NEW k \in Jobs, status'[k] = "queued", ~BeingSent(k)'
               PROVE  \E i \in DOMAIN queue' :
                          queue'[i].job = k /\ WillBeHandled(i)'
    BY DEF QueuedOK
  <2>1. CASE k = j
    BY <1>2, <1>6, <2>1
  <2>2. CASE k # j
    <3>1. status[k] = "queued" /\ ~BeingSent(k)
      BY <1>1, <1>7, <2>2
    <3>2. PICK i \in DOMAIN queue : queue[i].job = k /\ WillBeHandled(i)
      BY <3>1 DEF PInv, QueuedOK
    <3> QED BY <1>2, <1>5, <3>2
  <2> QED BY <2>1, <2>2
<1> QED BY <1>4, <1>8 DEF PInv

\* No request strands a job.
LEMMA CallPends ==
    ASSUME RetriesSuffice, PInv, IInv', NEW c \in Callers, Call(c)
    PROVE  PInv'
<1>1. ASSUME \/ Request(c) \/ ReadFailed(c) \/ WriteRetry(c) \/ WriteArchive(c)
      PROVE  /\ caller[c].at # "send"
             /\ UNCHANGED <<queue, worker, faults>>
             /\ \A b \in Callers \ {c} : caller'[b] = caller[b]
             /\ \A j \in Jobs : status'[j] = "queued" =>
                   \/ status[j] = "queued"
                   \/ caller'[c].at = "send" /\ j \in caller'[c].jobs
  <2>1. CASE Request(c)
    BY <2>1, IdleOK DEF Request, workerVars, PInv, IInv, TypeOK
  <2>2. CASE ReadFailed(c)
    BY <2>2, IdleOK DEF ReadFailed, workerVars, PInv, IInv, TypeOK
  <2>3. CASE WriteRetry(c)
    BY <2>3 DEF WriteRetry, workerVars, PInv, IInv, TypeOK
  <2>4. CASE WriteArchive(c)
    BY <2>4 DEF WriteArchive, workerVars, PInv, IInv, TypeOK
  <2> QED BY <1>1, <2>1, <2>2, <2>3, <2>4
<1>2. CASE \/ Request(c) \/ ReadFailed(c) \/ WriteRetry(c) \/ WriteArchive(c)
  BY <1>1, <1>2, RowsQueuedPend
<1>3. CASE Send(c)
  BY <1>3, SendPends
<1>4. ~SendFails(c)
  BY DEF RetriesSuffice, SendFails
<1> QED BY <1>2, <1>3, <1>4 DEF Call

\* No job is queued at the start.
LEMMA InitPends == Init => PInv
<1>1. Init => DOMAIN queue = {}
  BY DEF Init
<1> QED BY <1>1, InitKeeps DEF Init, PInv, QueuedOK

\* Every step leaves each queued job something pending.
LEMMA NextPends ==
    ASSUME RetriesSuffice
    PROVE  PInv /\ [Next]_vars => PInv'
<1> SUFFICES ASSUME PInv, [Next]_vars PROVE PInv'
  OBVIOUS
<1>1. IInv'
  BY NextKeeps DEF PInv
<1>2. CASE UNCHANGED vars
  <2>1. \A i \in DOMAIN queue : WillBeHandled(i) => WillBeHandled(i)'
    BY <1>2 DEF vars, WillBeHandled
  <2>2. QueuedOK'
    BY <1>2, <2>1, PendingKept DEF vars, BeingSent, PInv
  <2> QED BY <1>1, <1>2, <2>2, QueueUntouchedPends DEF vars
<1>3. ASSUME NEW w \in Workers, Fetch(w) \/ Handle(w) PROVE PInv'
  BY <1>1, <1>3, FetchPends, HandlerGoesOnPends, UpdatePends, CompletePends,
     ThrowPends DEF Handle
<1> QED BY <1>1, <1>2, <1>3, CallPends, ExpirePends, OthersPend DEF Next

\* A queued job has a message that will be handled, or a request that sends
\* one: retries, archives, slow handlers and crashes strand no job as long as
\* the id is readable, sends do not fail and no message meets more faults than
\* it has retries (dlq-routes.ts, export-handler.ts, pg-boss).
THEOREM QueuedJobsArePending ==
    ASSUME RetriesSuffice
    PROVE  Spec => []QueuedIsPending
<1>1. PInv => QueuedIsPending
  <2> SUFFICES ASSUME PInv PROVE QueuedIsPending
    OBVIOUS
  <2> QED BY DEF PInv, QueuedOK, BeingSent, WillBeHandled, QueuedIsPending
<1> QED BY <1>1, InitPends, NextPends, PTL DEF Spec
=============================================================================
