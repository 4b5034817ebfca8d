---------------------------- MODULE ExportPipeline ----------------------------
(***************************************************************************)
(* The asynchronous export of one contract: the API handlers that create   *)
(* export jobs and send them to the queue (modules/export), pg-boss, and   *)
(* the worker's handler with its result cache (apps/export-worker).        *)
(*                                                                         *)
(* pg-boss delivers a message at least once: a handler that throws or an   *)
(* active message that expires goes back to the queue until its retries    *)
(* are used up, and a slow handler may still run when its message is       *)
(* delivered again.  Handlers interleave at every await.  All jobs export  *)
(* the same contract in one format and style: they share the cache keys.   *)
(*                                                                         *)
(* The API puts the job's id under jobId and the worker reads exportJobId: *)
(* SentKeys = {"jobId"} is the system as it is; "exportJobId" is the key   *)
(* under which the worker's ExportJobData declares it.                     *)
(***************************************************************************)
EXTENDS Naturals, Sequences, FiniteSets

CONSTANTS
    Jobs,                   \* ids of export_jobs rows
    Callers,                \* concurrent API requests
    Workers,                \* the worker's teamConcurrency slots
    Answers, Rests,         \* what the contract says: its answers up to the
                            \* order of lists; that order, title, reference
                            \* and selected slots
    NoDocument,             \* no object in the storage
    Undefined,              \* exportJobId, when the message has no such key
    SentKeys,               \* keys under which a message may carry the job's id
    RetryLimit,             \* retries pg-boss grants a message
    SendsFail,              \* may pgboss.send throw?
    Operators,              \* may an operator mark a queued row failed?
    MaxMessages,            \* bound on messages sent
    MaxFaults               \* bound on handler errors, crashes and timeouts

VARIABLES
    contract,               \* what an export made now would say
    status,                 \* job -> status column, "none" before the INSERT
    stored,                 \* job id -> object under {tenant}/exports/{id}
    cache,                  \* cache key -> object under exports/cache
    storing,                \* cache stores that were started and not awaited
    queue,                  \* the messages of queue export-job, in order
    caller,                 \* API request -> what it does next
    worker,                 \* slot -> what its handler does next
    faults,                 \* errors, crashes and timeouts so far
    since                   \* history: job -> contracts since its request

apiVars    == <<status, caller>>
workerVars == <<stored, cache, storing, worker>>
vars == <<contract, status, stored, cache, storing, queue, caller, worker,
          faults, since>>

ASSUME NoDocumentIsNone == NoDocument \notin [answers : Answers, rest : Rests]
ASSUME UndefinedIsNoJob == Undefined \notin Jobs
ASSUME KeysAreStrings == SentKeys \subseteq {"jobId", "exportJobId"}
ASSUME LimitsAreNat == /\ RetryLimit \in Nat
                       /\ MaxMessages \in Nat
                       /\ MaxFaults \in Nat
ASSUME SwitchesAreBoolean == SendsFail \in BOOLEAN /\ Operators \in BOOLEAN

Documents == [answers : Answers, rest : Rests]
Idle == [at |-> "idle"]

\* Mutant: the answers are not part of the key.
KeyOfContract(document) == "contract"

\* computeCacheKey: the contract id (also in place of the pins), answers with
\* every list sorted, style and format.
CacheKey(document) == document.answers
CacheKeys == {CacheKey(document) : document \in Documents}

Statuses == {"none", "queued", "done", "failed", "archived"}
MessageStates == {"created", "retry", "active", "completed", "failed"}
Message == [job : Jobs, key : SentKeys, state : MessageStates, tries : Nat]

CallerState == {Idle}
    \cup [at : {"send"}, jobs : (SUBSET Jobs) \ {{}}]
    \cup [at : {"retry", "archive"}, job : Jobs]

JobIds == Jobs \cup {Undefined}
WorkerState == {Idle}
    \cup [at : {"load"}, message : Nat \ {0}, id : JobIds]
    \cup [at : {"lookup", "render", "upload", "cachedUpload", "update",
                "cachedUpdate", "complete"},
          message : Nat \ {0}, id : JobIds,
          contract : Documents, document : Documents]

-----------------------------------------------------------------------------
(***************************************************************************)
(* The API: POST /export-jobs (one job) and POST /export-jobs/batch (which *)
(* may name a contract more than once).  The rows are inserted in one      *)
(* transaction; then the messages are sent one by one and the first        *)
(* failure ends the loop.                                                  *)
(***************************************************************************)
Request(c) ==
    \E js \in SUBSET {j \in Jobs : status[j] = "none"} :
        /\ caller[c] = Idle
        /\ js # {}
        /\ status' = [j \in Jobs |-> IF j \in js THEN "queued" ELSE status[j]]
        /\ since' = [j \in Jobs |-> IF j \in js THEN {contract} ELSE since[j]]
        /\ caller' = [caller EXCEPT ![c] = [at |-> "send", jobs |-> js]]
        /\ UNCHANGED <<contract, queue, faults, workerVars>>

\* pgboss.send
Enqueue(j) ==
    /\ Len(queue) < MaxMessages
    /\ \E key \in SentKeys :
          queue' = Append(queue, [job |-> j, key |-> key,
                                  state |-> "created", tries |-> 0])

\* Mutant: a request with nothing left to send goes on.
AfterSendEndless(c, j) == [at |-> "send", jobs |-> caller[c].jobs \ {j}]

AfterSend(c, j) ==
    IF caller[c].jobs = {j} THEN Idle
    ELSE [at |-> "send", jobs |-> caller[c].jobs \ {j}]

Send(c) ==
    /\ caller[c].at = "send"
    /\ \E j \in caller[c].jobs :
          /\ Enqueue(j)
          /\ caller' = [caller EXCEPT ![c] = AfterSend(c, j)]
    /\ UNCHANGED <<contract, status, faults, since, workerVars>>

\* The error is logged and the request answers 201 all the same.
SendFails(c) ==
    /\ SendsFail
    /\ caller[c].at = "send"
    /\ caller' = [caller EXCEPT ![c] = Idle]
    /\ UNCHANGED <<contract, status, queue, faults, since, workerVars>>

(***************************************************************************)
(* POST /export-jobs/:id/retry and /archive of the dead letter queue.      *)
(***************************************************************************)
ReadFailed(c) ==
    \E j \in Jobs, at \in {"retry", "archive"} :
        /\ caller[c] = Idle
        /\ status[j] = "failed"
        /\ caller' = [caller EXCEPT ![c] = [at |-> at, job |-> j]]
        /\ UNCHANGED <<contract, status, queue, faults, since, workerVars>>

\* Mutant: the row is queued again but no message is sent.
WriteRetryUnsent(c) ==
    /\ caller[c].at = "retry"
    /\ status' = [status EXCEPT ![caller[c].job] = "queued"]
    /\ caller' = [caller EXCEPT ![c] = Idle]
    /\ UNCHANGED <<contract, queue, faults, since, workerVars>>

WriteRetry(c) ==
    /\ caller[c].at = "retry"
    /\ status' = [status EXCEPT ![caller[c].job] = "queued"]
    /\ caller' = [caller EXCEPT ![c] = [at |-> "send",
                                        jobs |-> {caller[c].job}]]
    /\ UNCHANGED <<contract, queue, faults, since, workerVars>>

WriteArchive(c) ==
    /\ caller[c].at = "archive"
    /\ status' = [status EXCEPT ![caller[c].job] = "archived"]
    /\ caller' = [caller EXCEPT ![c] = Idle]
    /\ UNCHANGED <<contract, queue, faults, since, workerVars>>

\* Nothing in the code writes "failed", the status these two handlers ask
\* for: an operator would have to.
MarkFailed(j) ==
    /\ Operators
    /\ status[j] = "queued"
    /\ status' = [status EXCEPT ![j] = "failed"]
    /\ UNCHANGED <<contract, queue, caller, faults, since, workerVars>>

-----------------------------------------------------------------------------
(***************************************************************************)
(* pg-boss.                                                                *)
(***************************************************************************)

\* Mutant: the last retry is not granted.
OneRetryLess(m) ==
    [m EXCEPT !.state = IF m.tries + 1 < RetryLimit THEN "retry" ELSE "failed"]

\* A message whose attempt failed or expired.
GiveBack(m) ==
    [m EXCEPT !.state = IF m.tries < RetryLimit THEN "retry" ELSE "failed"]

\* Mutant: attempts are not counted.
AttemptedUncounted(m) == [m EXCEPT !.state = "active"]

Attempted(m) ==
    [m EXCEPT !.state = "active",
              !.tries = IF m.state = "retry" THEN @ + 1 ELSE @]

\* The worker takes a message; its handler reads data.exportJobId.
Fetch(w) ==
    \E i \in DOMAIN queue :
        /\ worker[w] = Idle
        /\ queue[i].state \in {"created", "retry"}
        /\ queue' = [queue EXCEPT ![i] = Attempted(@)]
        /\ worker' = [worker EXCEPT ![w] =
              [at |-> "load", message |-> i,
               id |-> IF queue[i].key = "exportJobId"
                      THEN queue[i].job ELSE Undefined]]
        /\ UNCHANGED <<contract, stored, cache, storing, faults, since,
                       apiVars>>

\* An active message is older than expireInSeconds.  Its handler died with
\* the worker, or it is slow and goes on.
HandlerRuns(i) == \E w \in Workers : worker[w] # Idle /\ worker[w].message = i

Expire(i) ==
    /\ queue[i].state = "active"
    /\ HandlerRuns(i) => faults < MaxFaults
    /\ faults' = IF HandlerRuns(i) THEN faults + 1 ELSE faults
    /\ queue' = [queue EXCEPT ![i] = GiveBack(@)]
    /\ UNCHANGED <<contract, since, apiVars, workerVars>>

-----------------------------------------------------------------------------
(***************************************************************************)
(* handleExportJob                                                         *)
(***************************************************************************)
Goto(w, at) == worker' = [worker EXCEPT ![w].at = at]

HandlerStep == UNCHANGED <<contract, queue, faults, since, caller>>

\* loadExportData: the contract row is read in one statement; the versions
\* it pins do not change.
Load(w) ==
    /\ worker[w].at = "load"
    /\ worker' = [worker EXCEPT ![w] =
          [at |-> "lookup", message |-> worker[w].message,
           id |-> worker[w].id,
           contract |-> contract, document |-> contract]]
    /\ UNCHANGED <<status, stored, cache, storing>>
    /\ HandlerStep

LookupHit(w) ==
    LET cached == cache[CacheKey(worker[w].contract)] IN
    /\ worker[w].at = "lookup"
    /\ cached # NoDocument
    /\ worker' = [worker EXCEPT ![w].at = "cachedUpload",
                                ![w].document = cached]
    /\ UNCHANGED <<status, stored, cache, storing>>
    /\ HandlerStep

\* Nothing is cached, it has expired, or the lookup fails.
LookupMiss(w) ==
    /\ worker[w].at = "lookup"
    /\ Goto(w, "render")
    /\ UNCHANGED <<status, stored, cache, storing>>
    /\ HandlerStep

\* Render, convert, and start to store the result in the cache.
Render(w) ==
    /\ worker[w].at = "render"
    /\ worker' = [worker EXCEPT ![w].at = "upload",
                                ![w].document = worker[w].contract]
    /\ storing' = storing \cup {worker[w].contract}
    /\ UNCHANGED <<status, stored, cache>>
    /\ HandlerStep

\* cache.store ends, at any later time; it may also fail silently.
StoreInCache ==
    \E document \in storing :
        /\ storing' = storing \ {document}
        /\ cache' \in {cache, [cache EXCEPT ![CacheKey(document)] = document]}
        /\ UNCHANGED <<status, stored, worker>>
        /\ HandlerStep

\* Mutant: the upload is not awaited either.
UploadUnawaited(w) ==
    /\ worker[w].at \in {"upload", "cachedUpload"}
    /\ Goto(w, IF worker[w].at = "upload" THEN "update" ELSE "cachedUpdate")
    /\ UNCHANGED <<status, stored, cache, storing>>
    /\ HandlerStep

Upload(w) ==
    /\ worker[w].at \in {"upload", "cachedUpload"}
    /\ stored' = [stored EXCEPT ![worker[w].id] = worker[w].document]
    /\ Goto(w, IF worker[w].at = "upload" THEN "update" ELSE "cachedUpdate")
    /\ UNCHANGED <<status, cache, storing>>
    /\ HandlerStep

\* prisma.exportJob.update needs an id.
Update(w) ==
    /\ worker[w].at \in {"update", "cachedUpdate"}
    /\ worker[w].id # Undefined
    /\ status' = [status EXCEPT ![worker[w].id] = "done"]
    /\ Goto(w, "complete")
    /\ UNCHANGED <<stored, cache, storing>>
    /\ HandlerStep

\* The handler returns and pg-boss completes the message if it is active.
Complete(w) ==
    LET i == worker[w].message IN
    /\ worker[w].at = "complete"
    /\ worker' = [worker EXCEPT ![w] = Idle]
    /\ queue' = IF queue[i].state = "active"
                THEN [queue EXCEPT ![i].state = "completed"] ELSE queue
    /\ UNCHANGED <<contract, status, stored, cache, storing, faults, since,
                   caller>>

\* On the cached path every error falls back to rendering.
FallBack(w) ==
    /\ \/ worker[w].at \in {"cachedUpload", "cachedUpdate"}
          /\ faults < MaxFaults /\ faults' = faults + 1
       \/ worker[w].at = "cachedUpdate" /\ worker[w].id = Undefined
          /\ faults' = faults
    /\ Goto(w, "render")
    /\ UNCHANGED <<contract, queue, since, caller, status, stored, cache,
                   storing>>

\* Everywhere else an error leaves the handler and fails the message.
Throw(w) ==
    LET i == worker[w].message IN
    /\ \/ worker[w].at \in {"load", "render", "upload", "update"}
          /\ faults < MaxFaults /\ faults' = faults + 1
       \/ worker[w].at = "update" /\ worker[w].id = Undefined
          /\ faults' = faults
    /\ worker' = [worker EXCEPT ![w] = Idle]
    /\ queue' = IF queue[i].state = "active"
                THEN [queue EXCEPT ![i] = GiveBack(@)] ELSE queue
    /\ UNCHANGED <<contract, status, stored, cache, storing, since, caller>>

\* The worker process dies with all its handlers.
Crash ==
    /\ faults < MaxFaults
    /\ \E w \in Workers : worker[w] # Idle
    /\ faults' = faults + 1
    /\ worker' = [w \in Workers |-> Idle]
    /\ storing' = {}
    /\ UNCHANGED <<contract, stored, cache, queue, since, apiVars>>

\* The draft is edited meanwhile.
Edit ==
    /\ contract' \in Documents \ {contract}
    /\ since' = [j \in Jobs |-> IF status[j] = "none" THEN {}
                                ELSE since[j] \cup {contract'}]
    /\ UNCHANGED <<queue, faults, apiVars, workerVars>>

-----------------------------------------------------------------------------
Init ==
    /\ contract \in Documents
    /\ status = [j \in Jobs |-> "none"]
    /\ stored = [id \in JobIds |-> NoDocument]
    /\ cache = [k \in CacheKeys |-> NoDocument]
    /\ storing = {}
    /\ queue = <<>>
    /\ caller = [c \in Callers |-> Idle]
    /\ worker = [w \in Workers |-> Idle]
    /\ faults = 0
    /\ since = [j \in Jobs |-> {}]

Call(c) == Request(c) \/ Send(c) \/ SendFails(c)
           \/ ReadFailed(c) \/ WriteRetry(c) \/ WriteArchive(c)

Handle(w) == Load(w) \/ LookupHit(w) \/ LookupMiss(w) \/ Render(w)
             \/ Upload(w) \/ Update(w) \/ Complete(w) \/ FallBack(w) \/ Throw(w)

Next ==
    \/ \E c \in Callers : Call(c)
    \/ \E j \in Jobs : MarkFailed(j)
    \/ \E w \in Workers : Fetch(w) \/ Handle(w)
    \/ \E i \in DOMAIN queue : Expire(i)
    \/ StoreInCache \/ Crash \/ Edit

Spec == Init /\ [][Next]_vars

(***************************************************************************)
(* Fairness: a request that has been accepted runs on, the worker polls    *)
(* the queue and its handlers run on, and the maintenance of pg-boss       *)
(* expires messages nobody works on any more.  Nothing is assumed of       *)
(* requests, edits, errors and crashes.                                    *)
(***************************************************************************)
Fairness ==
    /\ \A c \in Callers : WF_vars(Send(c) \/ SendFails(c) \/ WriteRetry(c)
                                  \/ WriteArchive(c))
    /\ \A w \in Workers : WF_vars(Fetch(w)) /\ WF_vars(Handle(w))
    /\ \A i \in 1..MaxMessages :
          WF_vars(i \in DOMAIN queue /\ ~HandlerRuns(i) /\ Expire(i))

FairSpec == Spec /\ Fairness

-----------------------------------------------------------------------------
(***************************************************************************)
(* Properties                                                              *)
(***************************************************************************)

\* The variables range over what the rows, objects and locals can hold.
TypeOK ==
    /\ contract \in Documents
    /\ status \in [Jobs -> Statuses]
    /\ stored \in [JobIds -> Documents \cup {NoDocument}]
    /\ cache \in [CacheKeys -> Documents \cup {NoDocument}]
    /\ storing \subseteq Documents
    /\ queue \in Seq(Message)
    /\ caller \in [Callers -> CallerState]
    /\ worker \in [Workers -> WorkerState]
    /\ faults \in 0..MaxFaults
    /\ since \in [Jobs -> SUBSET Documents]

\* A job that is done has its document in the object storage, whichever of
\* several handlers of the same job got how far (export-handler.ts uploads
\* before it updates the row; the download relies on it).
DoneHasDocument ==
    \A j \in Jobs : status[j] = "done" => stored[j] # NoDocument

\* The document of a job shows answers the contract had since the job was
\* requested, although it may come from a cache filled by an earlier job.
AnswersAreAsRequested ==
    \A j \in Jobs : stored[j] # NoDocument =>
        \E c \in since[j] : c.answers = stored[j].answers

\* A queued job has a message that is not settled, or a request that is about
\* to send one, whatever retries, archives and slow handlers of the same job
\* do to its row.  Checked where sends do not fail and no message meets more
\* faults than it has retries (dlq-routes.ts, export-handler.ts, pg-boss).
QueuedIsPending ==
    \A j \in Jobs : status[j] = "queued" =>
        \/ \E c \in Callers : caller[c].at = "send" /\ j \in caller[c].jobs
        \/ \E i \in DOMAIN queue :
              /\ queue[i].job = j
              /\ queue[i].state \in {"created", "retry", "active"}

\* A message is settled in the end, also one whose handler can never succeed:
\* it does not occupy the worker for ever (main.ts, the retries of pg-boss).
MessagesSettle ==
    \A i \in 1..MaxMessages :
        i \in DOMAIN queue
        ~> i \in DOMAIN queue /\ queue[i].state \in {"completed", "failed"}

\* As long as no more than RetryLimit errors, crashes and timeouts occur, the
\* job of a message gets done if the worker can read its id.
SentIsDone ==
    \A j \in Jobs :
        (\E i \in DOMAIN queue : /\ queue[i].job = j
                                 /\ queue[i].key = "exportJobId")
        ~> status[j] = "done"

(***************************************************************************)
(* What a document says and the code does not do.                          *)
(***************************************************************************)

\* docx-export-spec-v1.md: a queued job ends as done or failed.  It does not
\* if its message carries jobId.
QueuedEnds ==
    \A j \in Jobs : status[j] = "queued" ~> status[j] \in {"done", "failed"}
=============================================================================
