------------------------------- MODULE ReviewPage -------------------------------
(***************************************************************************)
(* The review page (web/src/pages/ReviewPage.tsx): it completes a contract *)
(* and, once that is done, creates an export job and polls its status      *)
(* until the document is ready; and the version history that opens over    *)
(* the catalogue (web/src/components/ChangelogPanel.tsx), which fetches    *)
(* for the entity it was opened with last and, after an error, on demand.  *)
(*                                                                         *)
(* The pages talk to whatever answers their requests: the server may give  *)
(* any answer or none.  Effects run with the change that causes them.      *)
(***************************************************************************)
EXTENDS Naturals, FiniteSets

CONSTANTS
    Jobs,                   \* ids the server may give an export job
    Entities,               \* clauses and templates with a history
    Fetches,                \* bound: requests of the history in flight
    Nothing

VARIABLES
    mounted,                \* the review page is shown
    completion,             \* "open", "completing" or "completed"
    export,                 \* exportState
    job,                    \* exportJobId
    creating,               \* the POST of an export is in flight
    poll,                   \* "none", "timer" or "asked"
    asked,                  \* the job whose status was asked for
    panel,                  \* the history: entity it is open for
    entries,                \* entity whose entries it holds
    loading, failed,
    fetch,                  \* request -> entity and whether it was cancelled
    retried                 \* history: a fetch was repeated on demand

reviewVars == <<mounted, completion, export, job, creating, poll, asked>>
panelVars == <<panel, entries, loading, failed, fetch, retried>>
pageVars == <<reviewVars, panelVars>>

-----------------------------------------------------------------------------
(***************************************************************************)
(* ReviewPage                                                              *)
(***************************************************************************)
HandleComplete ==
    /\ mounted /\ completion = "open"
    /\ completion' = "completing"
    /\ UNCHANGED <<mounted, export, job, creating, poll, asked>>

CompleteAnswered ==
    /\ completion = "completing"
    /\ completion' \in {"open", "completed"}
    /\ UNCHANGED <<mounted, export, job, creating, poll, asked>>

\* From the start or after an error.
HandleExport ==
    /\ mounted /\ completion = "completed"
    /\ export \in {"idle", "error"}
    /\ export' = "creating"
    /\ creating' = TRUE
    /\ UNCHANGED <<mounted, completion, job, poll, asked>>

\* Mutant: the status is taken for the id.
ExportWithoutId ==
    /\ creating
    /\ creating' = FALSE
    /\ job' = "queued"
    /\ export' = "processing"
    /\ poll' = IF mounted THEN "timer" ELSE poll
    /\ UNCHANGED <<mounted, completion, asked>>

\* The effect of the new state schedules the first poll, unless the page is
\* no longer there.
ExportCreated ==
    /\ creating
    /\ creating' = FALSE
    /\ job' \in Jobs
    /\ export' = "processing"
    /\ poll' = IF mounted THEN "timer" ELSE poll
    /\ UNCHANGED <<mounted, completion, asked>>

ExportRefused ==
    /\ creating
    /\ creating' = FALSE
    /\ export' = "error"
    /\ UNCHANGED <<mounted, completion, job, poll, asked>>

PollTimer ==
    /\ poll = "timer"
    /\ poll' = "asked"
    /\ asked' = job
    /\ UNCHANGED <<mounted, completion, export, job, creating>>

\* Mutant: the next poll is not scheduled.
PollOnce ==
    /\ poll = "asked"
    /\ poll' = "none"
    /\ export' \in {"processing", "ready", "error"}
    /\ UNCHANGED <<mounted, completion, job, creating, asked>>

\* Still processing, or done, failed or not answered; the cleanup of the
\* effect has no timer to clear then.
PollAnswered ==
    /\ poll = "asked"
    /\ \/ poll' = "timer" /\ UNCHANGED export
       \/ poll' = "none" /\ export' \in {"ready", "error"}
    /\ UNCHANGED <<mounted, completion, job, creating, asked>>

\* The cleanup clears a timer, not a request that is under way.
Unmount ==
    /\ mounted
    /\ mounted' = FALSE
    /\ poll' = IF poll = "timer" THEN "none" ELSE poll
    /\ UNCHANGED <<completion, export, job, creating, asked>>

\* A new page; what the old one still waits for has no effect on this one
\* (bound: nothing is left of it but answers).
Mount ==
    /\ ~mounted /\ poll = "none" /\ ~creating /\ completion # "completing"
    /\ mounted' = TRUE
    /\ completion' = "open" /\ export' = "idle" /\ job' = Nothing
    /\ UNCHANGED <<creating, poll, asked>>

ReviewNext ==
    \/ HandleComplete \/ CompleteAnswered
    \/ HandleExport \/ ExportCreated \/ ExportRefused
    \/ PollTimer \/ PollAnswered
    \/ Unmount \/ Mount

-----------------------------------------------------------------------------
(***************************************************************************)
(* ChangelogPanel.  The cleanup of the effect cancels the fetch of the     *)
(* entity before; a fetch that was cancelled changes nothing.  The fetch   *)
(* of the retry button is not the effect's and cannot be cancelled.        *)
(***************************************************************************)
NoFetch == [entity |-> Nothing, by |-> "none"]

\* Mutant: the fetch before is not cancelled.
Uncancelled == fetch
Cancelled == [f \in Fetches |->
    IF fetch[f].by = "effect" THEN [fetch[f] EXCEPT !.by = "cancelled"]
    ELSE fetch[f]]

Open(entity) ==
    /\ panel = Nothing
    /\ panel' = entity
    /\ loading' = TRUE /\ failed' = FALSE
    /\ \E f \in Fetches :
          /\ fetch[f] = NoFetch
          /\ fetch' = [Cancelled EXCEPT ![f] =
                          [entity |-> entity, by |-> "effect"]]
    /\ UNCHANGED <<entries, retried>>

Retry ==
    /\ panel # Nothing /\ failed /\ ~loading
    /\ loading' = TRUE /\ failed' = FALSE
    /\ retried' = TRUE
    /\ \E f \in Fetches :
          /\ fetch[f] = NoFetch
          /\ fetch' = [fetch EXCEPT ![f] = [entity |-> panel, by |-> "retry"]]
    /\ UNCHANGED <<panel, entries>>

Close ==
    /\ panel # Nothing
    /\ panel' = Nothing
    /\ fetch' = Cancelled
    /\ UNCHANGED <<entries, loading, failed, retried>>

Fetched(f, ok) ==
    /\ fetch[f] # NoFetch
    /\ fetch' = [fetch EXCEPT ![f] = NoFetch]
    /\ IF fetch[f].by = "cancelled" THEN UNCHANGED <<entries, loading, failed>>
       ELSE /\ entries' = IF ok THEN fetch[f].entity ELSE entries
            /\ failed' = (failed \/ ~ok)
            /\ loading' = FALSE
    /\ UNCHANGED <<panel, retried>>

PanelNext ==
    \/ \E entity \in Entities : Open(entity)
    \/ Close \/ Retry
    \/ \E f \in Fetches, ok \in BOOLEAN : Fetched(f, ok)

-----------------------------------------------------------------------------
PagesInit ==
    /\ mounted = TRUE
    /\ completion = "open" /\ export = "idle" /\ job = Nothing
    /\ creating = FALSE /\ poll = "none" /\ asked = Nothing
    /\ panel = Nothing /\ entries = Nothing
    /\ loading = FALSE /\ failed = FALSE /\ retried = FALSE
    /\ fetch = [f \in Fetches |-> NoFetch]

PagesNext ==
    \/ ReviewNext /\ UNCHANGED panelVars
    \/ PanelNext /\ UNCHANGED reviewVars

-----------------------------------------------------------------------------
(***************************************************************************)
(* Properties                                                              *)
(***************************************************************************)
PagesTypeOK ==
    /\ {mounted, creating, loading, failed, retried} \subseteq BOOLEAN
    /\ completion \in {"open", "completing", "completed"}
    /\ export \in {"idle", "creating", "processing", "ready", "error"}
    /\ poll \in {"none", "timer", "asked"}
    /\ {job, asked} \subseteq Jobs \cup {Nothing}
    /\ {panel, entries} \subseteq Entities \cup {Nothing}
    /\ \A f \in Fetches : fetch[f] # NoFetch => fetch[f].entity \in Entities

\* While the page says that the export is processing, a poll of that very job
\* is under way, and never otherwise: the spinner cannot stay for ever without
\* anybody asking, and what was asked before an error does not answer for the
\* job of the next attempt.
PollsWhileProcessing ==
    mounted =>
        /\ (export = "processing") <=> (poll # "none")
        /\ poll = "asked" => asked = job

\* The entries that are shown belong to the entity the panel is open for,
\* whichever of several fetches of the effect answers last.
HistoryUnlessRetried ==
    panel # Nothing /\ ~loading /\ ~failed /\ ~retried => entries = panel

\* The review page polls exactly while it says that the export is processing,
\* and for that job; the history is that of the entity, retries excepted.
PagesAreSound == PagesTypeOK /\ PollsWhileProcessing /\ HistoryUnlessRetried

(***************************************************************************)
(* What the panel says it shows and does not always: the history of the    *)
(* clause or template it is open for.  The answer to a retry for another   *)
(* one is taken whenever it comes.                                         *)
(***************************************************************************)
HistoryOfTheEntity ==
    panel # Nothing /\ ~loading /\ ~failed => entries = panel
=============================================================================
