---------------------------- MODULE InterviewSession ----------------------------
(***************************************************************************)
(* The interview page (web/src/pages/InterviewPage.tsx) with its debounced *)
(* auto-save, the manual save, the chain of requests that completes the    *)
(* contract and the navigation between the visible questions.              *)
(*                                                                         *)
(* A request sits in a slot from the fetch until its answer has been       *)
(* handled.  Requests reach the server in any order; the server handles    *)
(* each in one step (ContractLifecycle has its statements one by one).     *)
(* The timer of the auto-save may fire at any time; it is cleared neither  *)
(* by completing nor when the page is left.                                *)
(***************************************************************************)
EXTENDS Naturals, Sequences, FiniteSets, Subsequences

CONSTANTS
    Questions,              \* keys in the order of the interview flow
    ValuesOf,               \* key -> values its control can give
    Conditions,             \* key -> the conditions under which it is shown
    NoAnswer,
    Slots                   \* bound: requests of the page in flight

FlowKeys == {Questions[n] : n \in DOMAIN Questions}
Position(key) == CHOOSE n \in DOMAIN Questions : Questions[n] = key
Answers == {a \in [FlowKeys -> (UNION {ValuesOf[key] : key \in FlowKeys}) \cup {NoAnswer}] :
               \A key \in FlowKeys : a[key] \in ValuesOf[key] \cup {NoAnswer}}
Unanswered == [key \in FlowKeys |-> NoAnswer]

ASSUME KeysAreDistinct ==
    /\ Questions \in Seq(FlowKeys)
    /\ \A m, n \in DOMAIN Questions : Questions[m] = Questions[n] => m = n

\* Flows are written so that a question depends on earlier ones only; the
\* code does not check it.
ASSUME ConditionsLookBack ==
    \A key \in FlowKeys : \A cond \in Conditions[key] :
        /\ cond.operator \in {"equals", "not_equals", "is_truthy"}
        /\ cond.key \in FlowKeys
        /\ Position(cond.key) < Position(key)

VARIABLES
    answers,                \* what the page shows
    step,                   \* currentStep, from 1
    page,                   \* "open", "error" or "left"
    timer,                  \* the auto-save is scheduled
    request,                \* slot -> request in flight
    contract,               \* the server's row
    doubtful                \* history: the last PATCH ran beside another one,
                            \* was lost or was refused
interviewVars == <<answers, step, page, timer, request, contract, doubtful>>

NoRequest == [kind |-> "none"]
Requests == {NoRequest}
    \cup [kind : {"save", "complete.patch"}, body : Answers]
    \cup [kind : {"complete.validate", "complete.complete"}]

Saves == {s \in Slots : request[s].kind \in {"save", "complete.patch"}}

-----------------------------------------------------------------------------
(***************************************************************************)
(* Conditional questions                                                   *)
(***************************************************************************)
Holds(cond, a) ==
    CASE cond.operator = "equals"     -> a[cond.key] = cond.value
      [] cond.operator = "not_equals" -> a[cond.key] # cond.value
      [] cond.operator = "is_truthy"  -> a[cond.key] # NoAnswer

evaluateConditions(key, a) == \A cond \in Conditions[key] : Holds(cond, a)

Visible(a) ==
    Picked(Questions, {n \in DOMAIN Questions : evaluateConditions(Questions[n], a)})

Answering == page = "open" /\ step \in DOMAIN Visible(answers)
Current == Visible(answers)[step]

-----------------------------------------------------------------------------
(***************************************************************************)
(* The page                                                                *)
(***************************************************************************)
AnswerChange ==
    /\ Answering
    /\ \E value \in ValuesOf[Current] :
          answers' = [answers EXCEPT ![Current] = value]
    /\ timer' = TRUE
    /\ UNCHANGED <<step, page, request, contract, doubtful>>

\* Mutant: hidden questions can be stepped to.
StepsOfAll == DOMAIN Questions

\* By a button, a key or the list of questions.
Steps == DOMAIN Visible(answers)

GoTo ==
    /\ page = "open"
    /\ step' \in Steps
    /\ UNCHANGED <<answers, page, timer, request, contract, doubtful>>

\* A PATCH with everything the page shows.
Send(s, kind) ==
    /\ request[s] = NoRequest
    /\ request' = [request EXCEPT ![s] = [kind |-> kind, body |-> answers]]
    /\ doubtful' = (Saves # {})

\* Mutant: the save in flight is taken for enough.
AutoSaveUnlessSaving(s) ==
    /\ timer
    /\ timer' = FALSE
    /\ IF Saves = {} THEN Send(s, "save") ELSE UNCHANGED <<request, doubtful>>
    /\ UNCHANGED <<answers, step, page, contract>>

\* The timer outlives the page.
AutoSave(s) ==
    /\ timer
    /\ timer' = FALSE
    /\ Send(s, "save")
    /\ UNCHANGED <<answers, step, page, contract>>

\* Ctrl+S; the listener is there until the page is left.
ManualSave(s) ==
    /\ page # "left"
    /\ timer' = FALSE
    /\ Send(s, "save")
    /\ UNCHANGED <<answers, step, page, contract>>

\* handleComplete, from the last visible question.
Complete(s) ==
    /\ Answering /\ step = Len(Visible(answers))
    /\ Send(s, "complete.patch")
    /\ UNCHANGED <<answers, step, page, timer, contract>>

\* The user goes elsewhere in the application.
Leave ==
    /\ page # "left"
    /\ page' = "left"
    /\ UNCHANGED <<answers, step, timer, request, contract, doubtful>>

\* The page is loaded anew: timers die, requests that were sent do not.
Load ==
    /\ answers' = contract.answers
    /\ step' = 1
    /\ page' = "open"
    /\ timer' = FALSE
    /\ request' = [s \in Slots |->
          IF s \in Saves THEN [kind |-> "save", body |-> request[s].body]
          ELSE NoRequest]
    /\ doubtful' = (Saves # {})
    /\ UNCHANGED contract

-----------------------------------------------------------------------------
(***************************************************************************)
(* The server, and the page's reaction to its answer                       *)
(***************************************************************************)
Merge(old, new) ==
    [key \in FlowKeys |-> IF new[key] = NoAnswer THEN old[key] ELSE new[key]]

Becomes(s, r) == request' = [request EXCEPT ![s] = r]

\* After an auto-save or a manual one only a message is shown.
PatchDone(s) ==
    /\ s \in Saves
    /\ contract.status = "draft"
    /\ contract' = [contract EXCEPT !.answers = Merge(@, request[s].body)]
    /\ Becomes(s, IF request[s].kind = "save" THEN NoRequest
                  ELSE [kind |-> "complete.validate"])
    /\ UNCHANGED <<answers, step, page, timer, doubtful>>

\* Mutant: an error of the first PATCH lets the chain go on unnoticed.
PatchFailsUnnoticed(s) ==
    /\ s \in Saves
    /\ Becomes(s, IF request[s].kind = "save" THEN NoRequest
                  ELSE [kind |-> "complete.validate", body |-> request[s].body])
    /\ UNCHANGED <<answers, step, page, timer, contract, doubtful>>

\* Lost on the way or refused for a completed contract: a save ignores it,
\* handleComplete shows the error in place of the page.
PatchFails(s) ==
    /\ s \in Saves
    /\ Becomes(s, NoRequest)
    /\ page' = IF request[s].kind = "save" \/ page = "left" THEN page ELSE "error"
    /\ doubtful' = TRUE
    /\ UNCHANGED <<answers, step, timer, contract>>

\* The verdict is written whatever the status.
Validated(s) ==
    /\ request[s].kind = "complete.validate"
    /\ \E verdict \in {"valid", "has_conflicts"} :
          /\ contract' = [contract EXCEPT !.verdict = verdict]
          /\ IF verdict = "has_conflicts"
             THEN /\ Becomes(s, NoRequest)
                  /\ page' = IF page = "left" THEN page ELSE "error"
             ELSE /\ Becomes(s, [kind |-> "complete.complete"])
                  /\ UNCHANGED page
    /\ UNCHANGED <<answers, step, timer, doubtful>>

\* The server refuses while the stored verdict is has_conflicts.
Completed(s) ==
    /\ request[s].kind = "complete.complete"
    /\ contract.status = "draft" /\ contract.verdict # "has_conflicts"
    /\ contract' = [contract EXCEPT !.status = "completed"]
    /\ Becomes(s, NoRequest)
    /\ page' = "left"
    /\ UNCHANGED <<answers, step, timer, doubtful>>

ChainFails(s) ==
    /\ request[s].kind \in {"complete.validate", "complete.complete"}
    /\ Becomes(s, NoRequest)
    /\ page' = IF page = "left" THEN page ELSE "error"
    /\ UNCHANGED <<answers, step, timer, contract, doubtful>>

-----------------------------------------------------------------------------
InterviewInit ==
    /\ answers = Unanswered
    /\ step = 1
    /\ page = "open"
    /\ timer = FALSE
    /\ request = [s \in Slots |-> NoRequest]
    /\ contract = [answers |-> Unanswered, status |-> "draft", verdict |-> "valid"]
    /\ doubtful = FALSE

InterviewNext ==
    \/ AnswerChange \/ GoTo \/ Leave \/ Load
    \/ \E s \in Slots :
          \/ AutoSave(s) \/ ManualSave(s) \/ Complete(s)
          \/ PatchDone(s) \/ PatchFails(s)
          \/ Validated(s) \/ Completed(s) \/ ChainFails(s)

InterviewSpec == InterviewInit /\ [][InterviewNext]_interviewVars

-----------------------------------------------------------------------------
(***************************************************************************)
(* Properties                                                              *)
(***************************************************************************)
InterviewTypeOK ==
    /\ answers \in Answers
    /\ step \in Nat \ {0}
    /\ page \in {"open", "error", "left"}
    /\ timer \in BOOLEAN /\ doubtful \in BOOLEAN
    /\ request \in [Slots -> Requests]
    /\ contract \in [answers : Answers, status : {"draft", "completed"},
                     verdict : {"valid", "has_conflicts"}]

\* When no save is scheduled or in flight, the contract holds every answer
\* the page shows, whatever was typed, saved, completed and reloaded in between,
\* unless the last PATCH was lost, refused or ran beside another one.
NothingUnsaved ==
    ~timer /\ Saves = {} /\ ~doubtful =>
        \A key \in FlowKeys :
            answers[key] # NoAnswer => contract.answers[key] = answers[key]

\* The page always shows a question: changing an answer hides later
\* questions only, never the one that is shown or one before it.
QuestionIsShown == Visible(answers) # <<>> => step \in DOMAIN Visible(answers)

\* The contract has what the page shows once no save is pending, unless a PATCH
\* was lost or ran beside another, and the page always shows a question.
InterviewIsSound == InterviewTypeOK /\ NothingUnsaved /\ QuestionIsShown
=============================================================================
