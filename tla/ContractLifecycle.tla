--------------------------- MODULE ContractLifecycle ---------------------------
(***************************************************************************)
(* One contract instance: the write handlers of                            *)
(* apps/api/src/modules/contract/routes.ts over its row, beside a content  *)
(* catalogue that keeps changing under EditorialWorkflow.  Contracts share *)
(* nothing but the content they read, so one is enough.                    *)
(*                                                                         *)
(* As in ContentLifecycle a handler is one step per statement, READ        *)
(* COMMITTED lets the steps of concurrent requests interleave, a check     *)
(* that fails changes nothing, and the rows are written by id alone.  The  *)
(* selected slots are merged and written exactly like the answers, title,  *)
(* reference and tags are plain columns: all are left out.                 *)
(***************************************************************************)
EXTENDS Naturals, FiniteSets

CONSTANTS
    Clauses, Templates,     \* logical clauses and templates
    VersionIds,             \* their versions
    Owner,                  \* version -> its clause or template
    Slots,                  \* template version -> clauses in its slots
    Rules,                  \* clause version -> its rules
    Questions, Values,      \* interview questions and the answers to them
    Requests,               \* requests the API process can have in flight
    RowSecurity,            \* the policies of 00001_enable_rls hide versions
                            \* of another tenant that are not published
    NoVersion, Unset        \* NULL in a pointer; a key absent from answers

VARIABLES
    status, current,        \* content: version -> status, entity -> pointer
    contract,               \* the contract_instances row
    req,                    \* request -> what its handler has read
    saved,                  \* history: questions whose answer was acknowledged
    validated,              \* history: a validation has been written
    raced                   \* history: two requests were in flight at once

vars == <<status, current, contract, req, saved, validated, raced>>

Content == INSTANCE EditorialWorkflow

Entities         == Clauses \cup Templates
TemplateVersions == {v \in VersionIds : Owner[v] \in Templates}
ClauseVersions   == {v \in VersionIds : Owner[v] \in Clauses}

(***************************************************************************)
(* Rules are records with a type, a severity ("hard" or "soft") and a      *)
(* target: the clause or, for requires_answer, the question they name.     *)
(***************************************************************************)
AllRules == UNION {Rules[v] : v \in ClauseVersions}

ASSUME OwnerIsEntity    == Owner \in [VersionIds -> Entities]
ASSUME SlotsAreClauses  == Slots \in [TemplateVersions -> SUBSET Clauses]
ASSUME UnsetIsUndefined == Unset \notin Values
ASSUME NoVersionIsNull  == NoVersion \notin VersionIds
ASSUME SecurityIsSwitch == RowSecurity \in BOOLEAN
ASSUME RequestsAreFinite == IsFiniteSet(Requests)

\* Questions are all the keys that answers and rules name.
ASSUME RulesAskQuestions ==
    \A rule \in AllRules :
        rule.type = "requires_answer" => rule.target \in Questions

\* Is the rule violated, given the clauses found and the answers?
Violated(rule, present, answers) ==
    \/ rule.type = "requires" /\ rule.target \notin present
    \/ rule.type \in {"forbids", "incompatible_with"} /\ rule.target \in present
    \/ rule.type = "requires_answer" /\ answers[rule.target] = Unset

\* The rules of the versions vs that are violated.
Messages(vs, answers) ==
    {rule \in UNION {Rules[v] : v \in vs} :
        Violated(rule, {Owner[v] : v \in vs}, answers)}

Verdicts == {"valid", "has_warnings", "has_conflicts"}
Verdict(messages) ==
    CASE \E m \in messages : m.severity = "hard" -> "has_conflicts"
      [] \A m \in messages : m.severity # "hard" ->
            IF messages = {} THEN "valid" ELSE "has_warnings"

Answers == [Questions -> Values \cup {Unset}]

\* Mutant: the answers of the body replace the stored ones.
MergeReplacing(existing, input) == input

\* { ...existing.answers, ...input.answers }
Merge(existing, input) ==
    [q \in Questions |-> IF q \in DOMAIN input THEN input[q] ELSE existing[q]]

NoContract == [stage |-> "none"]
ContractRow == [stage    : {"draft", "completed"},
                template : TemplateVersions,
                pins     : SUBSET ClauseVersions,
                answers  : Answers,
                verdict  : Verdicts,
                messages : SUBSET AllRules]

Idle == [at |-> "idle"]
Request ==
    {Idle, [at |-> "complete"]}
    \cup [at : {"resolve"}, template : TemplateVersions]
    \cup [at : {"create"}, template : TemplateVersions,
          pins : SUBSET ClauseVersions]
    \cup [at : {"save"}, answers : Answers, asked : SUBSET Questions]
    \cup [at : {"rules"}, pins : SUBSET ClauseVersions, answers : Answers]
    \cup [at : {"verdict"}, messages : SUBSET AllRules]

Goto(r, p) ==
    /\ req' = [req EXCEPT ![r] = p]
    /\ raced' = (raced \/ Cardinality({q \in Requests : req'[q] # Idle}) > 1)

Reads(r, from, p) ==
    /\ req[r] = from
    /\ Goto(r, p)
    /\ UNCHANGED <<status, current, contract, saved, validated>>

Writes(r) == /\ Goto(r, Idle)
             /\ UNCHANGED <<status, current>>

-----------------------------------------------------------------------------
(***************************************************************************)
(* POST /contracts: the template version must be published; the clauses in *)
(* its slots are pinned at their published pointers.                       *)
(***************************************************************************)
AnyVersions(es) ==            \* Mutant: drafts are pinned, too.
    {v \in ClauseVersions : Owner[v] \in es}
PublishedPointers(es) == {current[e] : e \in es} \ {NoVersion}

ReadTemplate(r) ==
    \E t \in TemplateVersions :
        /\ contract = NoContract
        /\ status[t] = "published"
        /\ Reads(r, Idle, [at |-> "resolve", template |-> t])

ResolvePins(r) ==
    /\ req[r].at = "resolve"
    /\ Reads(r, req[r],
             [at |-> "create", template |-> req[r].template,
              pins |-> PublishedPointers(Slots[req[r].template])])

CreateContract(r) ==
    /\ req[r].at = "create"
    /\ contract = NoContract      \* one contract: a second is another row
    /\ contract' = [stage |-> "draft", template |-> req[r].template,
                    pins |-> req[r].pins,
                    answers |-> [q \in Questions |-> Unset],
                    verdict |-> "valid", messages |-> {}]
    /\ Writes(r)
    /\ UNCHANGED <<saved, validated>>

(***************************************************************************)
(* PATCH /contracts/:id, the auto-save.                                    *)
(***************************************************************************)
AnyStage(stage) == stage \in {"draft", "completed"}   \* Mutant: no draft check.
MayUpdate(stage) == stage = "draft"

ReadForSave(r) ==
    \E asked \in SUBSET Questions : \E input \in [asked -> Values] :
        /\ contract # NoContract
        /\ MayUpdate(contract.stage)
        /\ asked # {}
        /\ Reads(r, Idle, [at |-> "save", asked |-> asked,
                           answers |-> Merge(contract.answers, input)])

\* Mutant: answers that the body leaves out are forgotten.
WriteAnswersAlone(r) ==
    /\ req[r].at = "save"
    /\ contract' = [contract EXCEPT !.answers =
                       [q \in Questions |-> IF q \in req[r].asked
                                            THEN req[r].answers[q] ELSE Unset]]
    /\ saved' = saved \cup req[r].asked
    /\ Writes(r)
    /\ UNCHANGED validated

\* Mutant: the whole row is saved as a draft.
WriteWholeDraft(r) ==
    /\ req[r].at = "save"
    /\ contract' = [contract EXCEPT !.answers = req[r].answers,
                                    !.stage = "draft"]
    /\ saved' = saved \cup req[r].asked
    /\ Writes(r)
    /\ UNCHANGED validated

WriteAnswers(r) ==
    /\ req[r].at = "save"
    /\ contract' = [contract EXCEPT !.answers = req[r].answers]
    /\ saved' = saved \cup req[r].asked
    /\ Writes(r)
    /\ UNCHANGED validated

(***************************************************************************)
(* POST /contracts/:id/complete                                            *)
(***************************************************************************)
CompletableAnyway(c) ==       \* Mutant: the verdict is not looked at.
    c.stage = "draft"
Completable(c) == c.stage = "draft" /\ c.verdict # "has_conflicts"

ReadForComplete(r) ==
    /\ contract # NoContract
    /\ Completable(contract)
    /\ Reads(r, Idle, [at |-> "complete"])

WriteComplete(r) ==
    /\ req[r].at = "complete"
    /\ contract' = [contract EXCEPT !.stage = "completed"]
    /\ Writes(r)
    /\ UNCHANGED <<saved, validated>>

(***************************************************************************)
(* POST /contracts/:id/validate, in any status.                            *)
(***************************************************************************)
ReadForValidate(r) ==
    /\ contract # NoContract
    /\ Reads(r, Idle, [at |-> "rules", pins |-> contract.pins,
                       answers |-> contract.answers])

\* The pinned versions the SELECT returns.
Visible(vs) == {v \in vs : RowSecurity => status[v] = "published"}

ReadRules(r) ==
    /\ req[r].at = "rules"
    /\ Reads(r, req[r], [at |-> "verdict",
             messages |-> Messages(Visible(req[r].pins), req[r].answers)])

\* Mutant: the messages are written apart from the verdict they explain.
WriteVerdictAlone(r) ==
    /\ req[r].at = "verdict"
    /\ contract' = [contract EXCEPT !.verdict = Verdict(req[r].messages)]
    /\ validated' = TRUE
    /\ Writes(r)
    /\ UNCHANGED saved

\* validationMessages: undefined leaves the column as it is.
WriteVerdict(r) ==
    /\ req[r].at = "verdict"
    /\ contract' = [contract EXCEPT
          !.verdict = Verdict(req[r].messages),
          !.messages = IF req[r].messages # {} THEN req[r].messages ELSE @]
    /\ validated' = TRUE
    /\ Writes(r)
    /\ UNCHANGED saved

-----------------------------------------------------------------------------
\* A statement fails or the process dies: what was not committed is gone.
Fail(r) ==
    /\ req[r] # Idle
    /\ Goto(r, Idle)
    /\ UNCHANGED <<status, current, contract, saved, validated>>

\* The publisher goes on editing.
Editing ==
    /\ \E v \in VersionIds :
          \/ Content!Draft(v) \/ Content!Submit(v) \/ Content!Approve(v)
          \/ Content!SendBack(v) \/ Content!Deprecate(v)
          \/ Content!Publish(v, Owner[v])
    /\ UNCHANGED <<contract, req, saved, validated, raced>>

Init ==
    /\ Content!Init
    /\ contract = NoContract
    /\ req = [r \in Requests |-> Idle]
    /\ saved = {}
    /\ validated = FALSE
    /\ raced = FALSE

Handle(r) ==
    \/ ReadTemplate(r) \/ ResolvePins(r) \/ CreateContract(r)
    \/ ReadForSave(r) \/ WriteAnswers(r)
    \/ ReadForComplete(r) \/ WriteComplete(r)
    \/ ReadForValidate(r) \/ ReadRules(r) \/ WriteVerdict(r)
    \/ Fail(r)

Next == Editing \/ \E r \in Requests : Handle(r)

Spec == Init /\ [][Next]_vars

-----------------------------------------------------------------------------
(***************************************************************************)
(* Properties that hold however the requests interleave.                   *)
(***************************************************************************)

\* The variables range over what the columns and the handlers' locals can hold.
TypeOK ==
    /\ status \in [VersionIds -> {"none", "draft", "review", "approved",
                                  "published", "deprecated"}]
    /\ current \in [Entities -> VersionIds \cup {NoVersion}]
    /\ contract \in {NoContract} \cup ContractRow
    /\ req \in [Requests -> Request]
    /\ saved \subseteq Questions
    /\ validated \in BOOLEAN
    /\ raced \in BOOLEAN

\* A contract pins at most one version of each clause in its template's
\* slots, and only versions that were published (contract/routes.ts resolves
\* the pointers in a later statement than it checks the template).
PinsWerePublished ==
    contract # NoContract =>
        /\ status[contract.template] \in {"published", "deprecated"}
        /\ \A v \in contract.pins :
              /\ status[v] \in {"published", "deprecated"}
              /\ Owner[v] \in Slots[contract.template]
        /\ \A v, w \in contract.pins : Owner[v] = Owner[w] => v = w

\* A verdict other than "valid" comes with messages that explain it, also
\* when two validations run at once (the column is written conditionally).
VerdictIsExplained ==
    contract # NoContract =>
        /\ contract.verdict = "has_conflicts" =>
              \E m \in contract.messages : m.severity = "hard"
        /\ contract.verdict = "has_warnings" =>
              /\ contract.messages # {}
              /\ \A m \in contract.messages : m.severity # "hard"

(***************************************************************************)
(* Properties of requests that run one after the other, in any order and   *)
(* however often: what they promise is lost only when two overlap.         *)
(***************************************************************************)

\* An answer whose save was acknowledged is in the contract.
NoAnswerLost ==
    ~raced => \A q \in saved : contract.answers[q] # Unset

\* Once validated, a contract has no conflict or warning that its stored
\* verdict does not show, although PATCH never resets the verdict: answers
\* only accumulate and the rules of the pins do not change.  Row security
\* must not hide a pin: the validation sees no rule of a hidden version.
VerdictCovers(verdict, messages) ==
    CASE verdict = "has_conflicts" -> TRUE
      [] verdict = "has_warnings"  -> \A m \in messages : m.severity # "hard"
      [] verdict = "valid"         -> messages = {}

ValidatedVerdictHolds ==
    ~raced /\ validated /\ Visible(contract.pins) = contract.pins
    => VerdictCovers(contract.verdict,
                     Messages(contract.pins, contract.answers))

\* The answers of a completed contract no longer change.
AnswersFrozen ==
    contract # NoContract /\ contract.stage = "completed"
    => contract'.answers = contract.answers

\* The step that completes a contract finds a draft without conflicts.
CompletionChecked ==
    \A r \in Requests :
        req[r].at = "complete" /\ contract' # contract /\ contract'.stage = "completed"
        => contract.stage = "draft" /\ contract.verdict # "has_conflicts"

\* Whatever is still in flight when a contract is completed, it stays
\* completed, and its pins are those it was created with.  As long as requests
\* do not overlap, its answers stay too, and it was a draft without conflicts.
CompletedIsFinal ==
    [][/\ contract # NoContract =>
             /\ contract'.template = contract.template
             /\ contract'.pins = contract.pins
             /\ contract.stage = "completed" => contract'.stage = "completed"
       /\ ~raced' => AnswersFrozen /\ CompletionChecked]_vars

(***************************************************************************)
(* What an error message of the code says of every contract and what two   *)
(* overlapping requests break.                                             *)
(***************************************************************************)

\* "Cannot update a completed contract": also not through a save that read
\* the draft before.
CompletedAnswersFrozen == [][AnswersFrozen]_vars
=============================================================================
