------------------------ MODULE ContractLifecycle_proofs ------------------------
(***************************************************************************)
(* Proofs about ContractLifecycle, for every catalogue, every set of       *)
(* questions and values, any finite number of concurrent requests, with    *)
(* and without row security.                                               *)
(*                                                                         *)
(* What a handler read may be out of date when it writes.  PendingOK says  *)
(* what stays true all the same, because publication is never undone and   *)
(* the contract is never removed; UnracedOK what also stays true as long   *)
(* as no two requests were in flight at once.                              *)
(***************************************************************************)
EXTENDS ContractLifecycle, FiniteSetTheorems, TLAPS

WasPublished == {v \in VersionIds : status[v] \in {"published", "deprecated"}}

\* A pointer names a version of its entity that was published.
PointersOK ==
    \A e \in Entities :
        current[e] # NoVersion =>
            current[e] \in WasPublished /\ Owner[current[e]] = e

\* What is promised of the pins of a contract made from template t.
PinsOK(pins, t) ==
    /\ \A v \in pins : v \in WasPublished /\ Owner[v] \in Slots[t]
    /\ \A v, w \in pins : Owner[v] = Owner[w] => v = w

PendingOK(q) ==
    /\ q.at \in {"resolve", "create"} => q.template \in WasPublished
    /\ q.at = "create" => PinsOK(q.pins, q.template)
    /\ q.at \in {"save", "complete", "rules", "verdict"} =>
          contract # NoContract

AllVisible == Visible(contract.pins) = contract.pins

UnracedOK(q) ==
    /\ q.at = "save" =>
          /\ contract.stage = "draft"
          /\ \A x \in Questions :
                x \in q.asked \/ contract.answers[x] # Unset =>
                    q.answers[x] # Unset
    /\ q.at = "complete" => Completable(contract)
    /\ q.at = "rules" => /\ q.pins = contract.pins
                         /\ q.answers = contract.answers
    /\ q.at = "verdict" /\ AllVisible =>
          q.messages = Messages(contract.pins, contract.answers)

AtMostOne ==
    \A r, s \in Requests : req[r] # Idle /\ req[s] # Idle => r = s

IInv ==
    /\ TypeOK
    /\ PointersOK
    /\ \A r \in Requests : PendingOK(req[r])
    /\ PinsWerePublished
    /\ VerdictIsExplained
    /\ contract = NoContract => saved = {} /\ ~validated
    /\ ~raced => AtMostOne /\ \A r \in Requests : UnracedOK(req[r])
    /\ NoAnswerLost
    /\ ValidatedVerdictHolds

-----------------------------------------------------------------------------
(***************************************************************************)
(* Lemmas about requests.                                                  *)
(***************************************************************************)

\* The field at tells which kind of pending request a request is.
LEMMA RequestKinds ==
    ASSUME NEW q \in Request
    PROVE  /\ q = Idle <=> q.at = "idle"
           /\ q.at \in {"idle", "complete", "resolve", "create", "save",
                       "rules", "verdict"}
           /\ q.at \in {"resolve", "create"} => q.template \in TemplateVersions
           /\ q.at \in {"create", "rules"} => q.pins \subseteq ClauseVersions
           /\ q.at \in {"save", "rules"} => q.answers \in Answers
           /\ q.at = "save" => q.asked \subseteq Questions
           /\ q.at = "verdict" => q.messages \subseteq AllRules
BY DEF Request, Idle

\* An idle request relies on nothing.
LEMMA IdleOK == /\ Idle \in Request /\ Idle.at = "idle"
                /\ PendingOK(Idle) /\ UnracedOK(Idle)
                /\ PendingOK(Idle)' /\ UnracedOK(Idle)'
BY DEF Request, Idle, PendingOK, UnracedOK

\* What Goto does to the variables of the requests.
LEMMA GotoTypes ==
    ASSUME TypeOK, NEW r \in Requests, NEW p \in Request, Goto(r, p)
    PROVE  /\ req' \in [Requests -> Request]
           /\ req'[r] = p
           /\ \A s \in Requests \ {r} : req'[s] = req[s]
           /\ raced' \in BOOLEAN
           /\ ~raced' => ~raced
BY DEF TypeOK, Goto

\* As long as the history variable is FALSE, at most one request is pending.
LEMMA GotoAtMostOne ==
    ASSUME TypeOK, NEW r \in Requests, NEW p \in Request, Goto(r, p), ~raced'
    PROVE  AtMostOne'
<1> DEFINE Pending == {s \in Requests : req'[s] # Idle}
<1>1. ~(Cardinality(Pending) > 1)
  BY DEF Goto, TypeOK
<1>2. IsFiniteSet(Pending) /\ Cardinality(Pending) \in Nat
  BY RequestsAreFinite, FS_Subset, FS_CardinalityType
<1> SUFFICES ASSUME NEW s \in Pending, NEW t \in Pending, s # t
             PROVE  FALSE
  BY DEF AtMostOne
<1>3. IsFiniteSet({s}) /\ Cardinality({s}) = 1
  BY FS_Singleton
<1>4. Cardinality({s} \cup {t}) = 2
  <2>1. t \notin {s}
    OBVIOUS
  <2>2. Cardinality({s} \cup {t}) = Cardinality({s}) + 1
    BY <1>3, <2>1, FS_AddElement
  <2> QED BY <1>3, <2>2
<1>5. Cardinality({s} \cup {t}) <= Cardinality(Pending)
  BY <1>2, FS_Subset
<1> QED BY <1>1, <1>2, <1>4, <1>5

\* A read: one request moves on, and what it remembers is true.
LEMMA QuietStep ==
    ASSUME IInv, NEW r \in Requests, NEW p \in Request, Goto(r, p),
           UNCHANGED <<status, current, contract, saved, validated>>,
           PendingOK(p), ~raced => UnracedOK(p)
    PROVE  IInv'
<1>1. TypeOK'
  BY GotoTypes DEF IInv, TypeOK
<1>2. PointersOK' /\ PinsWerePublished' /\ VerdictIsExplained'
  BY DEF IInv, PointersOK, PinsWerePublished, VerdictIsExplained, WasPublished
<1>3. \A q : PendingOK(q)' <=> PendingOK(q)
  BY DEF PendingOK, PinsOK, WasPublished
<1>4. \A q : UnracedOK(q)' <=> UnracedOK(q)
  BY DEF UnracedOK, AllVisible, Visible, Completable
<1>5. \A s \in Requests : PendingOK(req'[s])
  BY GotoTypes DEF IInv
<1>6. ~raced' => AtMostOne' /\ \A s \in Requests : UnracedOK(req'[s])
  BY GotoTypes, GotoAtMostOne DEF IInv
<1>7. (contract = NoContract => saved = {} /\ ~validated)'
  BY DEF IInv
<1>8. NoAnswerLost' /\ ValidatedVerdictHolds'
  BY GotoTypes DEF IInv, NoAnswerLost, ValidatedVerdictHolds, Visible
<1> QED BY <1>1, <1>2, <1>3, <1>4, <1>5, <1>6, <1>7, <1>8 DEF IInv

\* A write: the request ends, the contract is there and keeps its template
\* and its pins.
LEMMA WriteStep ==
    ASSUME IInv, NEW r \in Requests, Writes(r), req[r] # Idle,
           contract # NoContract, contract' \in ContractRow,
           contract'.template = contract.template,
           contract'.pins = contract.pins,
           saved' \subseteq Questions, validated' \in BOOLEAN,
           VerdictIsExplained',
           ~raced => NoAnswerLost' /\ ValidatedVerdictHolds'
    PROVE  IInv'
<1>1. contract' # NoContract
  BY DEF ContractRow, NoContract
<1>2. Goto(r, Idle) /\ UNCHANGED <<status, current>>
  BY DEF Writes
<1>3. TypeOK'
  BY <1>2, IdleOK, GotoTypes DEF IInv, TypeOK
<1>4. PointersOK' /\ PinsWerePublished'
  BY <1>1, <1>2 DEF IInv, PointersOK, PinsWerePublished, WasPublished
<1>5. \A s \in Requests : PendingOK(req[s])'
  <2> TAKE s \in Requests
  <2>1. CASE s = r
    BY <2>1, <1>2, IdleOK, GotoTypes DEF IInv
  <2>2. CASE s # r
    <3>1. req'[s] = req[s] /\ PendingOK(req[s])
      BY <2>2, <1>2, IdleOK, GotoTypes DEF IInv
    <3> QED BY <3>1, <1>1, <1>2 DEF PendingOK, PinsOK, WasPublished
  <2> QED BY <2>1, <2>2
<1>6. ~raced' => AtMostOne' /\ \A s \in Requests : UnracedOK(req[s])'
  <2> SUFFICES ASSUME ~raced'
               PROVE  AtMostOne' /\ \A s \in Requests : UnracedOK(req[s])'
    OBVIOUS
  <2>1. AtMostOne'
    BY <1>2, IdleOK, GotoAtMostOne DEF IInv
  <2>2. ~raced
    BY <1>2, IdleOK, GotoTypes DEF IInv
  <2>3. \A s \in Requests : req'[s] = Idle
    BY <1>2, <2>2, IdleOK, GotoTypes DEF IInv, AtMostOne
  <2> QED BY <2>1, <2>3, IdleOK
<1>7. NoAnswerLost' /\ ValidatedVerdictHolds'
  BY <1>2, IdleOK, GotoTypes DEF IInv, NoAnswerLost, ValidatedVerdictHolds
<1> QED BY <1>1, <1>3, <1>4, <1>5, <1>6, <1>7 DEF IInv

-----------------------------------------------------------------------------
(***************************************************************************)
(* POST /contracts                                                         *)
(***************************************************************************)

\* The template version has been found published.
LEMMA ReadTemplateOK ==
    ASSUME IInv, NEW r \in Requests, ReadTemplate(r)
    PROVE  IInv'
<1>1. PICK t \in TemplateVersions :
          /\ status[t] = "published"
          /\ Reads(r, Idle, [at |-> "resolve", template |-> t])
  BY DEF ReadTemplate
<1> DEFINE p == [at |-> "resolve", template |-> t]
<1>2. p \in Request
  BY DEF Request
<1>3. PendingOK(p) /\ UnracedOK(p)
  BY <1>1 DEF PendingOK, UnracedOK, WasPublished, TemplateVersions
<1> QED BY <1>1, <1>2, <1>3, QuietStep DEF Reads

\* The pointers of different clauses name versions of different clauses.
LEMMA PointersArePins ==
    ASSUME IInv, NEW t \in TemplateVersions
    PROVE  /\ PublishedPointers(Slots[t]) \subseteq ClauseVersions
           /\ PinsOK(PublishedPointers(Slots[t]), t)
<1>1. Slots[t] \subseteq Clauses
  BY SlotsAreClauses
<1>2. ASSUME NEW v \in PublishedPointers(Slots[t])
      PROVE  /\ v \in ClauseVersions /\ v \in WasPublished
             /\ Owner[v] \in Slots[t]
             /\ current[Owner[v]] = v
  BY <1>1, <1>2
     DEF PublishedPointers, IInv, PointersOK, Entities, WasPublished,
         ClauseVersions
<1> QED BY <1>2 DEF PinsOK

\* What is pinned has been published.
LEMMA ResolvePinsOK ==
    ASSUME IInv, NEW r \in Requests, ResolvePins(r)
    PROVE  IInv'
<1> DEFINE t == req[r].template
           p == [at |-> "create", template |-> t,
                 pins |-> PublishedPointers(Slots[t])]
<1>1. req[r] \in Request /\ req[r].at = "resolve" /\ PendingOK(req[r])
  BY DEF ResolvePins, IInv, TypeOK
<1>2. t \in TemplateVersions /\ t \in WasPublished
  BY <1>1, RequestKinds DEF PendingOK
<1>3. p \in Request
  BY <1>2, PointersArePins DEF Request
<1>4. PendingOK(p) /\ UnracedOK(p)
  BY <1>2, PointersArePins DEF PendingOK, UnracedOK
<1>5. Goto(r, p) /\ UNCHANGED <<status, current, contract, saved, validated>>
  BY DEF ResolvePins, Reads
<1> QED BY <1>3, <1>4, <1>5, QuietStep

\* The new contract has the pins that were resolved.
LEMMA CreateContractOK ==
    ASSUME IInv, NEW r \in Requests, CreateContract(r)
    PROVE  IInv'
<1> DEFINE q == req[r]
<1>1. q \in Request /\ q.at = "create" /\ PendingOK(q) /\ q # Idle
  BY IdleOK DEF CreateContract, IInv, TypeOK
<1>2. /\ q.template \in TemplateVersions /\ q.template \in WasPublished
      /\ q.pins \subseteq ClauseVersions /\ PinsOK(q.pins, q.template)
  BY <1>1, RequestKinds DEF PendingOK
<1>3. /\ contract = NoContract
      /\ contract' = [stage |-> "draft", template |-> q.template,
                       pins |-> q.pins,
                       answers |-> [x \in Questions |-> Unset],
                       verdict |-> "valid", messages |-> {}]
      /\ Goto(r, Idle)
      /\ UNCHANGED <<status, current, saved, validated>>
  BY DEF CreateContract, Writes
<1>4. contract' \in ContractRow /\ contract' # NoContract
  BY <1>2, <1>3 DEF ContractRow, Answers, Verdicts, NoContract
<1>5. TypeOK'
  BY <1>3, <1>4, IdleOK, GotoTypes DEF IInv, TypeOK
<1>6. PointersOK' /\ PinsWerePublished' /\ VerdictIsExplained'
  BY <1>2, <1>3
     DEF IInv, PointersOK, PinsWerePublished, VerdictIsExplained, PinsOK,
         WasPublished
<1>7. \A s \in Requests : PendingOK(req[s])'
  <2> TAKE s \in Requests
  <2>1. CASE s = r
    BY <2>1, <1>3, IdleOK, GotoTypes DEF IInv
  <2>2. CASE s # r
    <3>1. req'[s] = req[s] /\ PendingOK(req[s])
      BY <2>2, <1>3, IdleOK, GotoTypes DEF IInv
    <3> QED BY <3>1, <1>3, <1>4 DEF PendingOK, PinsOK, WasPublished
  <2> QED BY <2>1, <2>2
<1>8. ~raced' => AtMostOne' /\ \A s \in Requests : UnracedOK(req[s])'
  <2> SUFFICES ASSUME ~raced'
               PROVE  AtMostOne' /\ \A s \in Requests : UnracedOK(req[s])'
    OBVIOUS
  <2>1. AtMostOne'
    BY <1>3, IdleOK, GotoAtMostOne DEF IInv
  <2>2. ~raced
    BY <1>3, IdleOK, GotoTypes DEF IInv
  <2>3. \A s \in Requests : req'[s] = Idle
    BY <1>1, <1>3, <2>2, IdleOK, GotoTypes DEF IInv, AtMostOne
  <2> QED BY <2>1, <2>3, IdleOK
<1>9. NoAnswerLost' /\ ValidatedVerdictHolds'
  BY <1>3 DEF IInv, NoAnswerLost, ValidatedVerdictHolds
<1> QED BY <1>4, <1>5, <1>6, <1>7, <1>8, <1>9 DEF IInv

-----------------------------------------------------------------------------
(***************************************************************************)
(* PATCH /contracts/:id                                                    *)
(***************************************************************************)

\* What Merge returns, for a body that answers the questions of asked.
LEMMA MergeProperties ==
    ASSUME NEW existing \in Answers, NEW asked \in SUBSET Questions,
           NEW input \in [asked -> Values]
    PROVE  /\ Merge(existing, input) \in Answers
           /\ \A x \in Questions :
                 x \in asked \/ existing[x] # Unset =>
                     Merge(existing, input)[x] # Unset
BY UnsetIsUndefined DEF Merge, Answers

\* The answers to be written were merged with those of a draft.
LEMMA ReadForSaveOK ==
    ASSUME IInv, NEW r \in Requests, ReadForSave(r)
    PROVE  IInv'
<1>1. PICK asked \in SUBSET Questions : \E input \in [asked -> Values] :
          /\ contract # NoContract
          /\ MayUpdate(contract.stage)
          /\ Reads(r, Idle, [at |-> "save", asked |-> asked,
                             answers |-> Merge(contract.answers, input)])
  BY DEF ReadForSave
<1>2. PICK input \in [asked -> Values] :
          /\ contract # NoContract
          /\ MayUpdate(contract.stage)
          /\ Reads(r, Idle, [at |-> "save", asked |-> asked,
                             answers |-> Merge(contract.answers, input)])
  BY <1>1
<1> DEFINE p == [at |-> "save", asked |-> asked,
                 answers |-> Merge(contract.answers, input)]
<1>3. contract.answers \in Answers
  BY <1>2 DEF IInv, TypeOK, ContractRow
<1>4. p \in Request
  BY <1>3, MergeProperties DEF Request
<1>5. PendingOK(p)
  BY <1>2 DEF PendingOK
<1>6. UnracedOK(p)
  BY <1>2, <1>3, MergeProperties DEF UnracedOK, MayUpdate
<1> QED BY <1>2, <1>4, <1>5, <1>6, QuietStep DEF Reads

\* Fewer messages are covered by whatever covers more.
LEMMA CoversFewer ==
    ASSUME NEW verdict \in Verdicts, NEW more, NEW fewer \in SUBSET more,
           VerdictCovers(verdict, more)
    PROVE  VerdictCovers(verdict, fewer)
BY DEF VerdictCovers, Verdicts

\* Answers that leave nothing unset that was set violate no further rule.
LEMMA AnswersOnlyHelp ==
    ASSUME NEW vs \in SUBSET ClauseVersions,
           NEW old \in Answers, NEW new \in Answers,
           \A x \in Questions : old[x] # Unset => new[x] # Unset
    PROVE  Messages(vs, new) \subseteq Messages(vs, old)
<1> DEFINE present == {Owner[v] : v \in vs}
           rules == UNION {Rules[v] : v \in vs}
<1>1. rules \subseteq AllRules
  BY DEF AllRules
<1>2. ASSUME NEW rule \in rules, Violated(rule, present, new)
      PROVE  Violated(rule, present, old)
  BY <1>1, <1>2, RulesAskQuestions DEF Violated
<1> QED BY <1>2 DEF Messages

\* The save preserves the invariant.
LEMMA WriteAnswersOK ==
    ASSUME IInv, NEW r \in Requests, WriteAnswers(r)
    PROVE  IInv'
<1> DEFINE q == req[r]
<1>1. q \in Request /\ q.at = "save" /\ PendingOK(q) /\ q # Idle
  BY IdleOK DEF WriteAnswers, IInv, TypeOK
<1>2. q.answers \in Answers /\ q.asked \subseteq Questions
  BY <1>1, RequestKinds
<1>3. contract # NoContract /\ contract \in ContractRow
  BY <1>1 DEF PendingOK, IInv, TypeOK
<1>4. /\ contract' = [contract EXCEPT !.answers = q.answers]
      /\ saved' = saved \cup q.asked
      /\ Writes(r)
      /\ UNCHANGED <<status, validated>>
  BY DEF WriteAnswers, Writes
<1>5. /\ contract' \in ContractRow
      /\ contract'.answers = q.answers
      /\ contract'.template = contract.template
      /\ contract'.pins = contract.pins
      /\ contract'.verdict = contract.verdict
      /\ contract'.messages = contract.messages
  BY <1>2, <1>3, <1>4 DEF ContractRow
<1>6. contract' # NoContract
  BY <1>5 DEF ContractRow, NoContract
<1>7. VerdictIsExplained'
  BY <1>3, <1>5 DEF IInv, VerdictIsExplained
<1>8. saved' \subseteq Questions /\ validated' \in BOOLEAN
  BY <1>2, <1>4 DEF IInv, TypeOK
<1>9. ASSUME ~raced PROVE NoAnswerLost' /\ ValidatedVerdictHolds'
  <2>1. \A x \in Questions :
            x \in q.asked \/ contract.answers[x] # Unset =>
                q.answers[x] # Unset
    BY <1>1, <1>9 DEF IInv, UnracedOK
  <2>2. NoAnswerLost'
    <3>1. \A x \in saved : x \in Questions /\ contract.answers[x] # Unset
      BY <1>9 DEF IInv, TypeOK, NoAnswerLost
    <3>2. \A x \in saved' : q.answers[x] # Unset
      BY <1>2, <1>4, <2>1, <3>1
    <3> QED BY <1>5, <3>2 DEF NoAnswerLost
  <2>3. ASSUME validated', Visible(contract.pins)' = contract'.pins
        PROVE  VerdictCovers(contract.verdict,
                             Messages(contract.pins, q.answers))
    <3>1. Visible(contract.pins) = contract.pins
      BY <1>4, <1>5, <2>3 DEF Visible
    <3>2. VerdictCovers(contract.verdict,
                        Messages(contract.pins, contract.answers))
      BY <1>4, <1>9, <2>3, <3>1 DEF IInv, ValidatedVerdictHolds
    <3>3. Messages(contract.pins, q.answers)
              \subseteq Messages(contract.pins, contract.answers)
      BY <1>2, <1>3, <2>1, AnswersOnlyHelp DEF ContractRow
    <3> QED BY <1>3, <3>2, <3>3, CoversFewer DEF ContractRow
  <2>4. ValidatedVerdictHolds'
    BY <1>5, <2>3 DEF ValidatedVerdictHolds
  <2> QED BY <2>2, <2>4
<1> QED BY <1>1, <1>3, <1>4, <1>5, <1>7, <1>8, <1>9, WriteStep

-----------------------------------------------------------------------------
(***************************************************************************)
(* POST /contracts/:id/complete                                            *)
(***************************************************************************)

\* The contract has been found to be a draft without conflicts.
LEMMA ReadForCompleteOK ==
    ASSUME IInv, NEW r \in Requests, ReadForComplete(r)
    PROVE  IInv'
<1> DEFINE p == [at |-> "complete"]
<1>1. p \in Request
  BY DEF Request
<1>2. PendingOK(p) /\ UnracedOK(p)
  BY DEF PendingOK, UnracedOK, ReadForComplete
<1> QED BY <1>1, <1>2, QuietStep DEF ReadForComplete, Reads

\* The completion preserves the invariant.
LEMMA WriteCompleteOK ==
    ASSUME IInv, NEW r \in Requests, WriteComplete(r)
    PROVE  IInv'
<1> DEFINE q == req[r]
<1>1. q.at = "complete" /\ PendingOK(q) /\ q # Idle
  BY IdleOK DEF WriteComplete, IInv
<1>2. contract # NoContract /\ contract \in ContractRow
  BY <1>1 DEF PendingOK, IInv, TypeOK
<1>3. /\ contract' = [contract EXCEPT !.stage = "completed"]
      /\ Writes(r)
      /\ UNCHANGED <<status, saved, validated>>
  BY DEF WriteComplete, Writes
<1>4. /\ contract' \in ContractRow
      /\ contract'.answers = contract.answers
      /\ contract'.template = contract.template
      /\ contract'.pins = contract.pins
      /\ contract'.verdict = contract.verdict
      /\ contract'.messages = contract.messages
  BY <1>2, <1>3 DEF ContractRow
<1>5. VerdictIsExplained'
  BY <1>2, <1>4 DEF IInv, VerdictIsExplained
<1>6. saved' \subseteq Questions /\ validated' \in BOOLEAN
  BY <1>3 DEF IInv, TypeOK
<1>7. ASSUME ~raced PROVE NoAnswerLost' /\ ValidatedVerdictHolds'
  BY <1>3, <1>4, <1>7 DEF IInv, NoAnswerLost, ValidatedVerdictHolds, Visible
<1> QED BY <1>1, <1>2, <1>3, <1>4, <1>5, <1>6, <1>7, WriteStep

-----------------------------------------------------------------------------
(***************************************************************************)
(* POST /contracts/:id/validate                                            *)
(***************************************************************************)

\* Pins and answers are those of the contract.
LEMMA ReadForValidateOK ==
    ASSUME IInv, NEW r \in Requests, ReadForValidate(r)
    PROVE  IInv'
<1> DEFINE p == [at |-> "rules", pins |-> contract.pins,
                 answers |-> contract.answers]
<1>1. contract # NoContract /\ contract \in ContractRow
  BY DEF ReadForValidate, IInv, TypeOK
<1>2. p \in Request
  BY <1>1 DEF Request, ContractRow
<1>3. PendingOK(p) /\ UnracedOK(p)
  BY <1>1 DEF PendingOK, UnracedOK
<1> QED BY <1>2, <1>3, QuietStep DEF ReadForValidate, Reads

\* If all pins are visible, the messages are those of the contract.
LEMMA ReadRulesOK ==
    ASSUME IInv, NEW r \in Requests, ReadRules(r)
    PROVE  IInv'
<1> DEFINE q == req[r]
           p == [at |-> "verdict",
                 messages |-> Messages(Visible(q.pins), q.answers)]
<1>1. q \in Request /\ q.at = "rules" /\ PendingOK(q)
  BY DEF ReadRules, IInv, TypeOK
<1>2. q.pins \subseteq ClauseVersions
  BY <1>1, RequestKinds
<1>3. Messages(Visible(q.pins), q.answers) \subseteq AllRules
  BY <1>2 DEF Messages, Visible, AllRules
<1>4. p \in Request
  BY <1>3 DEF Request
<1>5. PendingOK(p)
  BY <1>1 DEF PendingOK
<1>6. ~raced => UnracedOK(p)
  BY <1>1 DEF IInv, UnracedOK, AllVisible
<1>7. Goto(r, p) /\ UNCHANGED <<status, current, contract, saved, validated>>
  BY DEF ReadRules, Reads
<1> QED BY <1>4, <1>5, <1>6, <1>7, QuietStep

\* A verdict is explained by, and covers, the messages it is made from.
LEMMA VerdictProperties ==
    ASSUME NEW messages
    PROVE  /\ Verdict(messages) \in Verdicts
           /\ VerdictCovers(Verdict(messages), messages)
           /\ Verdict(messages) = "has_conflicts" =>
                 \E m \in messages : m.severity = "hard"
           /\ Verdict(messages) = "has_warnings" =>
                 /\ messages # {}
                 /\ \A m \in messages : m.severity # "hard"
<1>1. CASE \E m \in messages : m.severity = "hard"
  <2>1. Verdict(messages) = "has_conflicts"
    BY <1>1 DEF Verdict
  <2> QED BY <1>1, <2>1 DEF Verdicts, VerdictCovers
<1>2. CASE \A m \in messages : m.severity # "hard"
  <2>1. Verdict(messages) = IF messages = {} THEN "valid" ELSE "has_warnings"
    BY <1>2 DEF Verdict
  <2> QED BY <1>2, <2>1 DEF Verdicts, VerdictCovers
<1> QED BY <1>1, <1>2

\* Writing the verdict preserves the invariant.
LEMMA WriteVerdictOK ==
    ASSUME IInv, NEW r \in Requests, WriteVerdict(r)
    PROVE  IInv'
<1> DEFINE q == req[r]
           written == IF q.messages # {} THEN q.messages ELSE contract.messages
<1>1. q \in Request /\ q.at = "verdict" /\ PendingOK(q) /\ q # Idle
  BY IdleOK DEF WriteVerdict, IInv, TypeOK
<1>2. q.messages \subseteq AllRules
  BY <1>1, RequestKinds
<1>3. contract # NoContract /\ contract \in ContractRow
  BY <1>1 DEF PendingOK, IInv, TypeOK
<1>4. /\ contract' = [contract EXCEPT !.verdict = Verdict(q.messages),
                                      !.messages = written]
      /\ Writes(r)
      /\ UNCHANGED <<status, saved>>
      /\ validated' = TRUE
  BY DEF WriteVerdict, Writes
<1>5. /\ contract' \in ContractRow
      /\ contract'.answers = contract.answers
      /\ contract'.template = contract.template
      /\ contract'.pins = contract.pins
      /\ contract'.verdict = Verdict(q.messages)
      /\ contract'.messages = written
  BY <1>2, <1>3, <1>4, VerdictProperties DEF ContractRow
<1>6. VerdictIsExplained'
  BY <1>5, VerdictProperties DEF VerdictIsExplained
<1>7. saved' \subseteq Questions /\ validated' \in BOOLEAN
  BY <1>4 DEF IInv, TypeOK
<1>8. ASSUME ~raced PROVE NoAnswerLost' /\ ValidatedVerdictHolds'
  <2>1. NoAnswerLost'
    BY <1>4, <1>5, <1>8 DEF IInv, NoAnswerLost
  <2>2. ASSUME Visible(contract.pins)' = contract'.pins
        PROVE  q.messages = Messages(contract.pins, contract.answers)
    <3>1. Visible(contract.pins) = contract.pins
      BY <1>4, <1>5, <2>2 DEF Visible
    <3> QED BY <1>1, <1>8, <3>1 DEF IInv, UnracedOK, AllVisible
  <2>3. ValidatedVerdictHolds'
    BY <1>5, <2>2, VerdictProperties DEF ValidatedVerdictHolds
  <2> QED BY <2>1, <2>3
<1> QED BY <1>1, <1>3, <1>4, <1>5, <1>6, <1>7, <1>8, WriteStep

-----------------------------------------------------------------------------
(***************************************************************************)
(* Everything else.                                                        *)
(***************************************************************************)

\* A request that ends without a write preserves the invariant.
LEMMA FailOK ==
    ASSUME IInv, NEW r \in Requests, Fail(r)
    PROVE  IInv'
BY IdleOK, QuietStep DEF Fail

\* What the publisher never undoes.
LEMMA EditingProperties ==
    ASSUME IInv, Editing
    PROVE  /\ status' \in [VersionIds -> {"none", "draft", "review",
                               "approved", "published", "deprecated"}]
           /\ current' \in [Entities -> VersionIds \cup {NoVersion}]
           /\ WasPublished \subseteq WasPublished'
           /\ \A v \in WasPublished :
                 status'[v] = "published" => status[v] = "published"
           /\ PointersOK'
<1>1. PICK v \in VersionIds :
          \/ Content!Draft(v) \/ Content!Submit(v) \/ Content!Approve(v)
          \/ Content!SendBack(v) \/ Content!Deprecate(v)
          \/ Content!Publish(v, Owner[v])
  BY DEF Editing
<1>2. Owner[v] \in Entities
  BY OwnerIsEntity
<1>3. CASE \/ Content!Draft(v) \/ Content!Submit(v) \/ Content!Approve(v)
           \/ Content!SendBack(v) \/ Content!Deprecate(v)
  BY <1>3
     DEF Content!Draft, Content!Submit, Content!Approve, Content!SendBack,
         Content!Deprecate, IInv, TypeOK, PointersOK, WasPublished
<1>4. CASE Content!Publish(v, Owner[v])
  BY <1>2, <1>4 DEF Content!Publish, IInv, TypeOK, PointersOK, WasPublished
<1> QED BY <1>1, <1>3, <1>4

\* The publisher's steps preserve the invariant.
LEMMA EditingOK ==
    ASSUME IInv, Editing
    PROVE  IInv'
<1>1. UNCHANGED <<contract, req, saved, validated, raced>>
  BY DEF Editing
<1>2. TypeOK' /\ PointersOK'
  BY <1>1, EditingProperties DEF IInv, TypeOK
<1>3. PinsWerePublished'
  BY <1>1, EditingProperties
     DEF IInv, TypeOK, PinsWerePublished, WasPublished, ContractRow,
         TemplateVersions, ClauseVersions
<1>4. \A q : PendingOK(q) => PendingOK(q)'
  BY <1>1, EditingProperties DEF PendingOK, PinsOK
<1>5. AllVisible' /\ contract # NoContract => AllVisible
  <2> SUFFICES ASSUME contract # NoContract,
                      NEW v \in contract.pins,
                      RowSecurity => status'[v] = "published"
               PROVE  RowSecurity => status[v] = "published"
    BY <1>1 DEF AllVisible, Visible
  <2>1. v \in WasPublished
    BY DEF IInv, TypeOK, PinsWerePublished, WasPublished, ContractRow,
           ClauseVersions
  <2> QED BY <2>1, EditingProperties
<1>6. \A q : PendingOK(q) /\ UnracedOK(q) => UnracedOK(q)'
  BY <1>1, <1>5 DEF PendingOK, UnracedOK, Completable
<1>7. VerdictIsExplained' /\ NoAnswerLost'
  BY <1>1 DEF IInv, VerdictIsExplained, NoAnswerLost
<1>8. ValidatedVerdictHolds'
  BY <1>1, <1>5 DEF IInv, ValidatedVerdictHolds, AllVisible
<1>9. (~raced => AtMostOne /\ \A r \in Requests : UnracedOK(req[r]))'
  BY <1>1, <1>6 DEF IInv, AtMostOne
<1>10. (\A r \in Requests : PendingOK(req[r]))'
  BY <1>1, <1>4 DEF IInv
<1> QED BY <1>1, <1>2, <1>3, <1>7, <1>8, <1>9, <1>10 DEF IInv

\* The invariant holds at first.
LEMMA InitOK == Init => IInv
<1> SUFFICES ASSUME Init PROVE IInv
  OBVIOUS
<1>1. TypeOK
  BY IdleOK DEF Init, Content!Init, TypeOK, Entities
<1>2. PointersOK
  BY DEF Init, Content!Init, PointersOK, Entities
<1>3. contract = NoContract /\ saved = {} /\ ~validated
      /\ \A r \in Requests : req[r] = Idle
  BY DEF Init
<1>4. PinsWerePublished /\ VerdictIsExplained
      /\ NoAnswerLost /\ ValidatedVerdictHolds
  BY <1>3 DEF PinsWerePublished, VerdictIsExplained, NoAnswerLost,
              ValidatedVerdictHolds
<1> QED BY <1>1, <1>2, <1>3, <1>4, IdleOK DEF IInv, AtMostOne

\* Every step preserves the invariant.
LEMMA StepOK == IInv /\ [Next]_vars => IInv'
<1> SUFFICES ASSUME IInv, [Next]_vars PROVE IInv'
  OBVIOUS
<1>1. CASE Editing
  BY <1>1, EditingOK
<1>2. ASSUME NEW r \in Requests, Handle(r) PROVE IInv'
  BY <1>2, ReadTemplateOK, ResolvePinsOK, CreateContractOK, ReadForSaveOK,
     WriteAnswersOK, ReadForCompleteOK, WriteCompleteOK, ReadForValidateOK,
     ReadRulesOK, WriteVerdictOK, FailOK
     DEF Handle
<1>3. CASE UNCHANGED vars
  <2>1. TypeOK' /\ PointersOK' /\ PinsWerePublished' /\ VerdictIsExplained'
    BY <1>3 DEF vars, IInv, TypeOK, PointersOK, PinsWerePublished,
                VerdictIsExplained, WasPublished
  <2>2. (\A r \in Requests : PendingOK(req[r]))'
    BY <1>3 DEF vars, IInv, PendingOK, PinsOK, WasPublished
  <2>3. (~raced => AtMostOne /\ \A r \in Requests : UnracedOK(req[r]))'
    BY <1>3 DEF vars, IInv, AtMostOne, UnracedOK, AllVisible, Visible,
                Completable
  <2>4. NoAnswerLost' /\ ValidatedVerdictHolds'
    BY <1>3 DEF vars, IInv, NoAnswerLost, ValidatedVerdictHolds, Visible
  <2> QED BY <1>3, <2>1, <2>2, <2>3, <2>4 DEF vars, IInv
<1> QED BY <1>1, <1>2, <1>3 DEF Next

\* The invariant holds in every reachable state.
THEOREM Invariance == Spec => []IInv
BY InitOK, StepOK, PTL DEF Spec

-----------------------------------------------------------------------------
(***************************************************************************)
(* The properties.                                                         *)
(***************************************************************************)

\* Columns and locals range over what they can hold.
THEOREM TypeCorrect == Spec => []TypeOK
<1>1. IInv => TypeOK
  BY DEF IInv
<1> QED BY <1>1, Invariance, PTL

\* However requests and publications interleave, a contract pins at most one
\* version of each clause of its template, and only published ones.
THEOREM PinsCorrect == Spec => []PinsWerePublished
<1>1. IInv => PinsWerePublished
  BY DEF IInv
<1> QED BY <1>1, Invariance, PTL

\* However validations interleave, a verdict comes with its explanation.
THEOREM VerdictsExplained == Spec => []VerdictIsExplained
<1>1. IInv => VerdictIsExplained
  BY DEF IInv
<1> QED BY <1>1, Invariance, PTL

\* Requests that do not overlap lose no acknowledged answer.
THEOREM AnswersKept == Spec => []NoAnswerLost
<1>1. IInv => NoAnswerLost
  BY DEF IInv
<1> QED BY <1>1, Invariance, PTL

\* Requests that do not overlap leave a verdict that covers what validation
\* would find now, although saves never reset it.
THEOREM VerdictsHold == Spec => []ValidatedVerdictHolds
<1>1. IInv => ValidatedVerdictHolds
  BY DEF IInv
<1> QED BY <1>1, Invariance, PTL

\* What a step may do to the contract.
LEMMA ContractSteps ==
    ASSUME IInv, [Next]_vars
    PROVE  \/ contract' = contract
           \/ contract = NoContract /\ contract'.stage = "draft"
           \/ /\ contract # NoContract
              /\ contract' \in ContractRow
              /\ contract'.template = contract.template
              /\ contract'.pins = contract.pins
              /\ contract'.stage \in {contract.stage, "completed"}
              /\ \/ contract'.answers = contract.answers
                 \/ ~raced' => contract.stage = "draft"
<1>1. ASSUME NEW r \in Requests, CreateContract(r)
      PROVE  contract = NoContract /\ contract'.stage = "draft"
  BY <1>1 DEF CreateContract
<1> DEFINE Kept ==
        /\ contract # NoContract
        /\ contract' \in ContractRow
        /\ contract'.template = contract.template
        /\ contract'.pins = contract.pins
        /\ contract'.stage \in {contract.stage, "completed"}
<1>2. ASSUME NEW r \in Requests, WriteAnswers(r)
      PROVE  Kept /\ (~raced' => contract.stage = "draft")
  <2>1. req[r] \in Request /\ req[r].at = "save" /\ PendingOK(req[r])
    BY <1>2 DEF WriteAnswers, IInv, TypeOK
  <2>2. contract # NoContract /\ contract \in ContractRow
    BY <2>1 DEF PendingOK, IInv, TypeOK
  <2>3. req[r].answers \in Answers
    BY <2>1, RequestKinds
  <2>4. Kept
    BY <1>2, <2>2, <2>3 DEF WriteAnswers, ContractRow
  <2>5. ~raced' => ~raced
    BY <1>2, IdleOK, GotoTypes DEF IInv, WriteAnswers, Writes
  <2> QED BY <2>1, <2>4, <2>5 DEF IInv, UnracedOK
<1>3. ASSUME NEW r \in Requests, WriteComplete(r)
      PROVE  Kept /\ contract'.answers = contract.answers
  <2>1. req[r].at = "complete" /\ PendingOK(req[r])
    BY <1>3 DEF WriteComplete, IInv
  <2>2. contract # NoContract /\ contract \in ContractRow
    BY <2>1 DEF PendingOK, IInv, TypeOK
  <2> QED BY <1>3, <2>2 DEF WriteComplete, ContractRow
<1>4. ASSUME NEW r \in Requests, WriteVerdict(r)
      PROVE  Kept /\ contract'.answers = contract.answers
  <2>1. req[r] \in Request /\ req[r].at = "verdict" /\ PendingOK(req[r])
    BY <1>4 DEF WriteVerdict, IInv, TypeOK
  <2>2. contract # NoContract /\ contract \in ContractRow
    BY <2>1 DEF PendingOK, IInv, TypeOK
  <2>3. req[r].messages \subseteq AllRules
    BY <2>1, RequestKinds
  <2> QED BY <1>4, <2>2, <2>3, VerdictProperties DEF WriteVerdict, ContractRow
<1>5. ASSUME NEW r \in Requests,
             \/ ReadTemplate(r) \/ ResolvePins(r) \/ ReadForSave(r)
             \/ ReadForComplete(r) \/ ReadForValidate(r) \/ ReadRules(r)
             \/ Fail(r)
      PROVE  contract' = contract
  BY <1>5 DEF ReadTemplate, ResolvePins, ReadForSave, ReadForComplete,
              ReadForValidate, ReadRules, Fail, Reads
<1>6. CASE Editing \/ UNCHANGED vars
  BY <1>6 DEF Editing, vars
<1> QED BY <1>1, <1>2, <1>3, <1>4, <1>5, <1>6 DEF Next, Handle

\* A completed contract stays completed and pins are never changed, whatever
\* is in flight; without overlapping requests its answers are frozen and only
\* a draft without conflicts is completed.
THEOREM CompletionCorrect == Spec => CompletedIsFinal
<1>1. ASSUME IInv, [Next]_vars
      PROVE  /\ contract # NoContract =>
                   /\ contract'.template = contract.template
                   /\ contract'.pins = contract.pins
                   /\ contract.stage = "completed" =>
                         contract'.stage = "completed"
             /\ ~raced' => AnswersFrozen
  BY <1>1, ContractSteps DEF AnswersFrozen
<1>2. ASSUME IInv, [Next]_vars, ~raced'
      PROVE  CompletionChecked
  <2> SUFFICES ASSUME NEW r \in Requests, req[r].at = "complete",
                      contract' # contract
               PROVE  contract.stage = "draft"
                      /\ contract.verdict # "has_conflicts"
    BY DEF CompletionChecked
  <2>1. ~raced
    <3>1. CASE Editing \/ UNCHANGED vars
      BY <1>2, <3>1 DEF Editing, vars
    <3>2. ASSUME NEW s \in Requests, Handle(s) PROVE ~raced
      BY <1>2, <3>2
         DEF Handle, ReadTemplate, ResolvePins, CreateContract, ReadForSave,
             WriteAnswers, ReadForComplete, WriteComplete, ReadForValidate,
             ReadRules, WriteVerdict, Fail, Reads, Writes, Goto
    <3> QED BY <1>2, <3>1, <3>2 DEF Next
  <2> QED BY <1>2, <2>1 DEF IInv, UnracedOK, Completable
<1> QED BY <1>1, <1>2, Invariance, PTL DEF CompletedIsFinal, Spec
=============================================================================
