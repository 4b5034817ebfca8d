--------------------------- MODULE ApiProcess_proofs ---------------------------
(***************************************************************************)
(* Proofs about ApiProcess, part by part, for any numbers of users,        *)
(* requests, sessions, clients, handlers, uploads, imports and limits:     *)
(* first who may come in (the users and their accounts, the sessions, the  *)
(* rate limiter), then what is kept beside the main tables (the event bus, *)
(* the logos, the imports, the search indices).  The parts share no        *)
(* variable, so a step of one leaves the invariants of the others alone.   *)
(*                                                                         *)
(* A user's account may lag behind while a handler still has calls to make *)
(* of Keycloak.  Covers says that these calls will bring it up to date;    *)
(* Followed that every account either is, or will be by the calls of the   *)
(* one request in flight.                                                  *)
(***************************************************************************)
EXTENDS ApiProcess, Subsequences_proofs

\* No two users have one account.
AccountsDistinct ==
    \A i, j \in Users :
        users[i].account # Null /\ users[i].account = users[j].account => i = j

\* A SCIM handler knows the account of the user it read, if that is still
\* there; no other user comes to have its id.
KnowsUser(c) ==
    c.at \in {"scimPatch", "scimDelete"} =>
        /\ c.user \in Users \cup deleted
        /\ c.user \in Users => users[c.user].account = c.account

\* Calls that are still to be made bring the account up to date.
Covers(calls, user, account) ==
    LET right == IF user.status = "inactive" THEN Disable ELSE Enable
        wrong == IF user.status = "inactive" THEN Enable ELSE Disable
    IN /\ \A n \in DOMAIN calls : calls[n] \notin {RemoveAccount, wrong}
       /\ \/ user.role \in account.roles
          \/ \E n \in DOMAIN calls : calls[n] = Grant(user.role)
       /\ \/ account.enabled = (user.status # "inactive")
          \/ \E n \in DOMAIN calls : calls[n] = right

UpToDate(user, account) ==
    /\ account.enabled = (user.status # "inactive")
    /\ user.role \in account.roles

SyncsOn(c, a) == c.at = "sync" /\ c.account = a

Followed(i) ==
    LET a == users[i].account IN
    /\ accounts[a] # Null
    /\ (\A r \in Callers : ~SyncsOn(call[r], a)) => UpToDate(users[i], accounts[a])
    /\ \A r \in Callers :
          SyncsOn(call[r], a) => Covers(call[r].calls, users[i], accounts[a])

OneRequest ==
    \A q, r \in Callers : call[q] # Waiting /\ call[r] # Waiting => q = r

-----------------------------------------------------------------------------
(***************************************************************************)
(* Lemmas about handlers and their calls.                                  *)
(***************************************************************************)

\* The field at tells which kind of handler state a handler state is.
LEMMA CallKinds ==
    ASSUME NEW c \in Call
    PROVE  /\ c = Waiting <=> c.at = "idle"
           /\ c.at = "account" => c.email \in Emails /\ c.calls \in Seq(KeycloakCalls)
           /\ c.at = "scimInsert" => /\ c.email \in Emails /\ c.role \in Roles
                                     /\ c.status \in {"active", "inactive"}
           /\ c.at = "scimPatch" => c.user \in Ids /\ c.patch \in Patches
           /\ c.at = "scimDelete" => c.user \in Ids
           /\ c.at \in {"scimPatch", "scimDelete"} =>
                 c.account \in Emails \cup {Null}
           /\ c.at = "sync" => c.account \in Emails /\ c.calls \in Seq(KeycloakCalls)
BY DEF Call, Waiting

\* The calls to Keycloak can be told apart.
LEMMA CallsAreDifferent ==
    /\ Enable \in KeycloakCalls /\ Disable \in KeycloakCalls
    /\ RemoveAccount \in KeycloakCalls
    /\ Enable # Disable /\ Enable # RemoveAccount /\ Disable # RemoveAccount
    /\ Enable.do = "enable" /\ Disable.do = "disable" /\ RemoveAccount.do = "remove"
    /\ \A role \in Roles : /\ Grant(role) \in KeycloakCalls
                           /\ Grant(role) \notin {Enable, Disable, RemoveAccount}
                           /\ Grant(role).do = "grant" /\ Grant(role).role = role
    /\ \A c \in KeycloakCalls : \/ c \in {Enable, Disable, RemoveAccount}
                                \/ \E role \in Roles : c = Grant(role)
<1>1. /\ Enable.do = "enable" /\ Disable.do = "disable" /\ RemoveAccount.do = "remove"
      /\ \A role \in Roles : Grant(role).do = "grant" /\ Grant(role).role = role
  BY DEF Enable, Disable, RemoveAccount, Grant
<1>2. Enable # Disable /\ Enable # RemoveAccount /\ Disable # RemoveAccount
  BY <1>1
<1>3. \A role \in Roles : Grant(role) \notin {Enable, Disable, RemoveAccount}
  BY <1>1
<1>4. KeycloakCalls = {Enable, Disable, RemoveAccount} \cup {Grant(role) : role \in Roles}
  BY DEF KeycloakCalls
<1> QED BY <1>1, <1>2, <1>3, <1>4

\* A handler goes on with its calls, or ends.
LEMMA ProceedTypes ==
    ASSUME ProvisioningTypeOK, NEW r \in Callers,
           NEW a \in Emails \cup {Null}, NEW calls \in Seq(KeycloakCalls),
           Proceed(r, a, calls)
    PROVE  /\ call' \in [Callers -> Call]
           /\ \A q \in Callers \ {r} : call'[q] = call[q]
           /\ call'[r].at \in {"idle", "sync"}
           /\ a = Null \/ calls = <<>> => call'[r] = Waiting
           /\ a # Null /\ calls # <<>> =>
                 /\ SyncsOn(call'[r], a) /\ call'[r].calls = calls
<1> DEFINE c == IF a = Null \/ calls = <<>> THEN Waiting
                ELSE [at |-> "sync", account |-> a, calls |-> calls]
<1>1. c \in Call
  BY DEF Call
<1>2. call' = [call EXCEPT ![r] = c]
  BY DEF Proceed, Goto
<1>3. call'[r] = c /\ \A q \in Callers \ {r} : call'[q] = call[q]
  BY <1>2 DEF ProvisioningTypeOK
<1>4. call' \in [Callers -> Call]
  BY <1>1, <1>2 DEF ProvisioningTypeOK
<1> QED BY <1>3, <1>4 DEF Waiting, SyncsOn

\* A step of one request moves no other one.
LEMMA GotoCall ==
    ASSUME ProvisioningTypeOK, NEW r \in Callers, NEW c \in Call, Goto(r, c)
    PROVE  /\ call' \in [Callers -> Call] /\ call'[r] = c
           /\ \A q \in Callers \ {r} : call'[q] = call[q]
BY DEF ProvisioningTypeOK, Goto

\* A request at rest knows no user and syncs no account.
LEMMA WaitingIsCall == /\ Waiting \in Call /\ Waiting.at = "idle"
                       /\ KnowsUser(Waiting) /\ KnowsUser(Waiting)'
                       /\ \A a : ~SyncsOn(Waiting, a)
BY DEF Waiting, Call, KnowsUser, SyncsOn

\* Type of a user's row.
LEMMA UserTypes ==
    ASSUME ProvisioningTypeOK, NEW i \in Users
    PROVE  i \in Ids /\ users[i] \in User /\ users[i].account \in Emails \cup {Null}
BY DEF ProvisioningTypeOK, Users, User

-----------------------------------------------------------------------------
(***************************************************************************)
(* What changes of a newRow do to the parts of the invariant that do not mind *)
(* disturbances.                                                           *)
(***************************************************************************)
BaseInv ==
    /\ ProvisioningTypeOK
    /\ EmailsAreUnique
    /\ DeletedStaysDeleted
    /\ AccountsDistinct
    /\ \A r \in Callers : KnowsUser(call[r])

\* The other handlers know their users still, and r does.
KnowledgeKept(r) ==
    /\ call' \in [Callers -> Call]
    /\ \A q \in Callers \ {r} : call'[q] = call[q]
    /\ call'[r].at \notin {"scimPatch", "scimDelete"}

OtherTypes == accounts' \in [Emails -> Account \cup {Null}] /\ disturbed' \in BOOLEAN

\* A row is updated that keeps its account and takes no email of another.
LEMMA RowUpdated ==
    ASSUME BaseInv, OtherTypes, NEW r \in Callers, KnowledgeKept(r),
           NEW i \in Users, NEW newRow \in User, newRow.account = users[i].account,
           newRow.email = users[i].email \/ EmailIsFree(newRow.email, i),
           users' = [users EXCEPT ![i] = newRow], deleted' = deleted
    PROVE  BaseInv' /\ Users' = Users
<1>1. /\ users' \in [Ids -> User \cup {Null}] /\ users'[i] = newRow /\ newRow # Null
      /\ \A j \in Ids \ {i} : users'[j] = users[j]
  BY UserTypes, NullIsNothing DEF BaseInv, ProvisioningTypeOK
<1>2. Users' = Users /\ Users \subseteq Ids
  BY <1>1 DEF Users
<1>3. ProvisioningTypeOK'
  BY <1>1 DEF BaseInv, ProvisioningTypeOK, OtherTypes, KnowledgeKept
<1>4. EmailsAreUnique'
  <2>1. \A j \in Users \ {i} : users[j].email # newRow.email
    BY DEF BaseInv, EmailsAreUnique, EmailIsFree
  <2> QED BY <1>1, <1>2, <2>1 DEF BaseInv, EmailsAreUnique
<1>5. AccountsDistinct'
  BY <1>1, <1>2 DEF BaseInv, AccountsDistinct
<1>6. DeletedStaysDeleted'
  BY <1>2 DEF BaseInv, DeletedStaysDeleted
<1>7. \A c : KnowsUser(c) => KnowsUser(c)'
  BY <1>1, <1>2 DEF KnowsUser
<1>8. \A q \in Callers : KnowsUser(call[q])'
  BY <1>7 DEF BaseInv, KnowsUser, KnowledgeKept
<1> QED BY <1>2, <1>3, <1>4, <1>5, <1>6, <1>8 DEF BaseInv

\* A row is inserted for an id that was never used, with an email of its
\* own.
LEMMA RowInserted ==
    ASSUME BaseInv, OtherTypes, NEW r \in Callers, KnowledgeKept(r),
           NEW i \in Ids, users[i] = Null, i \notin deleted,
           NEW newRow \in User, newRow.account = Null, EmailIsFree(newRow.email, i),
           users' = [users EXCEPT ![i] = newRow], deleted' = deleted
    PROVE  /\ BaseInv' /\ Users' = Users \cup {i} /\ i \notin Users
           /\ users'[i] = newRow /\ \A j \in Users : users'[j] = users[j]
<1>1. /\ users' \in [Ids -> User \cup {Null}] /\ users'[i] = newRow /\ newRow # Null
      /\ \A j \in Ids \ {i} : users'[j] = users[j]
  BY NullIsNothing DEF BaseInv, ProvisioningTypeOK
<1>2. Users' = Users \cup {i} /\ i \notin Users /\ Users \subseteq Ids
  BY <1>1 DEF Users
<1>3. ProvisioningTypeOK'
  BY <1>1 DEF BaseInv, ProvisioningTypeOK, OtherTypes, KnowledgeKept
<1>4. EmailsAreUnique'
  <2>1. \A j \in Users : users[j].email # newRow.email
    BY <1>2 DEF EmailIsFree
  <2> QED BY <1>1, <1>2, <2>1 DEF BaseInv, EmailsAreUnique
<1>5. AccountsDistinct'
  BY <1>1, <1>2 DEF BaseInv, AccountsDistinct
<1>6. DeletedStaysDeleted'
  BY <1>2 DEF BaseInv, DeletedStaysDeleted
<1>7. \A c : KnowsUser(c) => KnowsUser(c)'
  BY <1>1, <1>2 DEF KnowsUser
<1>8. \A q \in Callers : KnowsUser(call[q])'
  BY <1>7 DEF BaseInv, KnowsUser, KnowledgeKept
<1> QED BY <1>1, <1>2, <1>3, <1>4, <1>5, <1>6, <1>8 DEF BaseInv

\* A row is deleted.
LEMMA RowDeleted ==
    ASSUME BaseInv, OtherTypes, NEW r \in Callers, KnowledgeKept(r),
           NEW i \in Users,
           users' = [users EXCEPT ![i] = Null], deleted' = deleted \cup {i}
    PROVE  /\ BaseInv' /\ Users' = Users \ {i}
           /\ \A j \in Users' : users'[j] = users[j]
<1>1. /\ users' \in [Ids -> User \cup {Null}] /\ users'[i] = Null /\ i \in Ids
      /\ \A j \in Ids \ {i} : users'[j] = users[j]
  BY UserTypes DEF BaseInv, ProvisioningTypeOK
<1>2. Users' = Users \ {i} /\ Users \subseteq Ids
  BY <1>1 DEF Users
<1>3. ProvisioningTypeOK'
  BY <1>1 DEF BaseInv, ProvisioningTypeOK, OtherTypes, KnowledgeKept
<1>4. EmailsAreUnique' /\ AccountsDistinct' /\ DeletedStaysDeleted'
  BY <1>1, <1>2 DEF BaseInv, EmailsAreUnique, AccountsDistinct,
                    DeletedStaysDeleted
<1>5. \A c : KnowsUser(c) => KnowsUser(c)'
  BY <1>1, <1>2 DEF KnowsUser
<1>6. \A q \in Callers : KnowsUser(call[q])'
  BY <1>5 DEF BaseInv, KnowsUser, KnowledgeKept
<1> QED BY <1>1, <1>2, <1>3, <1>4, <1>6 DEF BaseInv

\* A step that writes no row.
LEMMA RowsUnchanged ==
    ASSUME BaseInv, OtherTypes, NEW r \in Callers,
           call' \in [Callers -> Call],
           \A q \in Callers \ {r} : call'[q] = call[q],
           KnowsUser(call[r])', UNCHANGED <<users, deleted>>
    PROVE  BaseInv' /\ Users' = Users
<1>1. Users' = Users
  BY DEF Users
<1>2. ProvisioningTypeOK'
  BY DEF BaseInv, ProvisioningTypeOK, OtherTypes
<1>3. EmailsAreUnique' /\ AccountsDistinct' /\ DeletedStaysDeleted'
  BY <1>1 DEF BaseInv, EmailsAreUnique, AccountsDistinct, DeletedStaysDeleted
<1>4. \A c : KnowsUser(c) => KnowsUser(c)'
  BY <1>1 DEF KnowsUser
<1>5. \A q \in Callers : KnowsUser(call[q])'
  BY <1>4 DEF BaseInv
<1> QED BY <1>1, <1>2, <1>3, <1>5 DEF BaseInv

-----------------------------------------------------------------------------
(***************************************************************************)
(* What handlers do to the users' accounts when r is the only request.     *)
(***************************************************************************)
AloneOn(r) == ~disturbed /\ \A q \in Callers \ {r} : call[q] = Waiting

Following == OneRequest /\ \A i \in Users : users[i].account # Null => Followed(i)

\* Followed, when calls are made by no one but r.
FollowedBy(r, i) ==
    LET a == users[i].account IN
    /\ accounts[a] # Null
    /\ ~SyncsOn(call[r], a) => UpToDate(users[i], accounts[a])
    /\ SyncsOn(call[r], a) => Covers(call[r].calls, users[i], accounts[a])

\* With one request under way, only that one can be bringing an account up
\* to date.
LEMMA FollowedByR ==
    ASSUME NEW r \in Callers, \A q \in Callers \ {r} : call[q] = Waiting
    PROVE  OneRequest /\ \A i : Followed(i) <=> FollowedBy(r, i)
<1>1. \A q \in Callers \ {r} : \A a : ~SyncsOn(call[q], a)
  BY WaitingIsCall
<1> QED BY <1>1 DEF OneRequest, Followed, FollowedBy

\* If that request will bring every account up to date, all accounts are
\* followed.
LEMMA FollowedByRNext ==
    ASSUME NEW r \in Callers, \A q \in Callers \ {r} : call'[q] = Waiting,
           \A i \in Users' : users'[i].account # Null => FollowedBy(r, i)'
    PROVE  Following'
<1>1. \A q \in Callers \ {r} : \A a : ~SyncsOn(call'[q], a)
  BY WaitingIsCall
<1>2. OneRequest'
  BY DEF OneRequest
<1>3. \A i \in Users' : users'[i].account # Null => Followed(i)'
  BY <1>1 DEF Followed, FollowedBy
<1> QED BY <1>2, <1>3 DEF Following

\* What is up to date stays so while r does nothing about accounts.
LEMMA UntouchedFollowed ==
    ASSUME BaseInv, Following, NEW r \in Callers, AloneOn(r),
           call[r].at # "sync",
           \A q \in Callers \ {r} : call'[q] = call[q],
           \A i \in Users' : users'[i].account # Null =>
              /\ i \in Users /\ users'[i] = users[i]
              /\ accounts'[users[i].account] = accounts[users[i].account]
              /\ ~SyncsOn(call'[r], users[i].account)
    PROVE  Following'
<1>1. \A q \in Callers \ {r} : call[q] = Waiting /\ call'[q] = Waiting
  BY DEF AloneOn
<1>2. ASSUME NEW i \in Users', users'[i].account # Null
      PROVE  FollowedBy(r, i)'
  <2>1. /\ i \in Users /\ users'[i] = users[i]
        /\ accounts'[users[i].account] = accounts[users[i].account]
        /\ ~SyncsOn(call'[r], users[i].account)
    BY <1>2
  <2>2. FollowedBy(r, i)
    BY <1>1, <1>2, <2>1, FollowedByR DEF Following
  <2>3. accounts[users[i].account] # Null
        /\ UpToDate(users[i], accounts[users[i].account])
    BY <2>2 DEF FollowedBy, SyncsOn
  <2> QED BY <2>1, <2>3 DEF FollowedBy, UpToDate
<1> QED BY <1>1, <1>2, FollowedByRNext

\* A handler that has changed the newRow of i goes on with calls that cover the
\* change.
LEMMA ChangeFollowed ==
    ASSUME BaseInv, Following, NEW r \in Callers, AloneOn(r), call[r].at # "sync",
           NEW i \in Users, Users' = Users,
           \A j \in Users \ {i} : users'[j] = users[j],
           users'[i].account = users[i].account, accounts' = accounts,
           NEW calls \in Seq(KeycloakCalls), Proceed(r, users[i].account, calls),
           users[i].account # Null /\ UpToDate(users[i], accounts[users[i].account]) =>
              IF calls = <<>> THEN UpToDate(users[i], accounts[users[i].account])'
              ELSE Covers(calls, users'[i], accounts[users[i].account])
    PROVE  Following'
<1> DEFINE a == users[i].account
<1>a. a \in Emails \cup {Null}
  BY UserTypes DEF BaseInv
<1>1. \A q \in Callers \ {r} : call[q] = Waiting /\ call'[q] = Waiting
  BY <1>a, ProceedTypes DEF AloneOn, BaseInv
<1>2. /\ a = Null \/ calls = <<>> => call'[r] = Waiting
      /\ a # Null /\ calls # <<>> => SyncsOn(call'[r], a) /\ call'[r].calls = calls
  BY <1>a, ProceedTypes DEF BaseInv
<1>3. ASSUME NEW j \in Users, users[j].account # Null
      PROVE  accounts[users[j].account] # Null
             /\ UpToDate(users[j], accounts[users[j].account])
  <2>1. FollowedBy(r, j)
    BY <1>1, <1>3, FollowedByR DEF Following
  <2> QED BY <2>1 DEF FollowedBy, SyncsOn
<1>4. ASSUME NEW j \in Users', users'[j].account # Null
      PROVE  FollowedBy(r, j)'
  <2>1. CASE j # i
    <3>1. j \in Users /\ users'[j] = users[j]
      BY <2>1
    <3>2. users[j].account # a
      BY <1>4, <2>1, <3>1 DEF BaseInv, AccountsDistinct
    <3>3. ~SyncsOn(call'[r], users[j].account)
      BY <1>2, <1>4, <3>1, <3>2, WaitingIsCall DEF SyncsOn
    <3> QED BY <1>3, <1>4, <3>1, <3>3 DEF FollowedBy, UpToDate
  <2>2. CASE j = i
    <3>1. a # Null /\ accounts[a] # Null /\ UpToDate(users[i], accounts[a])
      BY <1>3, <1>4, <2>2
    <3>2. CASE calls = <<>>
      <4>1. UpToDate(users[i], accounts[a])'
        BY <3>1, <3>2
      <4>2. ~SyncsOn(call'[r], a)
        BY <1>2, <3>2, WaitingIsCall
      <4> QED BY <2>2, <3>1, <4>1, <4>2 DEF FollowedBy
    <3>3. CASE calls # <<>>
      <4>1. SyncsOn(call'[r], a) /\ call'[r].calls = calls
        BY <1>2, <3>1, <3>3
      <4>2. Covers(calls, users'[i], accounts[a])
        BY <3>1, <3>3
      <4> QED BY <2>2, <3>1, <4>1, <4>2 DEF FollowedBy, Covers
    <3> QED BY <3>2, <3>3
  <2> QED BY <2>1, <2>2
<1> QED BY <1>1, <1>4, FollowedByRNext

-----------------------------------------------------------------------------
(***************************************************************************)
(* The handlers of identity and SCIM, one by one.                          *)
(***************************************************************************)
StepOK(r) == BaseInv' /\ (Following /\ AloneOn(r) => Following')

\* A row is changed and the calls that follow cover the change.
LEMMA RowChanged ==
    ASSUME BaseInv, disturbed' \in BOOLEAN, NEW r \in Callers,
           call[r].at # "sync",
           NEW i \in Users, NEW newRow \in User, newRow.account = users[i].account,
           newRow.email = users[i].email \/ EmailIsFree(newRow.email, i),
           users' = [users EXCEPT ![i] = newRow],
           NEW calls \in Seq(KeycloakCalls), Proceed(r, users[i].account, calls),
           \A account \in Account : UpToDate(users[i], account) =>
              IF calls = <<>> THEN UpToDate(newRow, account)
              ELSE Covers(calls, newRow, account),
           UNCHANGED <<accounts, deleted>>
    PROVE  StepOK(r)
<1> DEFINE a == users[i].account
<1>a. a \in Emails \cup {Null} /\ i \in Ids
  BY UserTypes DEF BaseInv
<1>1. /\ call' \in [Callers -> Call]
      /\ \A q \in Callers \ {r} : call'[q] = call[q]
      /\ call'[r].at \in {"idle", "sync"}
  BY <1>a, ProceedTypes DEF BaseInv
<1>2. OtherTypes /\ KnowledgeKept(r)
  BY <1>1 DEF OtherTypes, KnowledgeKept, BaseInv, ProvisioningTypeOK
<1>3. BaseInv' /\ Users' = Users
  BY <1>2, RowUpdated
<1>4. users'[i] = newRow /\ \A j \in Users \ {i} : users'[j] = users[j]
  BY <1>a, UserTypes DEF BaseInv, ProvisioningTypeOK
<1>5. ASSUME Following, AloneOn(r) PROVE Following'
  <2>1. ASSUME a # Null, UpToDate(users[i], accounts[a])
        PROVE  IF calls = <<>> THEN UpToDate(users[i], accounts[a])'
               ELSE Covers(calls, users'[i], accounts[a])
    <3>1. \A q \in Callers \ {r} : call[q] = Waiting
      BY <1>5 DEF AloneOn
    <3>2. FollowedBy(r, i)
      BY <1>5, <2>1, <3>1, FollowedByR DEF Following
    <3>3. accounts[a] \in Account
      BY <1>a, <2>1, <3>2 DEF FollowedBy, BaseInv, ProvisioningTypeOK
    <3> QED BY <1>4, <2>1, <3>3 DEF UpToDate
  <2>2. users'[i].account = users[i].account
    BY <1>4
  <2> QED BY <1>3, <1>4, <1>5, <2>1, <2>2, ChangeFollowed
<1> QED BY <1>3, <1>5 DEF StepOK

\* The lists of calls the handlers make.
LEMMA CallLists ==
    /\ \A c \in KeycloakCalls : <<c>> \in Seq(KeycloakCalls) /\ <<c>> # <<>>
    /\ \A role \in Roles : <<Grant(role)>> \in Seq(KeycloakCalls)
    /\ <<Enable>> \in Seq(KeycloakCalls) /\ <<Disable>> \in Seq(KeycloakCalls)
    /\ <<RemoveAccount>> \in Seq(KeycloakCalls)
    /\ <<>> \in Seq(KeycloakCalls)
BY CallsAreDifferent

\* A request at rest makes no calls.
LEMMA WaitingHandler ==
    ASSUME NEW r, call[r] = Waiting
    PROVE  call[r].at # "sync"
BY WaitingIsCall

\* PATCH of a role.
LEMMA ChangeRoleOK ==
    ASSUME BaseInv, disturbed' \in BOOLEAN, NEW r \in Callers, ChangeRole(r)
    PROVE  StepOK(r)
<1>1. PICK i \in Users, role \in Roles :
        /\ call[r] = Waiting
        /\ users' = [users EXCEPT ![i].role = role]
        /\ Proceed(r, users[i].account, <<Grant(role)>>)
        /\ UNCHANGED <<accounts, deleted>>
  BY DEF ChangeRole
<1> DEFINE newRow == [users[i] EXCEPT !.role = role]
<1>2. i \in Ids /\ users[i] \in User
  BY UserTypes DEF BaseInv
<1>3. /\ newRow \in User /\ newRow.account = users[i].account
      /\ newRow.email = users[i].email /\ newRow.status = users[i].status
      /\ newRow.role = role
  BY <1>2 DEF User
<1>4. users' = [users EXCEPT ![i] = newRow]
  BY <1>1
<1>5. \A account : UpToDate(users[i], account) =>
         Covers(<<Grant(role)>>, newRow, account)
  BY <1>3, CallsAreDifferent DEF UpToDate, Covers
<1>6. <<Grant(role)>> \in Seq(KeycloakCalls) /\ <<Grant(role)>> # <<>>
  BY CallLists
<1> HIDE DEF newRow
<1> QED BY <1>1, <1>3, <1>4, <1>5, <1>6, WaitingHandler, RowChanged

\* A status is set and the account enabled or disabled.
LEMMA SetStatusOK ==
    ASSUME BaseInv, disturbed' \in BOOLEAN, NEW r \in Callers,
           call[r].at # "sync", NEW i \in Users,
           NEW status \in {"active", "inactive"},
           users' = [users EXCEPT ![i].status = status],
           Proceed(r, users[i].account,
                   IF status = "active" THEN <<Enable>> ELSE <<Disable>>),
           UNCHANGED <<accounts, deleted>>
    PROVE  StepOK(r)
<1> DEFINE newRow == [users[i] EXCEPT !.status = status]
           calls == IF status = "active" THEN <<Enable>> ELSE <<Disable>>
<1>2. i \in Ids /\ users[i] \in User
  BY UserTypes DEF BaseInv
<1>3. /\ newRow \in User /\ newRow.account = users[i].account
      /\ newRow.email = users[i].email /\ newRow.role = users[i].role
      /\ newRow.status = status
  BY <1>2 DEF User, UserStatuses
<1>4. users' = [users EXCEPT ![i] = newRow]
  OBVIOUS
<1>5. \A account : UpToDate(users[i], account) => Covers(calls, newRow, account)
  <2>1. CASE status = "active"
    BY <1>3, <2>1, CallsAreDifferent DEF UpToDate, Covers
  <2>2. CASE status = "inactive"
    BY <1>3, <2>2, CallsAreDifferent DEF UpToDate, Covers
  <2> QED BY <2>1, <2>2
<1>6. calls \in Seq(KeycloakCalls) /\ calls # <<>>
  BY CallLists
<1>7. Proceed(r, users[i].account, calls)
  OBVIOUS
<1> HIDE DEF newRow, calls
<1> QED BY <1>3, <1>4, <1>5, <1>6, <1>7, RowChanged

\* Activation, deactivation and the SCIM DELETE, which deactivates.
LEMMA ActivateOK ==
    ASSUME BaseInv, disturbed' \in BOOLEAN, NEW r \in Callers,
           Activate(r) \/ Deactivate(r) \/ ScimDelete(r)
    PROVE  StepOK(r)
<1>1. CASE Activate(r)
  <2>1. PICK i \in Users :
          /\ call[r] = Waiting
          /\ users' = [users EXCEPT ![i].status = "active"]
          /\ Proceed(r, users[i].account, <<Enable>>)
          /\ UNCHANGED <<accounts, deleted>>
    BY <1>1 DEF Activate
  <2> QED BY <2>1, WaitingHandler, SetStatusOK
<1>2. CASE Deactivate(r)
  <2>1. PICK i \in Users :
          /\ call[r] = Waiting
          /\ users' = [users EXCEPT ![i].status = "inactive"]
          /\ Proceed(r, users[i].account, <<Disable>>)
          /\ UNCHANGED <<accounts, deleted>>
    BY <1>2 DEF Deactivate
  <2> QED BY <2>1, WaitingHandler, SetStatusOK
<1>3. CASE ScimDelete(r)
  <2>1. /\ call[r].at = "scimDelete" /\ call[r].user \in Users
        /\ users' = [users EXCEPT ![call[r].user].status = "inactive"]
        /\ Proceed(r, call[r].account, <<Disable>>)
        /\ UNCHANGED <<accounts, deleted>>
    BY <1>3 DEF ScimDelete
  <2>2. KnowsUser(call[r])
    BY DEF BaseInv
  <2>3. users[call[r].user].account = call[r].account
    BY <2>1, <2>2 DEF KnowsUser
  <2> QED BY <2>1, <2>3, SetStatusOK
<1> QED BY <1>1, <1>2, <1>3

\* The calls of a SCIM PATCH bring an account from the old row to the new
\* one.
LEMMA PatchCallsCover ==
    ASSUME NEW user \in User, NEW patch \in Patches
    PROVE  LET calls == PatchCalls(patch)
               newRow == Patched(user, patch)
           IN /\ calls \in Seq(KeycloakCalls) /\ newRow \in User
              /\ newRow.account = user.account
              /\ newRow.email = (IF patch.email = Null THEN user.email ELSE patch.email)
              /\ \A account \in Account : UpToDate(user, account) =>
                    IF calls = <<>> THEN UpToDate(newRow, account)
                    ELSE Covers(calls, newRow, account)
<1> DEFINE calls == PatchCalls(patch)
           newRow == Patched(user, patch)
<1>1. /\ patch.email \in Emails \cup {Null} /\ patch.role \in Roles \cup {Null}
      /\ patch.status \in {"active", "inactive", Null}
      /\ Null \notin {"active", "inactive"} /\ Null \notin Roles
  BY PatchesAreChanges, NullIsNothing DEF UserStatuses
<1>2. /\ newRow \in User /\ newRow.account = user.account
      /\ newRow.email = (IF patch.email = Null THEN user.email ELSE patch.email)
      /\ newRow.role = (IF patch.role = Null THEN user.role ELSE patch.role)
      /\ newRow.status = (IF patch.status = Null THEN user.status ELSE patch.status)
  BY <1>1 DEF Patched, User, UserStatuses
<1> HIDE DEF newRow
<1> DEFINE ofStatus == CASE patch.status = "active"   -> <<Enable>>
                         [] patch.status = "inactive" -> <<Disable>>
                         [] patch.status = Null       -> <<>>
           ofRole == IF patch.role = Null THEN <<>> ELSE <<Grant(patch.role)>>
<1>3. /\ patch.status = "active" => ofStatus = <<Enable>>
      /\ patch.status = "inactive" => ofStatus = <<Disable>>
      /\ patch.status = Null => ofStatus = <<>>
  BY <1>1
<1>4. /\ patch.role = Null => ofRole = <<>>
      /\ patch.role # Null => ofRole = <<Grant(patch.role)>>
  OBVIOUS
<1>5. calls = ofStatus \o ofRole
  BY DEF PatchCalls
<1> HIDE DEF ofStatus, ofRole
<1>6. ofStatus \in Seq(KeycloakCalls) /\ ofRole \in Seq(KeycloakCalls)
  BY <1>1, <1>3, <1>4, CallLists
<1> HIDE DEF calls
<1>7. calls \in Seq(KeycloakCalls)
  BY <1>5, <1>6
<1>8. \A n \in DOMAIN calls :
         \/ patch.status = "active" /\ calls[n] = Enable
         \/ patch.status = "inactive" /\ calls[n] = Disable
         \/ patch.role # Null /\ calls[n] = Grant(patch.role)
  BY <1>1, <1>3, <1>4, <1>5, <1>6
<1>9. /\ patch.status = "active" => \E n \in DOMAIN calls : calls[n] = Enable
      /\ patch.status = "inactive" => \E n \in DOMAIN calls : calls[n] = Disable
  <2>1. ASSUME patch.status # Null
        PROVE  1 \in DOMAIN calls /\ calls[1] = ofStatus[1]
    BY <1>1, <1>3, <1>5, <1>6, <2>1
  <2> QED BY <1>1, <1>3, <2>1
<1>10. patch.role # Null => \E n \in DOMAIN calls : calls[n] = Grant(patch.role)
  <2>1. ASSUME patch.role # Null
        PROVE  Len(calls) \in DOMAIN calls /\ calls[Len(calls)] = ofRole[1]
    BY <1>4, <1>5, <1>6, <2>1
  <2> QED BY <1>4, <2>1
<1>11. calls = <<>> => patch.status = Null /\ patch.role = Null
  BY <1>1, <1>9, <1>10
<1>12. ASSUME NEW account \in Account, UpToDate(user, account)
       PROVE  IF calls = <<>> THEN UpToDate(newRow, account)
              ELSE Covers(calls, newRow, account)
  <2>1. CASE calls = <<>>
    BY <1>2, <1>11, <1>12, <2>1 DEF UpToDate
  <2>2. CASE calls # <<>>
    <3>1. /\ newRow.role = user.role \/ (newRow.role = patch.role /\ patch.role # Null)
          /\ \/ patch.status = Null /\ newRow.status = user.status
             \/ patch.status = "active" /\ newRow.status = "active"
             \/ patch.status = "inactive" /\ newRow.status = "inactive"
      BY <1>1, <1>2
    <3>2. \/ newRow.role \in account.roles
          \/ \E n \in DOMAIN calls : calls[n] = Grant(newRow.role)
      BY <1>10, <1>12, <3>1 DEF UpToDate
    <3>3. /\ "active" # "inactive"
          /\ patch.role # Null => Grant(patch.role) \notin
                                    {Enable, Disable, RemoveAccount}
          /\ Enable # Disable /\ Enable # RemoveAccount /\ Disable # RemoveAccount
      BY <1>1, CallsAreDifferent
    <3>4. CASE newRow.status = "inactive"
      <4>1. patch.status # "active"
        BY <1>1, <3>1, <3>3, <3>4
      <4>2. \A n \in DOMAIN calls : calls[n] \notin {RemoveAccount, Enable}
        BY <1>8, <3>3, <4>1
      <4>3. \/ account.enabled = (newRow.status # "inactive")
            \/ \E n \in DOMAIN calls : calls[n] = Disable
        BY <1>9, <1>12, <3>1, <3>4 DEF UpToDate
      <4> QED BY <2>2, <3>2, <3>4, <4>2, <4>3 DEF Covers
    <3>5. CASE newRow.status # "inactive"
      <4>1. patch.status # "inactive"
        BY <1>1, <3>1, <3>3, <3>5
      <4>2. \A n \in DOMAIN calls : calls[n] \notin {RemoveAccount, Disable}
        BY <1>8, <3>3, <4>1
      <4>3. \/ account.enabled = (newRow.status # "inactive")
            \/ \E n \in DOMAIN calls : calls[n] = Enable
        BY <1>9, <1>12, <3>1, <3>5 DEF UpToDate
      <4> QED BY <2>2, <3>2, <3>5, <4>2, <4>3 DEF Covers
    <3> QED BY <3>4, <3>5
  <2> QED BY <2>1, <2>2
<1> QED BY <1>2, <1>7, <1>12 DEF calls, newRow

\* SCIM PATCH writes the row.
LEMMA ScimPatchOK ==
    ASSUME BaseInv, disturbed' \in BOOLEAN, NEW r \in Callers, ScimPatch(r)
    PROVE  StepOK(r)
<1> DEFINE i == call[r].user
           patch == call[r].patch
<1>1. /\ call[r].at = "scimPatch" /\ i \in Users /\ EmailIsFree(patch.email, i)
      /\ users' = [users EXCEPT ![i] = Patched(users[i], patch)]
      /\ Proceed(r, call[r].account, PatchCalls(patch))
      /\ UNCHANGED <<accounts, deleted>>
  BY DEF ScimPatch
<1>2. call[r] \in Call /\ KnowsUser(call[r])
  BY DEF BaseInv, ProvisioningTypeOK
<1>3. users[i].account = call[r].account /\ patch \in Patches
  BY <1>1, <1>2, CallKinds DEF KnowsUser
<1>4. users[i] \in User
  BY <1>1, UserTypes DEF BaseInv
<1>5. LET newRow == Patched(users[i], patch)
      IN  newRow.email = users[i].email \/ EmailIsFree(newRow.email, i)
  BY <1>1, <1>3, <1>4, PatchCallsCover
<1>6. LET newRow == Patched(users[i], patch)
      IN  newRow \in User /\ newRow.account = users[i].account
  BY <1>3, <1>4, PatchCallsCover
<1>7. call[r].at # "sync"
  BY <1>1
<1>8. Proceed(r, users[i].account, PatchCalls(patch))
  BY <1>1, <1>3
<1>9. PatchCalls(patch) \in Seq(KeycloakCalls)
  BY <1>3, <1>4, PatchCallsCover
<1>10. \A account \in Account : UpToDate(users[i], account) =>
          IF PatchCalls(patch) = <<>> THEN UpToDate(Patched(users[i], patch), account)
          ELSE Covers(PatchCalls(patch), Patched(users[i], patch), account)
  BY <1>3, <1>4, PatchCallsCover
<1> QED BY <1>1, <1>5, <1>6, <1>7, <1>8, <1>9, <1>10, RowChanged

\* A row is inserted for an invited or provisioned user.
LEMMA InsertOK ==
    ASSUME BaseInv, disturbed' \in BOOLEAN, NEW r \in Callers,
           call[r].at # "sync",
           NEW i \in Ids, NEW email \in Emails, NEW role \in Roles,
           NEW status \in UserStatuses, Insert(r, i, email, role, status)
    PROVE  StepOK(r)
<1> DEFINE newRow == [email |-> email, role |-> role, status |-> status,
                   account |-> Null]
           calls == <<Grant(role)>>
                    \o (IF status = "inactive" THEN <<Disable>> ELSE <<>>)
           c == [at |-> "account", email |-> email, calls |-> calls]
<1>1. /\ i \notin deleted /\ users[i] = Null /\ EmailIsFree(newRow.email, i)
      /\ users' = [users EXCEPT ![i] = newRow] /\ Goto(r, c)
      /\ UNCHANGED <<accounts, deleted>>
  BY DEF Insert
<1>2. newRow \in User /\ newRow.account = Null
  BY DEF User
<1>3. calls \in Seq(KeycloakCalls)
  <2>1. (IF status = "inactive" THEN <<Disable>> ELSE <<>>) \in Seq(KeycloakCalls)
    BY CallLists
  <2> QED BY <2>1, CallLists
<1>4. c \in Call /\ c.at = "account"
  BY <1>3 DEF Call
<1>5. /\ call' \in [Callers -> Call] /\ call'[r] = c
      /\ \A q \in Callers \ {r} : call'[q] = call[q]
  BY <1>1, <1>4, GotoCall DEF BaseInv
<1>6. OtherTypes /\ KnowledgeKept(r)
  BY <1>1, <1>4, <1>5 DEF OtherTypes, KnowledgeKept, BaseInv, ProvisioningTypeOK
<1> HIDE DEF newRow, c
<1>7. /\ BaseInv' /\ Users' = Users \cup {i} /\ i \notin Users
      /\ users'[i] = newRow /\ \A j \in Users : users'[j] = users[j]
  BY <1>1, <1>2, <1>6, RowInserted
<1>8. \A a : ~SyncsOn(call'[r], a)
  BY <1>4, <1>5 DEF SyncsOn
<1>9. ASSUME Following, AloneOn(r) PROVE Following'
  <2>1. \A j \in Users' : users'[j].account # Null =>
          /\ j \in Users /\ users'[j] = users[j]
          /\ accounts'[users[j].account] = accounts[users[j].account]
          /\ ~SyncsOn(call'[r], users[j].account)
    BY <1>1, <1>2, <1>7, <1>8
  <2> QED BY <1>5, <1>9, <2>1, UntouchedFollowed
<1> QED BY <1>7, <1>9 DEF StepOK

\* Invitations and the SCIM POST.
LEMMA InvitesOK ==
    ASSUME BaseInv, disturbed' \in BOOLEAN, NEW r \in Callers,
           Invite(r) \/ ScimInsert(r)
    PROVE  StepOK(r)
<1>1. CASE Invite(r)
  <2>1. PICK i \in Ids, email \in Emails, role \in Roles :
          Insert(r, i, email, role, "invited")
    BY <1>1 DEF Invite
  <2>2. call[r].at # "sync"
    BY <1>1, WaitingHandler DEF Invite
  <2> QED BY <2>1, <2>2, InsertOK DEF UserStatuses
<1>2. CASE ScimInsert(r)
  <2>1. call[r].at = "scimInsert"
    BY <1>2 DEF ScimInsert
  <2>2. PICK i \in Ids : Insert(r, i, call[r].email, call[r].role, call[r].status)
    BY <1>2 DEF ScimInsert
  <2>3. call[r] \in Call
    BY DEF BaseInv, ProvisioningTypeOK
  <2>4. /\ call[r].email \in Emails /\ call[r].role \in Roles
        /\ call[r].status \in UserStatuses
    BY <2>1, <2>3, CallKinds DEF UserStatuses
  <2> QED BY <2>1, <2>2, <2>4, InsertOK
<1> QED BY <1>1, <1>2

\* DELETE of a user.
LEMMA DeleteOK ==
    ASSUME BaseInv, disturbed' \in BOOLEAN, NEW r \in Callers, Delete(r)
    PROVE  StepOK(r)
<1>1. PICK i \in Users :
        /\ call[r] = Waiting /\ users' = [users EXCEPT ![i] = Null]
        /\ deleted' = deleted \cup {i}
        /\ Proceed(r, users[i].account, <<RemoveAccount>>)
        /\ UNCHANGED accounts
  BY DEF Delete
<1> DEFINE a == users[i].account
<1>2. a \in Emails \cup {Null} /\ i \in Ids
  BY UserTypes DEF BaseInv
<1>3. /\ call' \in [Callers -> Call]
      /\ \A q \in Callers \ {r} : call'[q] = call[q]
      /\ call'[r].at \in {"idle", "sync"}
      /\ a = Null => call'[r] = Waiting
      /\ a # Null => SyncsOn(call'[r], a)
  BY <1>1, <1>2, CallLists, ProceedTypes DEF BaseInv
<1>4. OtherTypes /\ KnowledgeKept(r)
  BY <1>1, <1>3 DEF OtherTypes, KnowledgeKept, BaseInv, ProvisioningTypeOK
<1>5. /\ BaseInv' /\ Users' = Users \ {i}
      /\ \A j \in Users' : users'[j] = users[j]
  BY <1>1, <1>4, RowDeleted
<1>6. ASSUME Following, AloneOn(r) PROVE Following'
  <2>1. ASSUME NEW j \in Users', users'[j].account # Null
        PROVE  /\ j \in Users /\ users'[j] = users[j]
               /\ accounts'[users[j].account] = accounts[users[j].account]
               /\ ~SyncsOn(call'[r], users[j].account)
    <3>1. j \in Users /\ j # i /\ users'[j] = users[j]
      BY <1>5
    <3>2. users[j].account # a
      BY <2>1, <3>1 DEF BaseInv, AccountsDistinct
    <3>3. ~SyncsOn(call'[r], users[j].account)
      BY <1>3, <3>2, WaitingIsCall DEF SyncsOn
    <3> QED BY <1>1, <3>1, <3>3
  <2>2. call[r].at # "sync"
    BY <1>1, WaitingHandler
  <2> QED BY <1>3, <1>6, <2>1, <2>2, UntouchedFollowed
<1> QED BY <1>5, <1>6 DEF StepOK

\* Reads, and a new account that could not be made, leave all tables alone.
LEMMA NoTableTouched ==
    ASSUME BaseInv, disturbed' \in BOOLEAN, NEW r \in Callers,
           call[r].at # "sync", NEW c \in Call, c.at # "sync", Goto(r, c),
           KnowsUser(c), UNCHANGED <<users, accounts, deleted>>
    PROVE  StepOK(r)
<1>1. /\ call' \in [Callers -> Call] /\ call'[r] = c
      /\ \A q \in Callers \ {r} : call'[q] = call[q]
  BY GotoCall DEF BaseInv
<1>2. OtherTypes
  BY DEF OtherTypes, BaseInv, ProvisioningTypeOK
<1>3. KnowsUser(call[r])'
  BY <1>1 DEF KnowsUser, Users
<1>4. BaseInv' /\ Users' = Users
  BY <1>1, <1>2, <1>3, RowsUnchanged
<1>5. ASSUME Following, AloneOn(r) PROVE Following'
  <2>1. \A a : ~SyncsOn(call'[r], a)
    BY <1>1 DEF SyncsOn
  <2> QED BY <1>1, <1>4, <1>5, <2>1, UntouchedFollowed
<1> QED BY <1>4, <1>5 DEF StepOK

\* The statements of the handlers that only read, and a new account that is
\* refused.
LEMMA ReadsOK ==
    ASSUME BaseInv, disturbed' \in BOOLEAN, NEW r \in Callers,
           \/ ScimLookUp(r) \/ ScimReadForPatch(r) \/ ScimReadForDelete(r)
           \/ NoNewAccount(r)
    PROVE  StepOK(r)
<1>1. CASE ScimLookUp(r)
  <2>1. PICK email \in Emails, role \in Roles, status \in {"active", "inactive"} :
          /\ call[r] = Waiting
          /\ Goto(r, [at |-> "scimInsert", email |-> email, role |-> role,
                      status |-> status])
          /\ UNCHANGED <<users, accounts, deleted>>
    BY <1>1 DEF ScimLookUp
  <2> DEFINE c == [at |-> "scimInsert", email |-> email, role |-> role,
                   status |-> status]
  <2>2. c \in Call /\ c.at = "scimInsert"
    BY DEF Call
  <2>3. Goto(r, c)
    BY <2>1
  <2> HIDE DEF c
  <2>4. KnowsUser(c)
    BY <2>2 DEF KnowsUser
  <2> QED BY <2>1, <2>2, <2>3, <2>4, WaitingHandler, NoTableTouched
<1>2. CASE ScimReadForPatch(r)
  <2>1. PICK i \in Users, patch \in Patches :
          /\ call[r] = Waiting
          /\ Goto(r, [at |-> "scimPatch", user |-> i, patch |-> patch,
                      account |-> users[i].account])
          /\ UNCHANGED <<users, accounts, deleted>>
    BY <1>2 DEF ScimReadForPatch
  <2> DEFINE c == [at |-> "scimPatch", user |-> i, patch |-> patch,
                   account |-> users[i].account]
  <2>2. i \in Ids /\ users[i].account \in Emails \cup {Null}
    BY UserTypes DEF BaseInv
  <2>3. c \in Call /\ c.at = "scimPatch" /\ c.user = i /\ c.account = users[i].account
    BY <2>2 DEF Call
  <2>4. Goto(r, c)
    BY <2>1
  <2> HIDE DEF c
  <2>5. KnowsUser(c)
    BY <2>3 DEF KnowsUser
  <2> QED BY <2>1, <2>3, <2>4, <2>5, WaitingHandler, NoTableTouched
<1>3. CASE ScimReadForDelete(r)
  <2>1. PICK i \in Users :
          /\ call[r] = Waiting
          /\ Goto(r, [at |-> "scimDelete", user |-> i,
                      account |-> users[i].account])
          /\ UNCHANGED <<users, accounts, deleted>>
    BY <1>3 DEF ScimReadForDelete
  <2> DEFINE c == [at |-> "scimDelete", user |-> i, account |-> users[i].account]
  <2>2. i \in Ids /\ users[i].account \in Emails \cup {Null}
    BY UserTypes DEF BaseInv
  <2>3. c \in Call /\ c.at = "scimDelete" /\ c.user = i /\ c.account = users[i].account
    BY <2>2 DEF Call
  <2>4. Goto(r, c)
    BY <2>1
  <2> HIDE DEF c
  <2>5. KnowsUser(c)
    BY <2>3 DEF KnowsUser
  <2> QED BY <2>1, <2>3, <2>4, <2>5, WaitingHandler, NoTableTouched
<1>4. CASE NoNewAccount(r)
  <2>1. /\ call[r].at = "account" /\ Goto(r, Waiting)
        /\ UNCHANGED <<users, accounts, deleted>>
    BY <1>4 DEF NoNewAccount
  <2> QED BY <2>1, WaitingIsCall, NoTableTouched
<1> QED BY <1>1, <1>2, <1>3, <1>4

-----------------------------------------------------------------------------
(***************************************************************************)
(* The calls of Keycloak.                                                  *)
(***************************************************************************)
LEMMA AccountsTyped ==
    ASSUME BaseInv, disturbed' \in BOOLEAN, NEW r \in Callers,
           NEW a \in Emails, NEW calls \in Seq(KeycloakCalls), Proceed(r, a, calls),
           accounts' \in [Emails -> Account \cup {Null}],
           UNCHANGED <<users, deleted>>
    PROVE  /\ BaseInv' /\ Users' = Users
           /\ \A q \in Callers \ {r} : call'[q] = call[q]
           /\ calls = <<>> => call'[r] = Waiting
           /\ calls # <<>> => SyncsOn(call'[r], a) /\ call'[r].calls = calls
<1>0. a # Null
  BY NullIsNothing
<1>1. /\ call' \in [Callers -> Call]
      /\ \A q \in Callers \ {r} : call'[q] = call[q]
      /\ call'[r].at \in {"idle", "sync"}
      /\ calls = <<>> => call'[r] = Waiting
      /\ calls # <<>> => SyncsOn(call'[r], a) /\ call'[r].calls = calls
  BY <1>0, ProceedTypes DEF BaseInv
<1>2. OtherTypes /\ KnowsUser(call[r])'
  BY <1>1 DEF OtherTypes, KnowsUser
<1> QED BY <1>1, <1>2, RowsUnchanged

\* The name of a new account is no user's: users with a keycloakId have one.
LEMMA CreateAccountOK ==
    ASSUME BaseInv, disturbed' \in BOOLEAN, NEW r \in Callers, CreateAccount(r)
    PROVE  StepOK(r)
<1> DEFINE name == call[r].email
           calls == call[r].calls
<1>1. /\ call[r].at = "account" /\ accounts[name] = Null
      /\ accounts' = [accounts EXCEPT ![name] = [enabled |-> TRUE, roles |-> {}]]
      /\ Proceed(r, name, calls) /\ UNCHANGED <<users, deleted>>
  BY DEF CreateAccount
<1>2. name \in Emails /\ calls \in Seq(KeycloakCalls)
  BY <1>1, CallKinds DEF BaseInv, ProvisioningTypeOK
<1>3. [enabled |-> TRUE, roles |-> {}] \in Account
  BY DEF Account
<1>4. /\ accounts' \in [Emails -> Account \cup {Null}]
      /\ \A b \in Emails \ {name} : accounts'[b] = accounts[b]
  BY <1>1, <1>2, <1>3 DEF BaseInv, ProvisioningTypeOK
<1>5. /\ BaseInv' /\ Users' = Users
      /\ \A q \in Callers \ {r} : call'[q] = call[q]
      /\ calls = <<>> => call'[r] = Waiting
      /\ calls # <<>> => SyncsOn(call'[r], name)
  BY <1>1, <1>2, <1>4, AccountsTyped
<1>6. ASSUME Following, AloneOn(r) PROVE Following'
  <2>1. ASSUME NEW i \in Users', users'[i].account # Null
        PROVE  /\ i \in Users /\ users'[i] = users[i]
               /\ accounts'[users[i].account] = accounts[users[i].account]
               /\ ~SyncsOn(call'[r], users[i].account)
    <3>1. i \in Users /\ users'[i] = users[i] /\ users[i].account \in Emails
      BY <1>1, <1>5, <2>1, UserTypes DEF BaseInv
    <3>2. Followed(i)
      BY <1>6, <2>1, <3>1 DEF Following
    <3>3. users[i].account # name
      BY <1>1, <3>2 DEF Followed
    <3>4. ~SyncsOn(call'[r], users[i].account)
      BY <1>5, <3>3, WaitingIsCall DEF SyncsOn
    <3> QED BY <1>4, <3>1, <3>3, <3>4
  <2> QED BY <1>1, <1>5, <1>6, <2>1, UntouchedFollowed
<1> QED BY <1>5, <1>6 DEF StepOK

\* A call that is made leaves the others to cover what it did not do.
LEMMA CallMade ==
    ASSUME NEW user \in User, NEW account \in Account,
           NEW calls \in Seq(KeycloakCalls), calls # <<>>,
           Covers(calls, user, account)
    PROVE  LET after == AfterCall(account, Head(calls))
           IN /\ after \in Account
              /\ Tail(calls) = <<>> => UpToDate(user, after)
              /\ Tail(calls) # <<>> => Covers(Tail(calls), user, after)
<1> DEFINE c == Head(calls)
           after == AfterCall(account, c)
           rest == Tail(calls)
<1>1. /\ c \in KeycloakCalls /\ c = calls[1] /\ 1 \in DOMAIN calls
      /\ rest \in Seq(KeycloakCalls)
  OBVIOUS
<1>2. \A n \in DOMAIN calls : n = 1 \/ \E m \in DOMAIN rest : rest[m] = calls[n]
  <2>1. ASSUME NEW n \in DOMAIN calls, n # 1
        PROVE  n - 1 \in DOMAIN rest /\ rest[n - 1] = calls[n]
    BY <2>1
  <2> QED BY <2>1
<1>3. \A m \in DOMAIN rest : m + 1 \in DOMAIN calls /\ rest[m] = calls[m + 1]
  OBVIOUS
<1> DEFINE right == IF user.status = "inactive" THEN Disable ELSE Enable
           wrong == IF user.status = "inactive" THEN Enable ELSE Disable
           on == (user.status # "inactive")
<1>4. /\ \A n \in DOMAIN calls : calls[n] \notin {RemoveAccount, wrong}
      /\ user.role \in account.roles
         \/ \E n \in DOMAIN calls : calls[n] = Grant(user.role)
      /\ account.enabled = on \/ \E n \in DOMAIN calls : calls[n] = right
  BY DEF Covers
<1>5. \/ c = right
      \/ \E role \in Roles : c = Grant(role)
  BY <1>1, <1>4, CallsAreDifferent
<1>6. right # Grant(user.role) /\ user.role \in Roles /\ on \in BOOLEAN
  BY CallsAreDifferent DEF User
<1>7. /\ c = Enable => after = [account EXCEPT !.enabled = TRUE]
      /\ c = Disable => after = [account EXCEPT !.enabled = FALSE]
      /\ \A role \in Roles : c = Grant(role) =>
            after = [account EXCEPT !.roles = @ \cup {role}]
  BY CallsAreDifferent DEF AfterCall
<1>8. CASE c = right
  <2>1. c = (IF on THEN Enable ELSE Disable)
    BY <1>8
  <2>2. after = [account EXCEPT !.enabled = on]
    <3>1. CASE on
      BY <1>7, <2>1, <3>1
    <3>2. CASE ~on
      BY <1>7, <2>1, <3>2
    <3> QED BY <3>1, <3>2
  <2>3. after \in Account /\ after.enabled = on /\ after.roles = account.roles
    BY <1>6, <2>2 DEF Account
  <2> HIDE DEF after, c, right, wrong, on, rest
  <2>4. user.role \in after.roles \/ \E m \in DOMAIN rest : rest[m] = Grant(user.role)
    BY <1>1, <1>2, <1>4, <1>6, <1>8, <2>3
  <2>5. \A m \in DOMAIN rest : rest[m] \notin {RemoveAccount, wrong}
    BY <1>3, <1>4
  <2>6. rest = <<>> => UpToDate(user, after)
    BY <2>3, <2>4 DEF UpToDate, on
  <2>7. Covers(rest, user, after)
    BY <2>3, <2>4, <2>5 DEF Covers, wrong, on
  <2> QED BY <2>3, <2>6, <2>7 DEF after, c, rest
<1>9. CASE c # right
  <2>1. PICK role \in Roles : c = Grant(role)
    BY <1>5, <1>9
  <2>2. after = [account EXCEPT !.roles = @ \cup {role}]
    BY <1>7, <2>1
  <2>3. /\ after \in Account /\ after.enabled = account.enabled
        /\ after.roles = account.roles \cup {role}
    BY <2>2 DEF Account
  <2>4. c = Grant(user.role) => role = user.role
    BY <1>6, <2>1, CallsAreDifferent
  <2> HIDE DEF after, c, right, wrong, on, rest
  <2>5. user.role \in after.roles \/ \E m \in DOMAIN rest : rest[m] = Grant(user.role)
    BY <1>1, <1>2, <1>4, <2>3, <2>4
  <2>6. after.enabled = on \/ \E m \in DOMAIN rest : rest[m] = right
    BY <1>1, <1>2, <1>4, <1>9, <2>3
  <2>7. \A m \in DOMAIN rest : rest[m] \notin {RemoveAccount, wrong}
    BY <1>3, <1>4
  <2>8. rest = <<>> => UpToDate(user, after)
    BY <2>5, <2>6 DEF UpToDate, on
  <2>9. Covers(rest, user, after)
    BY <2>5, <2>6, <2>7 DEF Covers, right, wrong, on
  <2> QED BY <2>3, <2>8, <2>9 DEF after, c, rest
<1> QED BY <1>8, <1>9

\* The next call to Keycloak succeeds.
LEMMA SyncOK ==
    ASSUME BaseInv, disturbed' \in BOOLEAN, NEW r \in Callers, Sync(r),
           call[r].calls # <<>>
    PROVE  StepOK(r)
<1> DEFINE a == call[r].account
           calls == call[r].calls
           after == AfterCall(accounts[a], Head(calls))
<1>1. /\ call[r].at = "sync"
      /\ accounts' = IF accounts[a] = Null THEN accounts
                     ELSE [accounts EXCEPT ![a] = after]
      /\ Proceed(r, a, Tail(calls)) /\ UNCHANGED <<users, deleted>>
  BY DEF Sync
<1>2. a \in Emails /\ calls \in Seq(KeycloakCalls) /\ calls # <<>>
  BY <1>1, CallKinds DEF BaseInv, ProvisioningTypeOK
<1>3. Head(calls) \in KeycloakCalls /\ Tail(calls) \in Seq(KeycloakCalls)
  BY <1>2
<1>r. PICK rest \in Seq(KeycloakCalls) : rest = Tail(calls)
  BY <1>3
<1>p. Proceed(r, a, rest)
  BY <1>1, <1>r
<1>4. accounts[a] # Null => after \in Account \cup {Null}
  <2>1. accounts[a] # Null => accounts[a] \in Account
    BY <1>2 DEF BaseInv, ProvisioningTypeOK
  <2>2. \A account \in Account :
           /\ \A on \in BOOLEAN : [account EXCEPT !.enabled = on] \in Account
           /\ \A role \in Roles : [account EXCEPT !.roles = @ \cup {role}] \in Account
    BY DEF Account
  <2>3. \A account \in Account :
           /\ AfterCall(account, Enable) = [account EXCEPT !.enabled = TRUE]
           /\ AfterCall(account, Disable) = [account EXCEPT !.enabled = FALSE]
           /\ AfterCall(account, RemoveAccount) = Null
           /\ \A role \in Roles : AfterCall(account, Grant(role))
                                     = [account EXCEPT !.roles = @ \cup {role}]
    BY CallsAreDifferent DEF AfterCall
  <2>4. ASSUME NEW account \in Account, NEW c \in KeycloakCalls
        PROVE  AfterCall(account, c) \in Account \cup {Null}
    <3>1. CASE c \in {Enable, Disable, RemoveAccount}
      BY <2>2, <2>3, <3>1
    <3>2. CASE c \notin {Enable, Disable, RemoveAccount}
      <4>1. PICK role \in Roles : c = Grant(role)
        BY <3>2, CallsAreDifferent
      <4> QED BY <2>2, <2>3, <4>1
    <3> QED BY <3>1, <3>2
  <2> QED BY <1>3, <2>1, <2>4
<1> HIDE DEF after
<1>5. /\ accounts' \in [Emails -> Account \cup {Null}]
      /\ \A b \in Emails \ {a} : accounts'[b] = accounts[b]
      /\ accounts[a] # Null => accounts'[a] = after
  BY <1>1, <1>2, <1>4 DEF BaseInv, ProvisioningTypeOK
<1>6. /\ BaseInv' /\ Users' = Users
      /\ \A q \in Callers \ {r} : call'[q] = call[q]
      /\ rest = <<>> => call'[r] = Waiting
      /\ rest # <<>> => SyncsOn(call'[r], a) /\ call'[r].calls = rest
  BY <1>1, <1>2, <1>p, <1>5, AccountsTyped
<1>7. ASSUME Following, AloneOn(r) PROVE Following'
  <2>1. \A q \in Callers \ {r} : call[q] = Waiting /\ call'[q] = Waiting
    BY <1>6, <1>7 DEF AloneOn
  <2>2. ASSUME NEW i \in Users', users'[i].account # Null
        PROVE  FollowedBy(r, i)'
    <3>1. i \in Users /\ users'[i] = users[i] /\ users[i].account \in Emails
          /\ users[i] \in User
      BY <1>1, <1>6, <2>2, UserTypes DEF BaseInv
    <3>2. FollowedBy(r, i)
      BY <1>7, <2>1, <2>2, <3>1, FollowedByR DEF Following
    <3>3. CASE users[i].account # a
      <4>1. ~SyncsOn(call[r], users[i].account) /\ ~SyncsOn(call'[r], users[i].account)
        BY <1>6, <3>3, WaitingIsCall DEF SyncsOn
      <4> QED BY <1>5, <3>1, <3>2, <3>3, <4>1 DEF FollowedBy, UpToDate
    <3>4. CASE users[i].account = a
      <4>1. accounts[a] \in Account /\ accounts[a] # Null
        BY <1>2, <3>2, <3>4 DEF FollowedBy, BaseInv, ProvisioningTypeOK
      <4>2. Covers(calls, users[i], accounts[a])
        BY <1>1, <3>2, <3>4 DEF FollowedBy, SyncsOn
      <4>3. /\ after \in Account
            /\ rest = <<>> => UpToDate(users[i], after)
            /\ rest # <<>> => Covers(rest, users[i], after)
        BY <1>2, <1>r, <3>1, <4>1, <4>2, CallMade DEF after
      <4>4. after # Null /\ accounts'[a] = after
        BY <1>5, <4>1, <4>3, NullIsNothing
      <4>5. CASE rest = <<>>
        <5>1. ~SyncsOn(call'[r], a) /\ UpToDate(users[i], after)
          BY <1>6, <4>3, <4>5, WaitingIsCall
        <5> QED BY <3>1, <3>4, <4>4, <5>1 DEF FollowedBy, UpToDate
      <4>6. CASE rest # <<>>
        <5>1. SyncsOn(call'[r], a) /\ call'[r].calls = rest
          BY <1>6, <4>6
        <5>2. Covers(rest, users[i], after)
          BY <4>3, <4>6
        <5> QED BY <3>1, <3>4, <4>4, <5>1, <5>2 DEF FollowedBy, Covers
      <4> QED BY <4>5, <4>6
    <3> QED BY <3>3, <3>4
  <2> QED BY <2>1, <2>2, FollowedByRNext
<1> QED BY <1>6, <1>7 DEF StepOK

-----------------------------------------------------------------------------
(***************************************************************************)
(* Every step.                                                             *)
(***************************************************************************)

\* A handler that is at its calls has some left.
SyncsHaveCalls == \A r \in Callers : call[r].at = "sync" => call[r].calls # <<>>

UsersInv == BaseInv /\ SyncsHaveCalls /\ (~disturbed => Following)

\* A request that goes on with calls has one at least.
LEMMA OtherCall ==
    ASSUME BaseInv, SyncsHaveCalls, NEW r \in Callers, NEW c,
           c.at = "sync" => c.calls # <<>>, Goto(r, c)
    PROVE  SyncsHaveCalls'
BY DEF SyncsHaveCalls, Goto, BaseInv, ProvisioningTypeOK

\* A handler makes calls only if it has one to make.
LEMMA ProceedHasCalls ==
    ASSUME BaseInv, SyncsHaveCalls, NEW r \in Callers, NEW a, NEW calls,
           Proceed(r, a, calls)
    PROVE  SyncsHaveCalls'
<1> DEFINE c == IF a = Null \/ calls = <<>> THEN Waiting
                ELSE [at |-> "sync", account |-> a, calls |-> calls]
<1>1. c.at = "sync" => c.calls # <<>>
  BY WaitingIsCall
<1>2. Goto(r, c)
  BY DEF Proceed
<1> HIDE DEF c
<1> QED BY <1>1, <1>2, OtherCall

\* A request that is making calls has one left, in every step of a handler.
LEMMA CallsAreLeft ==
    ASSUME BaseInv, SyncsHaveCalls, NEW r \in Callers,
           Handle(r) \/ SyncFails(r) \/ GiveUp(r)
    PROVE  SyncsHaveCalls'
<1>1. CASE Invite(r) \/ ScimInsert(r)
  BY <1>1, OtherCall DEF Invite, ScimInsert, Insert
<1>2. CASE \/ ChangeRole(r) \/ Activate(r) \/ Deactivate(r) \/ Delete(r)
           \/ ScimPatch(r) \/ ScimDelete(r) \/ CreateAccount(r)
           \/ Sync(r) \/ SyncFails(r)
  BY <1>2, ProceedHasCalls
     DEF ChangeRole, Activate, Deactivate, Delete, ScimPatch, ScimDelete,
         CreateAccount, Sync, SyncFails
<1>3. CASE ScimLookUp(r) \/ ScimReadForPatch(r) \/ ScimReadForDelete(r)
  BY <1>3, OtherCall DEF ScimLookUp, ScimReadForPatch, ScimReadForDelete
<1>4. CASE NoNewAccount(r) \/ GiveUp(r)
  BY <1>4, OtherCall, WaitingIsCall DEF NoNewAccount, GiveUp
<1> QED BY <1>1, <1>2, <1>3, <1>4 DEF Handle

\* Every step of a handler.
LEMMA HandleOK ==
    ASSUME BaseInv, SyncsHaveCalls, disturbed' \in BOOLEAN, NEW r \in Callers,
           Handle(r)
    PROVE  StepOK(r)
<1>1. CASE Sync(r)
  BY <1>1, SyncOK DEF Sync, SyncsHaveCalls
<1>2. CASE \/ ScimLookUp(r) \/ ScimReadForPatch(r) \/ ScimReadForDelete(r)
           \/ NoNewAccount(r)
  BY <1>2, ReadsOK
<1>3. CASE Invite(r) \/ ScimInsert(r)
  BY <1>3, InvitesOK
<1>4. CASE Activate(r) \/ Deactivate(r) \/ ScimDelete(r)
  BY <1>4, ActivateOK
<1> QED BY <1>1, <1>2, <1>3, <1>4, ChangeRoleOK, DeleteOK, ScimPatchOK,
           CreateAccountOK DEF Handle

\* A call that fails and a request that dies leave the tables alone.
LEMMA FailuresOK ==
    ASSUME BaseInv, SyncsHaveCalls, disturbed' = TRUE, NEW r \in Callers,
           SyncFails(r) \/ GiveUp(r)
    PROVE  BaseInv'
<1>0. call[r] \in Call /\ disturbed' \in BOOLEAN
      /\ UNCHANGED <<users, accounts, deleted>>
  BY DEF SyncFails, GiveUp, BaseInv, ProvisioningTypeOK
<1>1. CASE SyncFails(r)
  <2>1. /\ call[r].at = "sync" /\ Proceed(r, call[r].account, Tail(call[r].calls))
    BY <1>1 DEF SyncFails
  <2>2. /\ call[r].account \in Emails /\ call[r].calls \in Seq(KeycloakCalls)
        /\ call[r].calls # <<>>
    BY <1>0, <2>1, CallKinds DEF SyncsHaveCalls
  <2> DEFINE calls == call[r].calls
  <2>a. calls \in Seq(KeycloakCalls) /\ calls # <<>> => Tail(calls) \in Seq(KeycloakCalls)
    OBVIOUS
  <2>3. PICK rest \in Seq(KeycloakCalls) : rest = Tail(calls)
    BY <2>2, <2>a
  <2>4. accounts' \in [Emails -> Account \cup {Null}]
    BY <1>0 DEF BaseInv, ProvisioningTypeOK
  <2> QED BY <1>0, <2>1, <2>2, <2>3, <2>4, AccountsTyped
<1>2. CASE GiveUp(r)
  <2>1. Goto(r, Waiting)
    BY <1>2 DEF GiveUp
  <2>2. /\ call' \in [Callers -> Call] /\ call'[r] = Waiting
        /\ \A q \in Callers \ {r} : call'[q] = call[q]
    BY <2>1, WaitingIsCall, GotoCall DEF BaseInv
  <2>3. OtherTypes /\ KnowsUser(call[r])'
    BY <1>0, <2>2, WaitingIsCall DEF OtherTypes, KnowsUser, BaseInv, ProvisioningTypeOK
  <2> QED BY <1>0, <2>2, <2>3, RowsUnchanged
<1> QED BY <1>1, <1>2

\* The invariant holds at the start.
LEMMA UsersInit ==
    ASSUME ProvisioningInit
    PROVE  UsersInv
<1>1. PICK migrated \in SUBSET Ids : \E email \in [Ids -> Emails], role \in Roles :
          /\ \A i, j \in migrated : email[i] = email[j] => i = j
          /\ users = [i \in Ids |->
                IF i \in migrated
                THEN [email |-> email[i], role |-> role, status |-> "active",
                      account |-> email[i]]
                ELSE Null]
          /\ accounts = [e \in Emails |->
                IF \E i \in migrated : email[i] = e
                THEN [enabled |-> TRUE, roles |-> {role}] ELSE Null]
  BY DEF ProvisioningInit
<1>2. PICK email \in [Ids -> Emails], role \in Roles :
          /\ \A i, j \in migrated : email[i] = email[j] => i = j
          /\ users = [i \in Ids |->
                IF i \in migrated
                THEN [email |-> email[i], role |-> role, status |-> "active",
                      account |-> email[i]]
                ELSE Null]
          /\ accounts = [e \in Emails |->
                IF \E i \in migrated : email[i] = e
                THEN [enabled |-> TRUE, roles |-> {role}] ELSE Null]
  BY <1>1
<1> DEFINE newRow(i) == [email |-> email[i], role |-> role, status |-> "active",
                      account |-> email[i]]
<1>3. /\ call = [r \in Callers |-> Waiting] /\ deleted = {} /\ disturbed = FALSE
      /\ \A r \in Callers : call[r] = Waiting
  BY DEF ProvisioningInit
<1>4. \A i \in Ids : newRow(i) \in User /\ newRow(i) # Null
  BY NullIsNothing DEF User, UserStatuses
<1>5. /\ \A i \in migrated : users[i] = newRow(i)
      /\ \A i \in Ids \ migrated : users[i] = Null
      /\ users \in [Ids -> User \cup {Null}]
  BY <1>2, <1>4
<1>6. Users = migrated
  BY <1>4, <1>5 DEF Users
<1>7. ProvisioningTypeOK
  <2>1. [enabled |-> TRUE, roles |-> {role}] \in Account
    BY DEF Account
  <2>2. accounts \in [Emails -> Account \cup {Null}]
    BY <1>2, <2>1
  <2> QED BY <1>3, <1>5, <2>2, WaitingIsCall DEF ProvisioningTypeOK
<1>8. EmailsAreUnique /\ AccountsDistinct /\ DeletedStaysDeleted
  BY <1>2, <1>3, <1>5, <1>6 DEF EmailsAreUnique, AccountsDistinct, DeletedStaysDeleted
<1>9. \A r \in Callers : KnowsUser(call[r])
  BY <1>3, WaitingIsCall DEF KnowsUser
<1>10. SyncsHaveCalls
  BY <1>3, WaitingIsCall DEF SyncsHaveCalls
<1>11. Following
  <2>1. \A r \in Callers : \A a : ~SyncsOn(call[r], a)
    BY <1>3, WaitingIsCall
  <2>2. ASSUME NEW i \in Users
        PROVE  Followed(i)
    <3>1. users[i] = newRow(i) /\ i \in migrated /\ email[i] \in Emails
      BY <1>5, <1>6
    <3>2. accounts[email[i]] = [enabled |-> TRUE, roles |-> {role}]
      BY <1>2, <3>1
    <3>a. [enabled |-> TRUE, roles |-> {role}] \in Account
      BY DEF Account
    <3>3. [enabled |-> TRUE, roles |-> {role}] # Null
      BY <3>a, NullIsNothing
    <3>b. /\ accounts[email[i]].enabled = TRUE /\ role \in accounts[email[i]].roles
          /\ users[i].status = "active" /\ users[i].role = role
      BY <3>1, <3>2
    <3>c. (users[i].status # "inactive") = TRUE
      BY <3>b
    <3>4. UpToDate(users[i], accounts[email[i]])
      BY <3>b, <3>c DEF UpToDate
    <3> QED BY <2>1, <3>1, <3>2, <3>3, <3>4 DEF Followed
  <2> QED BY <1>3, <2>2 DEF Following, OneRequest
<1> QED BY <1>7, <1>8, <1>9, <1>10, <1>11 DEF UsersInv, BaseInv

\* Every step keeps the invariant.
LEMMA UsersStep ==
    ASSUME UsersInv, [ProvisioningNext]_provisioningVars
    PROVE  UsersInv'
<1>1. CASE UNCHANGED provisioningVars
  BY <1>1 DEF provisioningVars, UsersInv, BaseInv, ProvisioningTypeOK, Users,
              EmailsAreUnique, DeletedStaysDeleted, AccountsDistinct, KnowsUser,
              SyncsHaveCalls, Following, OneRequest, Followed, SyncsOn, Covers,
              UpToDate
<1>2. ASSUME NEW r \in Callers, Handle(r),
             disturbed' = (disturbed \/ \E q \in Callers \ {r} : call[q] # Waiting)
      PROVE  UsersInv'
  <2>1. disturbed' \in BOOLEAN
    BY <1>2 DEF UsersInv, BaseInv, ProvisioningTypeOK
  <2>2. StepOK(r) /\ SyncsHaveCalls'
    BY <1>2, <2>1, HandleOK, CallsAreLeft DEF UsersInv
  <2>3. ~disturbed' => AloneOn(r) /\ Following
    BY <1>2 DEF AloneOn, UsersInv
  <2> QED BY <2>2, <2>3 DEF StepOK, UsersInv
<1>3. ASSUME NEW r \in Callers, SyncFails(r) \/ GiveUp(r), disturbed' = TRUE
      PROVE  UsersInv'
  BY <1>3, FailuresOK, CallsAreLeft DEF UsersInv
<1> QED BY <1>1, <1>2, <1>3 DEF ProvisioningNext

\* The invariant of the users holds in every reachable state.
LEMMA UsersInvariance == Spec => []UsersInv
<1>1. Init => UsersInv
  BY UsersInit DEF Init
<1>2. UsersInv /\ [Next]_apiVars => UsersInv'
  <2>1. [Next]_apiVars => [ProvisioningNext]_provisioningVars
    BY DEF Next, apiVars, gateVars
  <2> QED BY <2>1, UsersStep
<1> QED BY <1>1, <1>2, PTL DEF Spec

\* Invitations, role changes, activations, deletions and the SCIM handlers
\* give no two users one email, keep a user's Keycloak account up to date as
\* long as requests come one at a time and every call arrives, and never bring
\* a deleted user back.
THEOREM UsersCorrect == Spec => []UsersAreSound
<1>1. ASSUME UsersInv PROVE AccountFollowsUser
  <2>1. ASSUME ~disturbed, Quiet, NEW i \in Users, users[i].account # Null
        PROVE  /\ accounts[users[i].account] # Null
               /\ UpToDate(users[i], accounts[users[i].account])
    BY <1>1, <2>1, WaitingIsCall DEF UsersInv, Following, Followed, Quiet
  <2> QED BY <2>1 DEF AccountFollowsUser, UpToDate
<1>2. UsersInv => UsersAreSound
  BY <1>1 DEF UsersInv, BaseInv, UsersAreSound
<1> QED BY <1>2, UsersInvariance, PTL

-----------------------------------------------------------------------------
(***************************************************************************)
(* The sessions.  A user's set holds ids of that user only, and an entry's *)
(* age is counted against the time since the last clean-up.                *)
(***************************************************************************)
SessionsInv ==
    /\ SessionsTypeOK
    /\ TrackedTogether
    /\ LoggedOutIsForgotten
    /\ \A u \in People : userSessions[u] \subseteq SessionsOf[u]
    /\ \A k \in Tracked : lastActive[k] <= 2 * IdleTimeout + sinceCleanup

\* The ages of sessions are numbers, and the greatest is what the clean-up
\* admits.
LEMMA SessionTimes ==
    /\ IdleTimeout \in Nat /\ CleanupInterval \in Nat /\ Oldest \in Nat
    /\ 0 \in 0 .. Oldest /\ 0 \in 0 .. CleanupInterval
    /\ Oldest = 2 * IdleTimeout + CleanupInterval + 1
    /\ \A n \in 0 .. Oldest : n # Untracked /\ n \in Nat
BY TimesAreLimits, UntrackedIsNoAge DEF Oldest

\* The invariant holds at the start.
LEMMA SessionsInitOK ==
    ASSUME SessionsInit
    PROVE  SessionsInv
<1>1. Tracked = {}
  BY DEF SessionsInit, Tracked
<1> QED BY <1>1, SessionTimes DEF SessionsInit, SessionsInv, SessionsTypeOK,
           TrackedTogether, LoggedOutIsForgotten

\* A request of a session that was not logged out.
LEMMA AdmitOK ==
    ASSUME SessionsInv, NEW u \in People, NEW s \in SessionsOf[u],
           s \notin invalidated, Admit(u, s)
    PROVE  SessionsInv'
<1> DEFINE k == <<u, s>>
<1>1. s \in Sessions /\ k \in Keys
  BY SessionsAreIds DEF Keys
<1>2. /\ lastActive' = [lastActive EXCEPT ![k] = 0]
      /\ userSessions' = [userSessions EXCEPT ![u] = @ \cup {s}]
      /\ UNCHANGED <<invalidated, sinceCleanup>>
  BY DEF Admit, Registered, Members
<1>3. SessionsTypeOK'
  BY <1>1, <1>2, SessionTimes DEF SessionsInv, SessionsTypeOK
<1>4. Tracked' = Tracked \cup {k}
  BY <1>1, <1>2, SessionTimes DEF SessionsInv, SessionsTypeOK, Tracked
<1>5. /\ userSessions'[u] = userSessions[u] \cup {s}
      /\ \A v \in People \ {u} : userSessions'[v] = userSessions[v]
  BY <1>2 DEF SessionsInv, SessionsTypeOK
<1>6. TrackedTogether'
  <2>1. ASSUME NEW v \in People, NEW t \in Sessions
        PROVE  /\ <<v, t>> \in Tracked' => t \in userSessions'[v]
               /\ t \in userSessions'[v] => <<v, t>> \in Tracked' \/ t \in Divided
    <3>1. CASE v = u /\ t = s
      BY <1>4, <1>5, <3>1
    <3>2. CASE ~(v = u /\ t = s)
      <4>1. /\ <<v, t>> \in Tracked' <=> <<v, t>> \in Tracked
            /\ t \in userSessions'[v] <=> t \in userSessions[v]
        BY <1>4, <1>5, <3>2
      <4> QED BY <4>1 DEF SessionsInv, TrackedTogether
    <3> QED BY <3>1, <3>2
  <2> QED BY <2>1 DEF TrackedTogether
<1>7. LoggedOutIsForgotten'
  BY <1>2, <1>5 DEF SessionsInv, LoggedOutIsForgotten
<1>8. \A v \in People : userSessions'[v] \subseteq SessionsOf[v]
  BY <1>5 DEF SessionsInv
<1>9. \A l \in Tracked' : lastActive'[l] <= 2 * IdleTimeout + sinceCleanup'
  <2>1. lastActive'[k] = 0 /\ \A l \in Tracked \ {k} : lastActive'[l] = lastActive[l]
    BY <1>1, <1>2 DEF SessionsInv, SessionsTypeOK, Tracked
  <2>2. 0 <= 2 * IdleTimeout + sinceCleanup
    BY SessionTimes DEF SessionsInv, SessionsTypeOK
  <2> QED BY <1>2, <1>4, <2>1, <2>2 DEF SessionsInv
<1> QED BY <1>3, <1>6, <1>7, <1>8, <1>9 DEF SessionsInv

\* A logout of some of a user's sessions.
LEMMA InvalidateOK ==
    ASSUME SessionsInv, NEW u \in People, NEW ids, ids \subseteq SessionsOf[u],
           Invalidate(u, ids)
    PROVE  SessionsInv'
<1>1. /\ lastActive' = [k \in Keys |->
             IF k[1] = u /\ k[2] \in ids THEN Untracked ELSE lastActive[k]]
      /\ userSessions' = [userSessions EXCEPT ![u] = @ \ ids]
      /\ invalidated' = invalidated \cup ids
      /\ UNCHANGED sinceCleanup
  BY DEF Invalidate, Forget
<1>2. SessionsTypeOK'
  BY <1>1, SessionsAreIds DEF SessionsInv, SessionsTypeOK
<1>3. \A v \in People, t \in Sessions :
         lastActive'[<<v, t>>] = IF v = u /\ t \in ids THEN Untracked
                                 ELSE lastActive[<<v, t>>]
  BY <1>1 DEF Keys
<1>4. \A v \in People, t \in Sessions :
         <<v, t>> \in Tracked' <=> <<v, t>> \in Tracked /\ ~(v = u /\ t \in ids)
  BY <1>3 DEF Tracked, Keys
<1>5. \A v \in People : \A t : t \in userSessions'[v] <=>
         t \in userSessions[v] /\ ~(v = u /\ t \in ids)
  BY <1>1 DEF SessionsInv, SessionsTypeOK
<1>6. TrackedTogether'
  BY <1>4, <1>5 DEF SessionsInv, TrackedTogether
<1>7. LoggedOutIsForgotten'
  <2>1. ASSUME NEW v \in People, NEW t \in invalidated', t \in userSessions'[v]
        PROVE  \E w \in People \ {v} : t \in SessionsOf[w]
    <3>1. t \in userSessions[v] /\ ~(v = u /\ t \in ids)
      BY <1>5, <2>1
    <3>2. CASE t \in invalidated
      BY <3>1, <3>2 DEF SessionsInv, LoggedOutIsForgotten
    <3>3. CASE t \in ids
      BY <3>1, <3>3
    <3> QED BY <1>1, <3>2, <3>3
  <2> QED BY <2>1 DEF LoggedOutIsForgotten
<1>8. \A v \in People : userSessions'[v] \subseteq SessionsOf[v]
  BY <1>5 DEF SessionsInv
<1>9. \A l \in Tracked' : lastActive'[l] <= 2 * IdleTimeout + sinceCleanup'
  <2>1. \A l \in Tracked' : l \in Tracked /\ lastActive'[l] = lastActive[l]
    BY <1>1 DEF Tracked
  <2> QED BY <1>1, <2>1 DEF SessionsInv
<1> QED BY <1>2, <1>6, <1>7, <1>8, <1>9 DEF SessionsInv

\* The clean-up forgets old sessions in all the maps.
LEMMA CleanupOK ==
    ASSUME SessionsInv, Cleanup
    PROVE  SessionsInv'
<1>1. /\ sinceCleanup' = 0 /\ invalidated' = invalidated
      /\ lastActive' = [k \in Keys |->
             IF k \in Stale THEN Untracked ELSE lastActive[k]]
      /\ userSessions' = [u \in People |->
             {s \in userSessions[u] : s \in Divided \/ <<u, s>> \notin Stale}]
  BY DEF Cleanup
<1>2. SessionsTypeOK'
  BY <1>1, SessionTimes DEF SessionsInv, SessionsTypeOK
<1>3. Tracked' = Tracked \ Stale
  BY <1>1 DEF Tracked, Stale
<1>4. \A u \in People, s \in Sessions :
         s \in userSessions'[u] <=>
            s \in userSessions[u] /\ (s \in Divided \/ <<u, s>> \notin Stale)
  BY <1>1
<1>5. Stale \subseteq Tracked
  BY DEF Stale
<1>6. TrackedTogether'
  <2>1. ASSUME NEW u \in People, NEW s \in Sessions, <<u, s>> \in Tracked'
        PROVE  s \in userSessions'[u]
    BY <1>3, <1>4, <2>1 DEF SessionsInv, TrackedTogether
  <2>2. ASSUME NEW u \in People, NEW s \in Sessions, s \in userSessions'[u]
        PROVE  <<u, s>> \in Tracked' \/ s \in Divided
    BY <1>3, <1>4, <2>2 DEF SessionsInv, TrackedTogether
  <2> QED BY <2>1, <2>2 DEF TrackedTogether
<1>7. \A u \in People : userSessions'[u] \subseteq userSessions[u]
  BY <1>1
<1>8. LoggedOutIsForgotten' /\ \A u \in People : userSessions'[u] \subseteq SessionsOf[u]
  BY <1>1, <1>7 DEF SessionsInv, LoggedOutIsForgotten
<1>9. ASSUME NEW k \in Tracked'
      PROVE  lastActive'[k] <= 2 * IdleTimeout + sinceCleanup'
  <2>1. k \in Tracked /\ k \notin Stale /\ k \in Keys /\ lastActive'[k] = lastActive[k]
    BY <1>1, <1>3, <1>9 DEF Tracked
  <2>2. lastActive[k] \in 0 .. Oldest
    BY <2>1 DEF SessionsInv, SessionsTypeOK, Tracked
  <2>3. ~(lastActive[k] > 2 * IdleTimeout)
    BY <2>1 DEF Stale
  <2> QED BY <1>1, <2>1, <2>2, <2>3, SessionTimes
<1> QED BY <1>2, <1>6, <1>8, <1>9 DEF SessionsInv

\* Time passes.
LEMMA SessionTickOK ==
    ASSUME SessionsInv, SessionTick
    PROVE  SessionsInv'
<1>1. /\ sinceCleanup < CleanupInterval /\ sinceCleanup' = sinceCleanup + 1
      /\ lastActive' = [k \in Keys |->
             IF k \notin Tracked \/ lastActive[k] = Oldest
             THEN lastActive[k] ELSE lastActive[k] + 1]
      /\ UNCHANGED <<userSessions, invalidated>>
  BY DEF SessionTick
<1>2. sinceCleanup \in 0 .. CleanupInterval /\ sinceCleanup' \in 0 .. CleanupInterval
  BY <1>1, SessionTimes DEF SessionsInv, SessionsTypeOK
<1>3. ASSUME NEW k \in Tracked
      PROVE  /\ k \in Keys /\ lastActive'[k] \in 0 .. Oldest
             /\ lastActive'[k] <= 2 * IdleTimeout + sinceCleanup'
  <2>1. k \in Keys /\ lastActive[k] \in 0 .. Oldest
    BY <1>3 DEF SessionsInv, SessionsTypeOK, Tracked
  <2>2. lastActive[k] <= 2 * IdleTimeout + sinceCleanup
    BY <1>3 DEF SessionsInv
  <2>3. lastActive'[k] = IF lastActive[k] = Oldest THEN lastActive[k]
                         ELSE lastActive[k] + 1
    BY <1>1, <1>3, <2>1
  <2> QED BY <1>1, <1>2, <2>1, <2>2, <2>3, SessionTimes
<1>4. \A k \in Keys \ Tracked : lastActive'[k] = Untracked
  BY <1>1 DEF Tracked
<1>5. Tracked' = Tracked
  BY <1>3, <1>4, SessionTimes DEF Tracked
<1>6. lastActive' \in [Keys -> (0 .. Oldest) \cup {Untracked}]
  <2>1. \A k \in Keys : lastActive'[k] \in (0 .. Oldest) \cup {Untracked}
    BY <1>3, <1>4
  <2> QED BY <1>1, <2>1
<1>7. SessionsTypeOK'
  BY <1>1, <1>2, <1>6 DEF SessionsInv, SessionsTypeOK
<1>8. TrackedTogether' /\ LoggedOutIsForgotten'
  BY <1>1, <1>5 DEF SessionsInv, TrackedTogether, LoggedOutIsForgotten
<1> QED BY <1>1, <1>3, <1>5, <1>7, <1>8 DEF SessionsInv

\* Every step keeps the invariant.
LEMMA SessionsStep ==
    ASSUME SessionsInv, [SessionsNext]_sessionVars
    PROVE  SessionsInv'
<1>1. CASE UNCHANGED sessionVars
  BY <1>1 DEF sessionVars, SessionsInv, SessionsTypeOK, Tracked, TrackedTogether,
              LoggedOutIsForgotten
<1>2. ASSUME NEW u \in People, NEW s \in Sessions, HandleRequest(u, s)
      PROVE  SessionsInv'
  BY <1>1, <1>2, AdmitOK DEF HandleRequest, Refuse
<1>3. ASSUME NEW u \in People, Logout(u) \/ BackchannelLogout(u)
      PROVE  SessionsInv'
  <2>1. ASSUME NEW s \in SessionsOf[u], Invalidate(u, {s})
        PROVE  SessionsInv'
    <3>1. {s} \subseteq SessionsOf[u]
      OBVIOUS
    <3> QED BY <2>1, <3>1, InvalidateOK
  <2>2. ASSUME Invalidate(u, userSessions[u])
        PROVE  SessionsInv'
    <3>1. PICK ids : ids = userSessions[u]
      OBVIOUS
    <3>2. ids \subseteq SessionsOf[u] /\ Invalidate(u, ids)
      BY <2>2, <3>1 DEF SessionsInv
    <3> QED BY <3>2, InvalidateOK
  <2> QED BY <1>3, <2>1, <2>2 DEF Logout, BackchannelLogout
<1> QED BY <1>1, <1>2, <1>3, CleanupOK, SessionTickOK DEF SessionsNext

\* After any mix of requests, logouts and clean-ups the two maps of the session
\* middleware know the same sessions, none that was logged out and none older
\* than the clean-up promises.
THEOREM SessionsCorrect == Spec => []SessionsAreSound
<1>1. Init => SessionsInv
  BY SessionsInitOK DEF Init
<1>2. SessionsInv /\ [Next]_apiVars => SessionsInv'
  <2>1. [Next]_apiVars => [SessionsNext]_sessionVars
    BY DEF Next, apiVars, gateVars, storeVars
  <2> QED BY <2>1, SessionsStep
<1>3. ASSUME SessionsInv PROVE KeptForTwiceIdle
  <2>1. ASSUME NEW k \in Tracked
        PROVE  lastActive[k] <= 2 * IdleTimeout + CleanupInterval
    <3>1. lastActive[k] <= 2 * IdleTimeout + sinceCleanup /\ lastActive[k] \in 0 .. Oldest
      BY <1>3 DEF SessionsInv, SessionsTypeOK, Tracked
    <3>2. sinceCleanup \in 0 .. CleanupInterval
      BY <1>3 DEF SessionsInv, SessionsTypeOK
    <3> QED BY <3>1, <3>2, SessionTimes
  <2> QED BY <2>1 DEF KeptForTwiceIdle
<1>4. SessionsInv => SessionsAreSound
  BY <1>3 DEF SessionsInv, SessionsAreSound
<1> QED BY <1>1, <1>2, <1>4, PTL DEF Spec

-----------------------------------------------------------------------------
(***************************************************************************)
(* The rate limiter.                                                       *)
(***************************************************************************)

\* What is stored of a client, trimmed to the window, are the requests that
\* passed in it; no age has grown by more than the time since the clean-up.
LimiterInv ==
    /\ sincePrune \in 0 .. PruneInterval
    /\ store \in [Clients -> {NoEntry} \cup Seq(Nat)]
    /\ lately \in [Clients -> Seq(Nat)]
    /\ \A c \in Clients :
          /\ store[c] # NoEntry =>
                /\ Len(store[c]) <= MaxRequests
                /\ \A i \in DOMAIN store[c] : store[c][i] < WindowLength + sincePrune
          /\ Len(lately[c]) <= MaxRequests
          /\ \A i \in DOMAIN lately[c] : lately[c][i] < WindowLength
          /\ Recent(c) = lately[c]

\* The limits are positive.
LEMMA Limits ==
    /\ WindowLength \in Nat /\ WindowLength > 0
    /\ MaxRequests \in Nat /\ MaxRequests > 0
    /\ PruneInterval \in Nat /\ PruneInterval > 0
BY LimiterLimits

\* The timestamps of a window are not more than there were, and young.
LEMMA Windows ==
    ASSUME NEW s \in Seq(Nat)
    PROVE  /\ InWindow(s) \in Seq(Nat) /\ Len(InWindow(s)) <= Len(s)
           /\ \A k \in DOMAIN InWindow(s) : InWindow(s)[k] < WindowLength
<1>1. PICK A : A = {i \in DOMAIN s : s[i] < WindowLength}
  OBVIOUS
<1>2. InWindow(s) = Picked(s, A) /\ A \in SUBSET (DOMAIN s)
  BY <1>1 DEF InWindow
<1>3. /\ Picked(s, A) \in Seq(Nat) /\ Len(Picked(s, A)) = Cardinality(A)
      /\ Cardinality(A) <= Len(s)
      /\ \A k \in DOMAIN Picked(s, A) : \E i \in A : Picked(s, A)[k] = s[i]
  BY <1>2, PickedSeq
<1> QED BY <1>1, <1>2, <1>3

\* A list of young timestamps is its own window.
LEMMA AllInWindow ==
    ASSUME NEW s \in Seq(Nat), \A i \in DOMAIN s : s[i] < WindowLength
    PROVE  InWindow(s) = s
<1>1. {i \in DOMAIN s : s[i] < WindowLength} = DOMAIN s
  OBVIOUS
<1> QED BY <1>1, PickedAll DEF InWindow

\* A list whose timestamps age keeps its length.
LEMMA OlderSeq ==
    ASSUME NEW s \in Seq(Nat)
    PROVE  /\ OneOlder(s) \in Seq(Nat) /\ Len(OneOlder(s)) = Len(s)
           /\ DOMAIN OneOlder(s) = DOMAIN s
           /\ \A i \in DOMAIN s : OneOlder(s)[i] = s[i] + 1 /\ s[i] \in Nat
<1>1. PICK n \in Nat : n = Len(s) /\ DOMAIN s = 1 .. n
  BY LenProperties
<1>2. \A i \in 1 .. n : s[i] \in Nat /\ s[i] + 1 \in Nat
  BY <1>1, ElementOfSeq
<1>3. OneOlder(s) = [i \in 1 .. n |-> s[i] + 1]
  BY <1>1 DEF OneOlder
<1>4. OneOlder(s) \in [1 .. n -> Nat]
  BY <1>2, <1>3
<1>5. OneOlder(s) \in Seq(Nat) /\ Len(OneOlder(s)) = n
  BY <1>4, SeqDef, LenProperties
<1> QED BY <1>1, <1>2, <1>3, <1>5

\* What has left the window may be dropped before time passes or after.
LEMMA WindowsOlder ==
    ASSUME NEW s \in Seq(Nat)
    PROVE  InWindow(OneOlder(InWindow(s))) = InWindow(OneOlder(s))
<1>1. PICK n \in Nat : n = Len(s) /\ DOMAIN s = 1 .. n
  BY LenProperties
<1>2. PICK A, c, t : /\ A = {i \in 1 .. n : s[i] < WindowLength}
                     /\ c = Cardinality(A) /\ t = InWindow(s)
  OBVIOUS
<1>3. A \in SUBSET (1 .. n) /\ t = Picked(s, A)
  BY <1>1, <1>2 DEF InWindow
<1>4. t \in Seq(Nat) /\ Len(t) = c /\ c \in Nat /\ DOMAIN t = 1 .. c
  BY <1>1, <1>2, <1>3, PickedSeq, LenProperties
<1>5. PICK f : Enumerates(f, A, c) /\ Follows(t, s, f, c)
  BY <1>2, <1>3, PickedAre
<1>6. \A k \in 1 .. c : f[k] \in A /\ f[k] \in 1 .. n /\ t[k] = s[f[k]]
  BY <1>3, <1>5 DEF Enumerates, Follows
<1>7. PICK u, v : u = OneOlder(t) /\ v = OneOlder(s)
  OBVIOUS
<1>8. /\ DOMAIN u = 1 .. c /\ DOMAIN v = 1 .. n /\ u \in Seq(Nat) /\ v \in Seq(Nat)
      /\ \A k \in 1 .. c : u[k] = t[k] + 1
      /\ \A i \in 1 .. n : v[i] = s[i] + 1 /\ s[i] \in Nat
  BY <1>1, <1>4, <1>7, OlderSeq
<1>9. PICK B, m : B = {k \in 1 .. c : u[k] < WindowLength} /\ m = Cardinality(B)
  OBVIOUS
<1>10. PICK C : C = {i \in 1 .. n : v[i] < WindowLength}
  OBVIOUS
<1>11. B \in SUBSET (1 .. c) /\ C \in SUBSET (1 .. n) /\ A \in SUBSET Nat
       /\ InWindow(u) = Picked(u, B) /\ InWindow(v) = Picked(v, C)
  BY <1>2, <1>8, <1>9, <1>10 DEF InWindow
<1>12. m \in Nat
  BY <1>4, <1>9, <1>11, Places
<1>13. PICK h : Enumerates(h, B, m)
  BY <1>4, <1>9, <1>11, PickedAre
<1>14. \A k \in 1 .. c : u[k] = v[f[k]]
  BY <1>6, <1>8
<1>15. C = {f[k] : k \in B}
  <2>1. ASSUME NEW i \in C PROVE \E k \in B : f[k] = i
    <3>1. i \in 1 .. n /\ s[i] \in Nat /\ s[i] + 1 < WindowLength
      BY <1>8, <1>10
    <3>2. i \in A
      BY <1>2, <3>1, Limits
    <3>3. PICK k \in 1 .. c : f[k] = i
      BY <1>5, <3>2 DEF Enumerates
    <3>4. k \in B
      BY <1>9, <1>10, <1>14, <3>3
    <3> QED BY <3>3, <3>4
  <2>2. \A k \in B : f[k] \in C
    BY <1>6, <1>9, <1>10, <1>14
  <2> QED BY <2>1, <2>2
<1>16. PICK g : g = [k \in 1 .. m |-> f[h[k]]]
  OBVIOUS
<1>17. Enumerates(g, C, m)
  BY <1>4, <1>5, <1>11, <1>12, <1>13, <1>15, <1>16, EnumeratesTwice
<1>18. Follows(Picked(u, B), u, h, m) /\ Follows(Picked(v, C), v, g, m)
       /\ Cardinality(C) = m
  BY <1>1, <1>4, <1>11, <1>12, <1>13, <1>17, PickedOnly
<1>19. \A k \in 1 .. m : Picked(u, B)[k] = Picked(v, C)[k]
  <2>1. \A k \in 1 .. m : h[k] \in 1 .. c /\ g[k] = f[h[k]]
    BY <1>11, <1>13, <1>16 DEF Enumerates
  <2> QED BY <1>14, <1>18, <2>1 DEF Follows
<1>20. /\ Picked(u, B) = [k \in 1 .. m |-> Picked(u, B)[k]]
       /\ Picked(v, C) = [k \in 1 .. m |-> Picked(v, C)[k]]
  BY <1>9, <1>18 DEF Picked
<1>21. Picked(u, B) = Picked(v, C)
  BY <1>19, <1>20
<1> QED BY <1>2, <1>7, <1>11, <1>21

\* The list of an entry is the list of the requests that passed lately,
\* within the limit.
LEMMA RecentOK ==
    ASSUME LimiterInv, NEW c \in Clients
    PROVE  /\ Recent(c) \in Seq(Nat) /\ Recent(c) = lately[c]
           /\ Len(Recent(c)) <= MaxRequests /\ Len(Recent(c)) \in Nat
           /\ \A i \in DOMAIN Recent(c) : Recent(c)[i] < WindowLength
BY LenProperties DEF LimiterInv

\* What is stored anew is in the window as it is.
LEMMA StoredInWindow ==
    ASSUME LimiterInv, NEW c \in Clients, NEW s \in Seq(Nat), s # NoEntry,
           NEW l \in Seq(Nat), l = s, Len(s) <= MaxRequests,
           \A i \in DOMAIN s : s[i] < WindowLength,
           store' = [store EXCEPT ![c] = s], lately' = [lately EXCEPT ![c] = l],
           sincePrune' = sincePrune
    PROVE  LimiterInv'
<1>1. /\ store' \in [Clients -> {NoEntry} \cup Seq(Nat)]
      /\ lately' \in [Clients -> Seq(Nat)]
      /\ store'[c] = s /\ lately'[c] = s
      /\ \A d \in Clients \ {c} : store'[d] = store[d] /\ lately'[d] = lately[d]
  BY DEF LimiterInv
<1>2. Recent(c)' = lately'[c]
  BY <1>1, AllInWindow DEF Recent
<1>3. \A d \in Clients \ {c} : Recent(d)' = Recent(d)
  BY <1>1 DEF Recent
<1>4. \A i \in DOMAIN s : s[i] < WindowLength + sincePrune
  <2>1. ASSUME NEW i \in DOMAIN s PROVE s[i] < WindowLength + sincePrune
    <3>1. s[i] \in Nat /\ s[i] < WindowLength /\ sincePrune \in Nat
      BY ElementOfSeq, LenProperties, Limits DEF LimiterInv
    <3> QED BY <3>1, Limits
  <2> QED BY <2>1
<1>5. ASSUME NEW d \in Clients
      PROVE  /\ store'[d] # NoEntry =>
                   /\ Len(store'[d]) <= MaxRequests
                   /\ \A i \in DOMAIN store'[d] :
                         store'[d][i] < WindowLength + sincePrune
             /\ Len(lately'[d]) <= MaxRequests
             /\ \A i \in DOMAIN lately'[d] : lately'[d][i] < WindowLength
             /\ Recent(d)' = lately'[d]
  <2>1. CASE d = c
    BY <1>1, <1>2, <1>4, <2>1
  <2>2. CASE d # c
    BY <1>1, <1>3, <2>2 DEF LimiterInv
  <2> QED BY <2>1, <2>2
<1> QED BY <1>1, <1>5 DEF LimiterInv

\* A request passes.
LEMMA PassOK ==
    ASSUME LimiterInv, NEW c \in Clients, Pass(c)
    PROVE  LimiterInv'
<1>1. PICK r : r = Recent(c)
  OBVIOUS
<1>2. /\ r \in Seq(Nat) /\ r = lately[c] /\ Len(r) < MaxRequests /\ Len(r) \in Nat
      /\ \A i \in DOMAIN r : r[i] < WindowLength
  BY <1>1, RecentOK DEF Pass
<1>3. PICK s : s = Append(r, 0)
  OBVIOUS
<1>4. /\ s \in Seq(Nat) /\ Len(s) = Len(r) + 1 /\ DOMAIN s = 1 .. Len(r) + 1
      /\ s[Len(r) + 1] = 0 /\ \A i \in 1 .. Len(r) : s[i] = r[i] /\ i \in DOMAIN r
  BY <1>2, <1>3, AppendProperties, LenProperties
<1>5. \A i \in DOMAIN s : s[i] < WindowLength
  <2>1. ASSUME NEW i \in DOMAIN s PROVE s[i] < WindowLength
    <3>1. i = Len(r) + 1 \/ i \in 1 .. Len(r)
      BY <1>2, <1>4
    <3> QED BY <1>2, <1>4, <3>1, Limits
  <2> QED BY <2>1
<1>6. Len(s) <= MaxRequests
  BY <1>2, <1>4, Limits
<1>7. /\ store' = [store EXCEPT ![c] = s] /\ lately' = [lately EXCEPT ![c] = s]
      /\ sincePrune' = sincePrune
  BY <1>1, <1>2, <1>3 DEF Pass, LimiterInv
<1>8. s # NoEntry
  BY <1>4, NoEntryIsNoList
<1> QED BY <1>4, <1>5, <1>6, <1>7, <1>8, StoredInWindow

\* A request is refused with 429.
LEMMA TooManyOK ==
    ASSUME LimiterInv, NEW c \in Clients, TooMany(c)
    PROVE  LimiterInv'
<1>1. PICK r : r = Recent(c)
  OBVIOUS
<1>2. /\ r \in Seq(Nat) /\ r = lately[c] /\ Len(r) <= MaxRequests
      /\ \A i \in DOMAIN r : r[i] < WindowLength
  BY <1>1, RecentOK
<1>3. /\ store' = [store EXCEPT ![c] = r] /\ lately' = [lately EXCEPT ![c] = r]
      /\ sincePrune' = sincePrune
  BY <1>1, <1>2 DEF TooMany, LimiterInv
<1>4. r # NoEntry
  BY <1>2, NoEntryIsNoList
<1> QED BY <1>2, <1>3, <1>4, StoredInWindow

\* The periodic clean-up.
LEMMA PruneOK ==
    ASSUME LimiterInv, Prune
    PROVE  LimiterInv'
<1>1. /\ sincePrune' = 0 /\ lately' = lately
      /\ store' = [c \in Clients |->
            IF Recent(c) = <<>> THEN NoEntry ELSE Recent(c)]
  BY DEF Prune
<1>2. \A c \in Clients : Recent(c) \in Seq(Nat) /\ Recent(c) # NoEntry
  BY RecentOK, NoEntryIsNoList
<1>3. store' \in [Clients -> {NoEntry} \cup Seq(Nat)] /\ 0 \in 0 .. PruneInterval
  BY <1>1, <1>2, Limits
<1>4. ASSUME NEW c \in Clients
      PROVE  /\ store'[c] # NoEntry =>
                   /\ Len(store'[c]) <= MaxRequests
                   /\ \A i \in DOMAIN store'[c] : store'[c][i] < WindowLength + 0
             /\ Recent(c)' = lately[c]
  <2>1. PICK r : r = Recent(c)
    OBVIOUS
  <2>2. /\ r \in Seq(Nat) /\ r = lately[c] /\ Len(r) <= MaxRequests
        /\ \A i \in DOMAIN r : r[i] < WindowLength
    BY <2>1, RecentOK
  <2>3. CASE r = <<>>
    <3>1. store'[c] = NoEntry
      BY <1>1, <2>1, <2>3
    <3> QED BY <2>2, <2>3, <3>1 DEF Recent
  <2>4. CASE r # <<>>
    <3>1. store'[c] = r /\ r # NoEntry
      BY <1>1, <1>2, <2>1, <2>4
    <3>2. Recent(c)' = r
      BY <2>2, <3>1, AllInWindow DEF Recent
    <3> QED BY <2>2, <3>1, <3>2, Limits
  <2> QED BY <2>3, <2>4
<1> QED BY <1>1, <1>3, <1>4 DEF LimiterInv

\* Time passes.
LEMMA LimiterTickOK ==
    ASSUME LimiterInv, LimiterTick
    PROVE  LimiterInv'
<1>1. /\ sincePrune < PruneInterval /\ sincePrune' = sincePrune + 1
      /\ store' = [c \in Clients |->
            IF store[c] = NoEntry THEN NoEntry ELSE OneOlder(store[c])]
      /\ lately' = [c \in Clients |-> InWindow(OneOlder(lately[c]))]
  BY DEF LimiterTick
<1>2. sincePrune' \in 0 .. PruneInterval /\ sincePrune \in Nat
  BY <1>1, Limits DEF LimiterInv
<1>3. ASSUME NEW c \in Clients
      PROVE  /\ store'[c] \in {NoEntry} \cup Seq(Nat)
             /\ store'[c] # NoEntry =>
                   /\ Len(store'[c]) <= MaxRequests
                   /\ \A i \in DOMAIN store'[c] :
                         store'[c][i] < WindowLength + sincePrune'
             /\ lately'[c] \in Seq(Nat) /\ Len(lately'[c]) <= MaxRequests
             /\ \A i \in DOMAIN lately'[c] : lately'[c][i] < WindowLength
             /\ Recent(c)' = lately'[c]
  <2>1. PICK s, l, o : s = store[c] /\ l = lately[c] /\ o = OneOlder(l)
    OBVIOUS
  <2>2. /\ l \in Seq(Nat) /\ Len(l) <= MaxRequests /\ Len(l) \in Nat
        /\ s \in {NoEntry} \cup Seq(Nat) /\ Recent(c) = l
        /\ s # NoEntry =>
              /\ Len(s) <= MaxRequests
              /\ \A i \in DOMAIN s : s[i] < WindowLength + sincePrune
    BY <2>1, LenProperties DEF LimiterInv
  <2>3. o \in Seq(Nat) /\ Len(o) = Len(l)
    BY <2>1, <2>2, OlderSeq
  <2>4. lately'[c] = InWindow(o)
    BY <1>1, <2>1
  <2>5. /\ InWindow(o) \in Seq(Nat) /\ Len(InWindow(o)) <= Len(o)
        /\ \A k \in DOMAIN InWindow(o) : InWindow(o)[k] < WindowLength
    BY <2>3, Windows
  <2>6. Len(InWindow(o)) <= MaxRequests
    BY <2>2, <2>3, <2>5, LenProperties, Limits
  <2>7. CASE s = NoEntry
    <3>1. l = <<>> /\ store'[c] = NoEntry
      BY <1>1, <2>1, <2>2, <2>7 DEF Recent
    <3>2. Len(InWindow(o)) = 0
      BY <2>2, <2>3, <2>5, <3>1, LenProperties
    <3>3. InWindow(o) = <<>>
      BY <2>5, <3>2, EmptySeq
    <3> QED BY <2>4, <2>5, <2>6, <3>1, <3>3 DEF Recent
  <2>8. CASE s # NoEntry
    <3>1. s \in Seq(Nat) /\ l = InWindow(s)
      BY <2>1, <2>2, <2>8 DEF Recent
    <3>2. PICK p : p = OneOlder(s)
      OBVIOUS
    <3>3. /\ p \in Seq(Nat) /\ Len(p) = Len(s) /\ DOMAIN p = DOMAIN s
          /\ \A i \in DOMAIN s : p[i] = s[i] + 1 /\ s[i] \in Nat
      BY <3>1, <3>2, OlderSeq
    <3>4. store'[c] = p /\ p # NoEntry
      BY <1>1, <2>1, <2>8, <3>2, <3>3, NoEntryIsNoList
    <3>5. Recent(c)' = InWindow(p)
      BY <3>4 DEF Recent
    <3>6. InWindow(p) = InWindow(o)
      BY <2>1, <3>1, <3>2, WindowsOlder
    <3>7. \A i \in DOMAIN p : p[i] < WindowLength + sincePrune'
      <4>1. ASSUME NEW i \in DOMAIN s PROVE s[i] + 1 < WindowLength + sincePrune'
        <5>1. s[i] < WindowLength + sincePrune /\ s[i] \in Nat
          BY <2>2, <2>8, <3>3
        <5> QED BY <1>1, <1>2, <5>1, Limits
      <4> QED BY <3>3, <4>1
    <3> QED BY <2>2, <2>4, <2>5, <2>6, <2>8, <3>3, <3>4, <3>5, <3>6, <3>7
  <2> QED BY <2>7, <2>8
<1>4. store' \in [Clients -> {NoEntry} \cup Seq(Nat)] /\ lately' \in [Clients -> Seq(Nat)]
  BY <1>1, <1>3
<1> QED BY <1>2, <1>3, <1>4 DEF LimiterInv

\* Every step keeps the invariant.
LEMMA LimiterStep ==
    ASSUME LimiterInv, [LimiterNext]_limiterVars
    PROVE  LimiterInv'
<1>1. CASE UNCHANGED limiterVars
  BY <1>1 DEF limiterVars, LimiterInv, Recent
<1> QED BY <1>1, PassOK, TooManyOK, PruneOK, LimiterTickOK DEF LimiterNext

\* Requests, clean-ups and time interleave as they may: no window has more
\* passed requests of a client than the limiter admits, a request is refused
\* only when that many passed, and nothing outlives the clean-up.
THEOREM LimiterCorrect == Spec => []LimiterIsSound
<1>1. Init => LimiterInv
  <2> SUFFICES ASSUME LimiterInit PROVE LimiterInv
    BY DEF Init
  <2>1. <<>> \in Seq(Nat) /\ Len(<<>>) = 0 /\ DOMAIN <<>> = {}
    BY EmptySeq
  <2> QED BY <2>1, Limits DEF LimiterInit, LimiterInv, Recent
<1>2. LimiterInv /\ [Next]_apiVars => LimiterInv'
  <2>1. [Next]_apiVars => [LimiterNext]_limiterVars
    BY DEF Next, apiVars, gateVars
  <2> QED BY <2>1, LimiterStep
<1>3. ASSUME LimiterInv PROVE LimiterIsSound
  <2>1. ASSUME NEW c \in Clients, store[c] # NoEntry
        PROVE  store[c] \in Seq(0 .. WindowLength + PruneInterval)
    <3>1. PICK n \in Nat : /\ n = Len(store[c]) /\ DOMAIN store[c] = 1 .. n
                           /\ store[c] \in [1 .. n -> Nat]
      BY <1>3, <2>1, LenProperties, SeqDef DEF LimiterInv
    <3>2. sincePrune \in Nat /\ sincePrune <= PruneInterval
      BY <1>3, Limits DEF LimiterInv
    <3>3. ASSUME NEW i \in 1 .. n
          PROVE  store[c][i] \in 0 .. WindowLength + PruneInterval
      <4>1. store[c][i] \in Nat /\ store[c][i] < WindowLength + sincePrune
        BY <1>3, <2>1, <3>1 DEF LimiterInv
      <4> QED BY <3>2, <4>1, Limits
    <3>4. store[c] \in [1 .. n -> 0 .. WindowLength + PruneInterval]
      BY <3>1, <3>3
    <3> QED BY <3>4, SeqDef
  <2>2. ASSUME NEW c \in Clients
        PROVE  lately[c] \in Seq(0 .. WindowLength - 1)
    <3>1. PICK n \in Nat : /\ n = Len(lately[c]) /\ DOMAIN lately[c] = 1 .. n
                           /\ lately[c] \in [1 .. n -> Nat]
      BY <1>3, LenProperties, SeqDef DEF LimiterInv
    <3>2. ASSUME NEW i \in 1 .. n
          PROVE  lately[c][i] \in 0 .. WindowLength - 1
      <4>1. lately[c][i] \in Nat /\ lately[c][i] < WindowLength
        BY <1>3, <3>1 DEF LimiterInv
      <4> QED BY <4>1, Limits
    <3>3. lately[c] \in [1 .. n -> 0 .. WindowLength - 1]
      BY <3>1, <3>2
    <3> QED BY <3>3, SeqDef
  <2>3. LimiterTypeOK
    BY <1>3, <2>1, <2>2 DEF LimiterInv, LimiterTypeOK
  <2>4. AtMostMaxPerWindow
    BY <1>3 DEF LimiterInv, AtMostMaxPerWindow
  <2> QED BY <2>3, <2>4 DEF LimiterIsSound
<1> QED BY <1>1, <1>2, <1>3, PTL DEF Spec

-----------------------------------------------------------------------------
(***************************************************************************)
(* The event bus.                                                          *)
(***************************************************************************)

\* A call of publish: those who have ended are among those who hear of it,
\* those who threw among those who have ended, and all have ended when it is
\* over; the audit consumer hears of it, if it was registered.
PublicationOK(c) ==
    \/ c = NoEvent
    \/ /\ c \in [heard : SUBSET Subscribers, ended : SUBSET Subscribers,
                 failed : SUBSET Subscribers, settled : BOOLEAN,
                 audited : BOOLEAN]
       /\ c.ended \subseteq c.heard /\ c.failed \subseteq c.ended
       /\ c.settled => c.ended = c.heard
       /\ c.audited => Audit \in c.heard

Pairs(f) == {s \in EventTypes \X Subscribers : s[2] \in f[s[1]]}
Errors(f) == {e \in Publications \X Subscribers :
                 f[e[1]].settled /\ e[2] \in f[e[1]].failed}

BusInv ==
    /\ BusTypeOK
    /\ publication \in [Publications -> {NoEvent} \cup
          [heard : SUBSET Subscribers, ended : SUBSET Subscribers,
           failed : SUBSET Subscribers, settled : BOOLEAN, audited : BOOLEAN]]
    /\ \A p \in Publications : PublicationOK(publication[p])
    /\ registered => \A t \in EventTypes : Audit \in handlers[t]
    /\ ErrorsCounted

\* An event that was not published is no publication.
LEMMA NoEventIsNone ==
    /\ ~NoEvent.settled
    /\ \A c : PublicationOK(c) /\ c.settled => c # NoEvent
    /\ NoEvent \notin [heard : SUBSET Subscribers, ended : SUBSET Subscribers,
                       failed : SUBSET Subscribers, settled : BOOLEAN,
                       audited : BOOLEAN]
BY DEF NoEvent

\* Subscriptions and errors can be counted.
LEMMA BusSetsAreFinite ==
    /\ IsFiniteSet(Subscribers)
    /\ IsFiniteSet(EventTypes \X Subscribers)
    /\ IsFiniteSet(Publications \X Subscribers)
    /\ \A f : IsFiniteSet(Pairs(f)) /\ IsFiniteSet(Errors(f))
<1>1. IsFiniteSet(Subscribers)
  BY BusIsFinite, FS_AddElement DEF Subscribers
<1>2. IsFiniteSet(EventTypes \X Subscribers) /\ IsFiniteSet(Publications \X Subscribers)
  BY <1>1, BusIsFinite, FS_Product
<1>3. \A f : Pairs(f) \subseteq EventTypes \X Subscribers
             /\ Errors(f) \subseteq Publications \X Subscribers
  BY DEF Pairs, Errors
<1> QED BY <1>1, <1>2, <1>3, FS_Subset

\* As many pairs as there are elements to pair with one.
LEMMA PairsWithOne ==
    ASSUME NEW S, IsFiniteSet(S), NEW w
    PROVE  /\ Cardinality({<<t, w>> : t \in S}) = Cardinality(S)
           /\ Cardinality({<<w, t>> : t \in S}) = Cardinality(S)
           /\ IsFiniteSet({<<t, w>> : t \in S}) /\ IsFiniteSet({<<w, t>> : t \in S})
<1> DEFINE A == {<<t, w>> : t \in S}
           B == {<<w, t>> : t \in S}
<1>1. IsFiniteSet({w}) /\ Cardinality({w}) = 1 /\ Cardinality(S) \in Nat
  BY FS_Singleton, FS_CardinalityType
<1>2. A = S \X {w} /\ B = {w} \X S
  OBVIOUS
<1>3. /\ IsFiniteSet(S \X {w}) /\ Cardinality(S \X {w}) = Cardinality(S) * Cardinality({w})
      /\ IsFiniteSet({w} \X S) /\ Cardinality({w} \X S) = Cardinality({w}) * Cardinality(S)
  BY <1>1, FS_Product
<1>4. Cardinality(S) * Cardinality({w}) = Cardinality(S)
      /\ Cardinality({w}) * Cardinality(S) = Cardinality(S)
  BY <1>1
<1> HIDE DEF A, B
<1>5. /\ Cardinality(A) = Cardinality(S) /\ IsFiniteSet(A)
      /\ Cardinality(B) = Cardinality(S) /\ IsFiniteSet(B)
  BY <1>2, <1>3, <1>4
<1> QED BY <1>5 DEF A, B

\* One more set of elements, and one set less.
LEMMA DisjointUnion ==
    ASSUME NEW S, NEW T, IsFiniteSet(S), IsFiniteSet(T), S \cap T = {}
    PROVE  /\ IsFiniteSet(S \cup T)
           /\ Cardinality(S \cup T) = Cardinality(S) + Cardinality(T)
           /\ Cardinality(S) \in Nat /\ Cardinality(T) \in Nat
<1>1. Cardinality(S) \in Nat /\ Cardinality(T) \in Nat
  BY FS_CardinalityType
<1>2. /\ IsFiniteSet(S \cup T)
      /\ Cardinality(S \cup T) = Cardinality(S) + Cardinality(T) - Cardinality(S \cap T)
  BY FS_Union
<1>3. Cardinality(S \cap T) = 0
  BY FS_EmptySet
<1> QED BY <1>1, <1>2, <1>3

\* subscribe counts the subscriptions that are new.
LEMMA SubscribedCounts ==
    ASSUME BusInv, NEW who \in Subscribers, NEW types \in SUBSET EventTypes,
           Subscribed(who, types)
    PROVE  /\ handlers' \in [EventTypes -> SUBSET Subscribers]
           /\ handlerCount' = Cardinality(Pairs(handlers'))
           /\ \A t \in EventTypes :
                 handlers'[t] = IF t \in types THEN handlers[t] \cup {who} ELSE handlers[t]
<1> DEFINE fresh == types \ Subscriptions(who)
           more == {<<t, who>> : t \in fresh}
<1>1. /\ handlers \in [EventTypes -> SUBSET Subscribers]
      /\ handlers' = [t \in EventTypes |->
            IF t \in types THEN handlers[t] \cup {who} ELSE handlers[t]]
      /\ handlerCount' = handlerCount + Cardinality(fresh)
      /\ handlerCount = Cardinality(Pairs(handlers))
  BY DEF Subscribed, BusInv, BusTypeOK, Pairs
<1>2. handlers' \in [EventTypes -> SUBSET Subscribers]
  BY <1>1
<1>3. \A t \in EventTypes :
         handlers'[t] = IF t \in types THEN handlers[t] \cup {who} ELSE handlers[t]
  BY <1>1
<1>p. \A t \in EventTypes : t \in fresh <=> t \in types /\ who \notin handlers[t]
  BY DEF Subscriptions
<1>q. \A t : \A w : <<t, w>> \in more <=> t \in fresh /\ w = who
  OBVIOUS
<1>r. more \subseteq EventTypes \X Subscribers
  OBVIOUS
<1>4. Pairs(handlers') = Pairs(handlers) \cup more /\ Pairs(handlers) \cap more = {}
  <2> HIDE DEF fresh, more
  <2>1. \A f : \A t \in EventTypes, w \in Subscribers :
           <<t, w>> \in Pairs(f) <=> w \in f[t]
    BY DEF Pairs
  <2>2. \A f : Pairs(f) \subseteq EventTypes \X Subscribers
    BY DEF Pairs
  <2>3. \A t \in EventTypes, w \in Subscribers :
           /\ <<t, w>> \in Pairs(handlers') <=> <<t, w>> \in Pairs(handlers) \cup more
           /\ ~(<<t, w>> \in Pairs(handlers) /\ <<t, w>> \in more)
    BY <1>3, <1>p, <1>q, <2>1
  <2> QED BY <1>r, <2>2, <2>3
<1>5. IsFiniteSet(fresh)
  BY BusIsFinite, FS_Subset
<1>6. IsFiniteSet(more) /\ Cardinality(more) = Cardinality(fresh)
  BY <1>5, PairsWithOne
<1>7. IsFiniteSet(Pairs(handlers))
  BY BusSetsAreFinite
<1> HIDE DEF more, fresh
<1>8. Cardinality(Pairs(handlers')) = Cardinality(Pairs(handlers)) + Cardinality(more)
  BY <1>4, <1>6, <1>7, DisjointUnion
<1> QED BY <1>1, <1>2, <1>3, <1>6, <1>8

\* unsubscribe counts those that were there.
LEMMA UnsubscribedCounts ==
    ASSUME BusInv, NEW who \in Subscribers, NEW types \in SUBSET EventTypes,
           Unsubscribed(who, types)
    PROVE  /\ handlers' \in [EventTypes -> SUBSET Subscribers]
           /\ handlerCount' = Cardinality(Pairs(handlers'))
           /\ \A t \in EventTypes :
                 handlers'[t] = IF t \in types THEN handlers[t] \ {who} ELSE handlers[t]
<1> DEFINE gone == types \cap Subscriptions(who)
           less == {<<t, who>> : t \in gone}
<1>1. /\ handlers \in [EventTypes -> SUBSET Subscribers]
      /\ handlers' = [t \in EventTypes |->
            IF t \in types THEN handlers[t] \ {who} ELSE handlers[t]]
      /\ handlerCount' = handlerCount - Cardinality(gone)
      /\ handlerCount = Cardinality(Pairs(handlers))
  BY DEF Unsubscribed, BusInv, BusTypeOK, Pairs
<1>2. handlers' \in [EventTypes -> SUBSET Subscribers]
  BY <1>1
<1>3. \A t \in EventTypes :
         handlers'[t] = IF t \in types THEN handlers[t] \ {who} ELSE handlers[t]
  BY <1>1
<1>p. \A t \in EventTypes : t \in gone <=> t \in types /\ who \in handlers[t]
  BY DEF Subscriptions
<1>q. \A t : \A w : <<t, w>> \in less <=> t \in gone /\ w = who
  OBVIOUS
<1>r. less \subseteq EventTypes \X Subscribers
  OBVIOUS
<1>4. Pairs(handlers) = Pairs(handlers') \cup less /\ Pairs(handlers') \cap less = {}
  <2> HIDE DEF gone, less
  <2>1. \A f : \A t \in EventTypes, w \in Subscribers :
           <<t, w>> \in Pairs(f) <=> w \in f[t]
    BY DEF Pairs
  <2>2. \A f : Pairs(f) \subseteq EventTypes \X Subscribers
    BY DEF Pairs
  <2>3. \A t \in EventTypes, w \in Subscribers :
           /\ <<t, w>> \in Pairs(handlers) <=> <<t, w>> \in Pairs(handlers') \cup less
           /\ ~(<<t, w>> \in Pairs(handlers') /\ <<t, w>> \in less)
    BY <1>3, <1>p, <1>q, <2>1
  <2> QED BY <1>r, <2>2, <2>3
<1>5. IsFiniteSet(gone)
  BY BusIsFinite, FS_Subset
<1>6. IsFiniteSet(less) /\ Cardinality(less) = Cardinality(gone)
  BY <1>5, PairsWithOne
<1>7. IsFiniteSet(Pairs(handlers'))
  BY BusSetsAreFinite
<1> HIDE DEF less, gone
<1>8. /\ Cardinality(Pairs(handlers)) = Cardinality(Pairs(handlers')) + Cardinality(less)
      /\ Cardinality(Pairs(handlers')) \in Nat /\ Cardinality(less) \in Nat
  BY <1>4, <1>6, <1>7, DisjointUnion
<1> QED BY <1>1, <1>2, <1>3, <1>6, <1>8

\* A change of the handlers that keeps the count and, while the consumer is
\* registered, the consumer.
LEMMA HandlersChanged ==
    ASSUME BusInv, handlers' \in [EventTypes -> SUBSET Subscribers],
           handlerCount' = Cardinality(Pairs(handlers')), registered' \in BOOLEAN,
           registered' => \A t \in EventTypes : Audit \in handlers'[t],
           UNCHANGED <<errorCount, publication>>
    PROVE  BusInv'
<1>1. BusTypeOK'
  BY DEF BusInv, BusTypeOK, Pairs
<1>2. ErrorsCounted'
  BY DEF BusInv, ErrorsCounted
<1> QED BY <1>1, <1>2 DEF BusInv

\* Subscriptions come and go.
LEMMA SubscriptionsOK ==
    ASSUME BusInv,
           \/ Register \/ Unregister
           \/ \E t \in EventTypes, h \in Handlers : Subscribe(h, t) \/ Unsubscribe(h, t)
    PROVE  BusInv'
<1>0. Audit \in Subscribers /\ \A h \in Handlers : h \in Subscribers /\ h # Audit
  BY AuditIsNoOther DEF Subscribers
<1>1. CASE Register
  <2>1. /\ registered' = TRUE /\ Subscribed(Audit, EventTypes)
        /\ UNCHANGED <<errorCount, publication>>
    BY <1>1 DEF Register
  <2>2. /\ handlers' \in [EventTypes -> SUBSET Subscribers]
        /\ handlerCount' = Cardinality(Pairs(handlers'))
        /\ \A t \in EventTypes : handlers'[t] = handlers[t] \cup {Audit}
    BY <1>0, <2>1, SubscribedCounts
  <2> QED BY <2>1, <2>2, HandlersChanged
<1>2. CASE Unregister
  <2>1. /\ registered' = FALSE /\ Unsubscribed(Audit, EventTypes)
        /\ UNCHANGED <<errorCount, publication>>
    BY <1>2 DEF Unregister
  <2>2. /\ handlers' \in [EventTypes -> SUBSET Subscribers]
        /\ handlerCount' = Cardinality(Pairs(handlers'))
    BY <1>0, <2>1, UnsubscribedCounts
  <2> QED BY <2>1, <2>2, HandlersChanged
<1>3. ASSUME NEW t \in EventTypes, NEW h \in Handlers, Subscribe(h, t)
      PROVE  BusInv'
  <2>1. Subscribed(h, {t}) /\ UNCHANGED <<errorCount, registered, publication>>
    BY <1>3 DEF Subscribe
  <2>2. /\ handlers' \in [EventTypes -> SUBSET Subscribers]
        /\ handlerCount' = Cardinality(Pairs(handlers'))
        /\ \A u \in EventTypes : handlers[u] \subseteq handlers'[u]
    <3>1. {t} \in SUBSET EventTypes /\ h \in Subscribers /\ Subscribed(h, {t})
      BY <1>0, <2>1
    <3>2. /\ handlers' \in [EventTypes -> SUBSET Subscribers]
          /\ handlerCount' = Cardinality(Pairs(handlers'))
          /\ \A u \in EventTypes :
                handlers'[u] = IF u \in {t} THEN handlers[u] \cup {h} ELSE handlers[u]
      BY <3>1, SubscribedCounts
    <3> QED BY <3>2
  <2>3. registered' \in BOOLEAN /\ registered' =>
          \A u \in EventTypes : Audit \in handlers'[u]
    BY <2>1, <2>2 DEF BusInv, BusTypeOK
  <2> QED BY <2>1, <2>2, <2>3, HandlersChanged DEF BusInv, BusTypeOK
<1>4. ASSUME NEW t \in EventTypes, NEW h \in Handlers, Unsubscribe(h, t)
      PROVE  BusInv'
  <2>1. Unsubscribed(h, {t}) /\ UNCHANGED <<errorCount, registered, publication>>
    BY <1>4 DEF Unsubscribe
  <2>2. /\ handlers' \in [EventTypes -> SUBSET Subscribers]
        /\ handlerCount' = Cardinality(Pairs(handlers'))
        /\ \A u \in EventTypes : handlers'[u] =
              IF u \in {t} THEN handlers[u] \ {h} ELSE handlers[u]
    <3>1. h \in Subscribers /\ {t} \in SUBSET EventTypes
      BY <1>0
    <3> QED BY <2>1, <3>1, UnsubscribedCounts
  <2>3. registered' => \A u \in EventTypes : Audit \in handlers'[u]
    BY <1>0, <2>1, <2>2 DEF BusInv
  <2> QED BY <2>1, <2>2, <2>3, HandlersChanged DEF BusInv, BusTypeOK
<1> QED BY <1>1, <1>2, <1>3, <1>4

\* A change of one publication after which the errors are counted.
LEMMA PublicationChanged ==
    ASSUME BusInv, NEW p \in Publications, NEW c,
           c \in [heard : SUBSET Subscribers, ended : SUBSET Subscribers,
                  failed : SUBSET Subscribers, settled : BOOLEAN, audited : BOOLEAN],
           PublicationOK(c), publication' = [publication EXCEPT ![p] = c],
           errorCount' \in Nat, errorCount' = Cardinality(Errors(publication')),
           UNCHANGED <<handlers, handlerCount, registered>>
    PROVE  BusInv'
<1>1. BusTypeOK'
  BY DEF BusInv, BusTypeOK
<1>2. ErrorsCounted'
  BY DEF ErrorsCounted, Errors
<1>3. publication' \in [Publications -> {NoEvent} \cup
        [heard : SUBSET Subscribers, ended : SUBSET Subscribers,
         failed : SUBSET Subscribers, settled : BOOLEAN, audited : BOOLEAN]]
  BY DEF BusInv
<1>4. \A q \in Publications : PublicationOK(publication'[q])
  BY DEF BusInv
<1> QED BY <1>1, <1>2, <1>3, <1>4 DEF BusInv, PublicationOK

\* The errors of a publication that settles join those of the others.
LEMMA SameErrorSets ==
    ASSUME NEW f, NEW g, NEW more, more \subseteq Publications \X Subscribers,
           \A q \in Publications, h \in Subscribers :
              (g[q].settled /\ h \in g[q].failed) <=>
              (f[q].settled /\ h \in f[q].failed) \/ <<q, h>> \in more
    PROVE  Errors(g) = Errors(f) \cup more
BY DEF Errors

\* A publication that does not settle with errors adds none.
LEMMA SameErrors ==
    ASSUME BusInv, NEW p \in Publications, NEW c, ~publication[p].settled,
           publication' = [publication EXCEPT ![p] = c], c.settled => c.failed = {},
           errorCount' = errorCount
    PROVE  errorCount' \in Nat /\ errorCount' = Cardinality(Errors(publication'))
<1>1. /\ publication'[p] = c
      /\ \A q \in Publications \ {p} : publication'[q] = publication[q]
  BY DEF BusInv
<1>2. PICK f, g : f = publication /\ g = publication'
  OBVIOUS
<1>3. ASSUME NEW q \in Publications, NEW h \in Subscribers
      PROVE  (g[q].settled /\ h \in g[q].failed) <=>
             (f[q].settled /\ h \in f[q].failed) \/ <<q, h>> \in {}
  <2>1. CASE q = p
    BY <1>1, <1>2, <2>1
  <2>2. CASE q # p
    BY <1>1, <1>2, <2>2
  <2> QED BY <2>1, <2>2
<1>4. Errors(g) = Errors(f) \cup {}
  BY <1>3, SameErrorSets
<1>5. Errors(publication') = Errors(publication)
  BY <1>2, <1>4
<1> QED BY <1>5 DEF BusInv, BusTypeOK, ErrorsCounted, Errors

\* publish starts the handlers subscribed to the event.
LEMMA PublishOK ==
    ASSUME BusInv, NEW p \in Publications, NEW t \in EventTypes, Publish(p, t)
    PROVE  BusInv'
<1> DEFINE c == [heard |-> handlers[t], ended |-> {}, failed |-> {},
                 settled |-> handlers[t] = {}, audited |-> registered]
<1>1. /\ publication[p] = NoEvent
      /\ publication' = [publication EXCEPT ![p] = c]
      /\ UNCHANGED <<handlers, handlerCount, errorCount, registered>>
  BY DEF Publish, Published
<1>2. c \in [heard : SUBSET Subscribers, ended : SUBSET Subscribers,
             failed : SUBSET Subscribers, settled : BOOLEAN, audited : BOOLEAN]
  BY DEF BusInv, BusTypeOK
<1>3. /\ c.heard = handlers[t] /\ c.ended = {} /\ c.failed = {}
      /\ c.settled = (handlers[t] = {}) /\ c.audited = registered
  OBVIOUS
<1> HIDE DEF c
<1>4. PublicationOK(c)
  BY <1>2, <1>3 DEF PublicationOK, BusInv
<1>5. ~publication[p].settled
  BY <1>1, NoEventIsNone
<1>6. errorCount' \in Nat /\ errorCount' = Cardinality(Errors(publication'))
  BY <1>1, <1>3, <1>5, SameErrors
<1> QED BY <1>1, <1>2, <1>4, <1>6, PublicationChanged

\* Type of a publication under way.
LEMMA PublishedTypes ==
    ASSUME BusInv, NEW p \in Publications, Published(p)
    PROVE  /\ publication[p] \in
                [heard : SUBSET Subscribers, ended : SUBSET Subscribers,
                 failed : SUBSET Subscribers, settled : BOOLEAN, audited : BOOLEAN]
           /\ publication[p].ended \subseteq publication[p].heard
           /\ publication[p].failed \subseteq publication[p].ended
           /\ publication[p].settled => publication[p].ended = publication[p].heard
           /\ publication[p].audited => Audit \in publication[p].heard
BY DEF BusInv, Published, PublicationOK

\* A handler ends or throws.
LEMMA HandlerEndsOK ==
    ASSUME BusInv, NEW p \in Publications, NEW h \in Subscribers, HandlerEnds(p, h)
    PROVE  BusInv'
<1>1. /\ Published(p) /\ h \in publication[p].heard \ publication[p].ended
      /\ UNCHANGED <<handlers, handlerCount, errorCount, registered>>
  BY DEF HandlerEnds
<1> DEFINE old == publication[p]
<1>2. /\ old \in [heard : SUBSET Subscribers, ended : SUBSET Subscribers,
                  failed : SUBSET Subscribers, settled : BOOLEAN, audited : BOOLEAN]
      /\ old.ended \subseteq old.heard /\ old.failed \subseteq old.ended
      /\ old.settled => old.ended = old.heard
      /\ old.audited => Audit \in old.heard
  BY <1>1, PublishedTypes
<1>3. PICK failed \in SUBSET {h} : publication' = [publication EXCEPT ![p] =
         [old EXCEPT !.ended = @ \cup {h}, !.failed = @ \cup failed]]
  <2>1. CASE publication' = [publication EXCEPT ![p].ended = @ \cup {h}]
    <3>1. [old EXCEPT !.ended = @ \cup {h}, !.failed = @ \cup {}]
          = [old EXCEPT !.ended = @ \cup {h}]
      BY <1>2
    <3> QED BY <2>1, <3>1
  <2>2. CASE publication' = [publication EXCEPT ![p].ended = @ \cup {h},
                                                ![p].failed = @ \cup {h}]
    <3>1. publication \in [Publications -> {NoEvent} \cup
        [heard : SUBSET Subscribers, ended : SUBSET Subscribers,
         failed : SUBSET Subscribers, settled : BOOLEAN, audited : BOOLEAN]]
      BY DEF BusInv
    <3> QED BY <2>2, <3>1
  <2> QED BY <2>1, <2>2 DEF HandlerEnds
<1> DEFINE c == [old EXCEPT !.ended = @ \cup {h}, !.failed = @ \cup failed]
<1>4. /\ c \in [heard : SUBSET Subscribers, ended : SUBSET Subscribers,
                failed : SUBSET Subscribers, settled : BOOLEAN, audited : BOOLEAN]
      /\ c.heard = old.heard /\ c.ended = old.ended \cup {h}
      /\ c.failed = old.failed \cup failed /\ c.settled = old.settled
      /\ c.audited = old.audited
  BY <1>2
<1> HIDE DEF c
<1>5. ~old.settled
  BY <1>1, <1>2
<1>6. PublicationOK(c)
  BY <1>1, <1>2, <1>4, <1>5 DEF PublicationOK
<1>7. publication' = [publication EXCEPT ![p] = c]
  BY <1>3 DEF c
<1>8. errorCount' \in Nat /\ errorCount' = Cardinality(Errors(publication'))
  BY <1>1, <1>4, <1>5, <1>7, SameErrors
<1> QED BY <1>1, <1>4, <1>6, <1>7, <1>8, PublicationChanged

\* All handlers have ended and their errors are counted.
LEMMA SettleOK ==
    ASSUME BusInv, NEW p \in Publications, Settle(p)
    PROVE  BusInv'
<1> DEFINE old == publication[p]
           c == [old EXCEPT !.settled = TRUE]
           more == {<<p, h>> : h \in old.failed}
<1>1. /\ Published(p) /\ ~old.settled /\ old.ended = old.heard
      /\ publication' = [publication EXCEPT ![p] = c]
      /\ errorCount' = errorCount + Cardinality(old.failed)
      /\ UNCHANGED <<handlers, handlerCount, registered>>
  BY DEF Settle
<1>2. /\ old \in [heard : SUBSET Subscribers, ended : SUBSET Subscribers,
                  failed : SUBSET Subscribers, settled : BOOLEAN, audited : BOOLEAN]
      /\ old.failed \subseteq old.ended
      /\ old.audited => Audit \in old.heard
  BY <1>1, PublishedTypes
<1>3. /\ c \in [heard : SUBSET Subscribers, ended : SUBSET Subscribers,
                failed : SUBSET Subscribers, settled : BOOLEAN, audited : BOOLEAN]
      /\ c.heard = old.heard /\ c.ended = old.ended /\ c.failed = old.failed
      /\ c.settled = TRUE /\ c.audited = old.audited
  BY <1>2
<1> HIDE DEF c
<1>4. PublicationOK(c)
  BY <1>1, <1>2, <1>3 DEF PublicationOK
<1>5. IsFiniteSet(old.failed)
  BY <1>2, BusSetsAreFinite, FS_Subset
<1>6. IsFiniteSet(more) /\ Cardinality(more) = Cardinality(old.failed)
  <2>1. PICK S, T : S = old.failed /\ T = {<<p, h>> : h \in S}
    OBVIOUS
  <2>2. IsFiniteSet(S)
    BY <1>5, <2>1
  <2>3. /\ IsFiniteSet({<<p, h>> : h \in S})
        /\ Cardinality({<<p, h>> : h \in S}) = Cardinality(S)
    BY ONLY <2>2, PairsWithOne, ZenonT(60)
  <2>4. T = more
    BY <2>1
  <2>5. IsFiniteSet(T) /\ Cardinality(T) = Cardinality(S)
    BY <2>1, <2>3
  <2> QED BY <2>1, <2>4, <2>5
<1>7. /\ publication'[p] = c
      /\ \A q \in Publications \ {p} : publication'[q] = publication[q]
  BY <1>1 DEF BusInv
<1>8. Errors(publication') = Errors(publication) \cup more
      /\ Errors(publication) \cap more = {}
  <2>1. PICK f, g : f = publication /\ g = publication'
    OBVIOUS
  <2>2. more \subseteq Publications \X Subscribers
    BY <1>2
  <2>3. \A q, h : <<q, h>> \in more <=> q = p /\ h \in old.failed
    OBVIOUS
  <2> HIDE DEF more
  <2>4. ASSUME NEW q \in Publications, NEW h \in Subscribers
        PROVE  (g[q].settled /\ h \in g[q].failed) <=>
               (f[q].settled /\ h \in f[q].failed) \/ <<q, h>> \in more
    <3>1. CASE q = p
      BY <1>1, <1>3, <1>7, <2>1, <2>3, <3>1
    <3>2. CASE q # p
      BY <1>7, <2>1, <2>3, <3>2
    <3> QED BY <3>1, <3>2
  <2>5. Errors(g) = Errors(f) \cup more
    BY <2>2, <2>4, SameErrorSets
  <2>6. Errors(f) \cap more = {}
    <3>1. \A e \in Errors(f) : f[e[1]].settled
      BY DEF Errors
    <3>2. \A e \in more : e[1] = p
      BY DEF more
    <3> QED BY <1>1, <2>1, <3>1, <3>2
  <2> QED BY <2>1, <2>5, <2>6
<1> HIDE DEF more
<1>9. /\ Cardinality(Errors(publication')) = Cardinality(Errors(publication))
                                             + Cardinality(more)
      /\ Cardinality(more) \in Nat
  BY <1>6, <1>8, BusSetsAreFinite, DisjointUnion
<1>10. errorCount' \in Nat /\ errorCount' = Cardinality(Errors(publication'))
  BY <1>1, <1>6, <1>9 DEF BusInv, BusTypeOK, ErrorsCounted, Errors
<1> QED BY <1>1, <1>3, <1>4, <1>10, PublicationChanged

\* The invariant holds at the start.
LEMMA BusInitOK ==
    ASSUME BusInit
    PROVE  BusInv
<1>1. /\ handlers = [t \in EventTypes |-> {}] /\ handlerCount = 0 /\ errorCount = 0
      /\ registered = FALSE /\ publication = [p \in Publications |-> NoEvent]
  BY DEF BusInit
<1>2. Pairs(handlers) = {}
  BY <1>1 DEF Pairs
<1>3. Errors(publication) = {}
  BY <1>1, NoEventIsNone DEF Errors
<1>4. BusTypeOK
  BY <1>1, <1>2, FS_EmptySet DEF BusTypeOK, Pairs
<1>5. ErrorsCounted
  BY <1>1, <1>3, FS_EmptySet DEF ErrorsCounted, Errors
<1> QED BY <1>1, <1>4, <1>5 DEF BusInv, PublicationOK

\* Every step keeps the invariant.
LEMMA BusStep ==
    ASSUME BusInv, [BusNext]_busVars
    PROVE  BusInv'
<1>1. CASE UNCHANGED busVars
  BY <1>1 DEF busVars, BusInv, BusTypeOK, ErrorsCounted, PublicationOK
<1> QED BY <1>1, SubscriptionsOK, PublishOK, HandlerEndsOK, SettleOK DEF BusNext

\* However handlers subscribe, unsubscribe, end and throw: the counters of the
\* bus are right, and every event published while the audit consumer is
\* registered goes through it.
THEOREM EventsCorrect == Spec => []EventsAreSound
<1>1. Init => BusInv
  BY BusInitOK DEF Init
<1>2. BusInv /\ [Next]_apiVars => BusInv'
  <2>1. [Next]_apiVars => [BusNext]_busVars
    BY DEF Next, apiVars, storeVars
  <2> QED BY <2>1, BusStep
<1>3. BusInv => EventsAreSound
  <2>1. ASSUME BusInv, NEW p \in Publications, publication[p].settled,
               publication[p].audited
        PROVE  Audit \in publication[p].ended
    BY <2>1, NoEventIsNone DEF BusInv, PublicationOK
  <2> QED BY <2>1 DEF BusInv, EventsAreSound, EventsAreAudited
<1> QED BY <1>1, <1>2, <1>3, PTL DEF Spec

-----------------------------------------------------------------------------
(***************************************************************************)
(* The logos.  The key of a request that is about to record it has its     *)
(* object and is known to no other request and to no template; and the one *)
(* request of a tidy template knows its logo, or has deleted it.           *)
(***************************************************************************)
UploadStates ==
    {NoUpload} \cup [at : {"erase", "put"}, style : StyleIds]
    \cup [at : {"delete"}, style : StyleIds, old : LogoKeys \cup {Url}]
    \cup [at : {"record"}, style : StyleIds, key : LogoKeys]

LogoTypes ==
    /\ style \in [StyleIds -> LogoKeys \cup {Url, NoLogo, NoStyle}]
    /\ styleOf \in [LogoKeys -> StyleIds \cup {NoStyle}]
    /\ objects \subseteq LogoKeys
    /\ upload \in [Uploads -> UploadStates]
    /\ exported \subseteq StyleIds /\ raced \subseteq StyleIds
    /\ failing \subseteq untidy /\ untidy \subseteq StyleIds

\* Keys are made for a template, and stored then.
KeysMade ==
    /\ \A s \in StyleIds : style[s] \in LogoKeys => styleOf[style[s]] = s
    /\ \A k \in objects : styleOf[k] # NoStyle
    /\ \A u \in Uploads : upload[u].at = "delete" =>
          upload[u].old = Url \/ styleOf[upload[u].old] = upload[u].style

\* The key of a request that is about to record it.
FreshKeys ==
    \A u \in Uploads : upload[u].at = "record" =>
        LET k == upload[u].key IN
        /\ k \in objects /\ styleOf[k] = upload[u].style
        /\ \A s \in StyleIds : style[s] # k
        /\ \A v \in Uploads :
              /\ upload[v].at = "delete" => upload[v].old # k
              /\ upload[v].at = "record" /\ v # u => upload[v].key # k

Erasing ==
    \A u \in Uploads : upload[u].at = "erase" =>
        /\ upload[u].style \in untidy
        /\ upload[u].style \in exported => upload[u].style \in raced

Tidy(s) ==
    /\ \A u, v \in On(s) : u = v
    /\ \A u \in On(s) :
          /\ s \in Styles
          /\ upload[u].at = "delete" => upload[u].old = style[s]
          /\ upload[u].at \in {"put", "record"} => style[s] \notin objects

LogoInv ==
    /\ LogoTypes /\ KeysMade /\ FreshKeys /\ Erasing
    /\ LogoIsThere /\ NothingLeftBehind /\ ExportedStylesStay
    /\ \A s \in StyleIds \ untidy : Tidy(s)

\* The states of an upload.
LEMMA UploadKinds ==
    /\ NoUpload \in UploadStates /\ NoUpload.at = "idle"
    /\ \A c \in UploadStates :
          /\ c = NoUpload <=> c.at = "idle"
          /\ c.at \in {"idle", "erase", "put", "delete", "record"}
          /\ c # NoUpload => c.style \in StyleIds
          /\ c.at = "delete" => c.old \in LogoKeys \cup {Url}
          /\ c.at = "record" => c.key \in LogoKeys
BY DEF UploadStates, NoUpload

\* The uploads that work on a template.
LEMMA WhoIsOn ==
    ASSUME LogoTypes, NEW s \in StyleIds
    PROVE  \A u : u \in On(s) <=>
              u \in Uploads /\ upload[u].at # "idle" /\ upload[u].style = s
BY UploadKinds DEF LogoTypes, On

\* The same of the next state.
LEMMA WhoIsOnNext ==
    ASSUME LogoTypes', NEW s \in StyleIds
    PROVE  \A u : u \in On(s)' <=>
              u \in Uploads /\ upload'[u].at # "idle" /\ upload'[u].style = s
BY UploadKinds DEF LogoTypes, On

\* A step of one upload moves no other one.
LEMMA NextUpload ==
    ASSUME LogoTypes, NEW u \in Uploads, NEW c \in UploadStates, Goes(u, c)
    PROVE  /\ upload' \in [Uploads -> UploadStates] /\ upload'[u] = c
           /\ \A v \in Uploads \ {u} : upload'[v] = upload[v]
BY DEF LogoTypes, Goes

\* The templates there are.
LEMMA StylesAre ==
    ASSUME LogoTypes
    PROVE  /\ Styles \subseteq StyleIds
           /\ \A s \in StyleIds : s \in Styles <=> style[s] # NoStyle
           /\ \A s \in StyleIds : style[s] \in LogoKeys => s \in Styles
BY LogosAreDistinct DEF LogoTypes, Styles

\* A template comes, or has its logo replaced by a URL.
LEMMA StyleSetOK ==
    ASSUME LogoInv, NEW s \in StyleIds, NEW logo \in {NoLogo, Url},
           style' = [style EXCEPT ![s] = logo],
           \/ s \notin Styles \cup untidy /\ untidy' = untidy
           \/ untidy' = untidy \cup {s},
           UNCHANGED <<styleOf, objects, upload, exported, raced, failing>>
    PROVE  LogoInv'
<1>1. /\ style'[s] = logo /\ \A t \in StyleIds \ {s} : style'[t] = style[t]
      /\ logo \notin LogoKeys /\ logo # NoStyle /\ untidy \subseteq untidy'
  BY LogosAreDistinct DEF LogoInv, LogoTypes
<1>2. LogoTypes'
  BY DEF LogoInv, LogoTypes
<1>3. Styles' = Styles \cup {s}
  BY <1>1 DEF Styles
<1>4. On(s)' = On(s) /\ \A t : On(t)' = On(t)
  BY DEF On
<1>5. KeysMade'
  BY <1>1 DEF LogoInv, KeysMade
<1>6. FreshKeys'
  <2>1. ASSUME NEW u \in Uploads, upload[u].at = "record"
        PROVE  upload[u].key \in LogoKeys
    BY <2>1, UploadKinds DEF LogoInv, LogoTypes
  <2> QED BY <1>1, <2>1 DEF LogoInv, FreshKeys
<1>7. Erasing'
  BY <1>1 DEF LogoInv, Erasing
<1>8. LogoIsThere'
  BY <1>1, <1>3, <1>4 DEF LogoInv, LogoIsThere
<1>9. \A t \in StyleIds \ untidy' : Tidy(t)'
  <2>1. ASSUME NEW t \in StyleIds \ untidy', t # s
        PROVE  Tidy(t)'
    BY <1>1, <1>3, <1>4, <2>1 DEF LogoInv, Tidy
  <2>2. ASSUME s \notin untidy'
        PROVE  Tidy(s)'
    <3>1. Tidy(s) /\ s \notin Styles
      BY <1>1, <2>2 DEF LogoInv
    <3>2. On(s) = {}
      BY <3>1 DEF Tidy
    <3> QED BY <1>4, <3>2 DEF Tidy
  <2> QED BY <2>1, <2>2
<1>10. NothingLeftBehind'
  <2>1. ASSUME NEW k \in objects
        PROVE  \/ styleOf[k] \in untidy'
               \/ style'[styleOf[k]] = k
               \/ \E u \in On(styleOf[k])' : upload[u].at = "record" /\ upload[u].key = k
    <3>1. styleOf[k] \in StyleIds /\ k \in LogoKeys
      BY <2>1 DEF LogoInv, LogoTypes, KeysMade
    <3>2. \/ styleOf[k] \in untidy \/ style[styleOf[k]] = k
          \/ \E u \in On(styleOf[k]) : upload[u].at = "record" /\ upload[u].key = k
      BY <2>1 DEF LogoInv, NothingLeftBehind
    <3>3. CASE styleOf[k] = s /\ style[s] = k
      <4>1. s \in Styles
        BY <3>1, <3>3, LogosAreDistinct DEF Styles
      <4> QED BY <3>3, <4>1
    <3> QED BY <1>1, <1>4, <3>1, <3>2, <3>3
  <2> QED BY <2>1 DEF NothingLeftBehind
<1>11. ExportedStylesStay'
  BY <1>3 DEF LogoInv, ExportedStylesStay
<1> QED BY <1>2, <1>5, <1>6, <1>7, <1>8, <1>9, <1>10, <1>11 DEF LogoInv

\* An export job names a template.
LEMMA ExportWithOK ==
    ASSUME LogoInv, NEW s \in StyleIds, ExportWith(s)
    PROVE  LogoInv'
<1>1. /\ exported' = exported \cup {s}
      /\ raced' = IF s \notin Styles \/ \E u \in On(s) : upload[u].at = "erase"
                  THEN raced \cup {s} ELSE raced
      /\ UNCHANGED <<style, styleOf, objects, upload, failing, untidy>>
  BY DEF ExportWith
<1>2. LogoTypes'
  BY <1>1 DEF LogoInv, LogoTypes
<1>3. Styles' = Styles /\ \A t : On(t)' = On(t)
  BY <1>1 DEF Styles, On
<1>4. Erasing'
  <2>1. ASSUME NEW u \in Uploads, upload[u].at = "erase", upload[u].style \in exported'
        PROVE  upload[u].style \in raced'
    <3>1. CASE upload[u].style = s
      BY <1>1, <2>1, <3>1, WhoIsOn DEF LogoInv
    <3>2. CASE upload[u].style # s
      BY <1>1, <2>1, <3>2 DEF LogoInv, Erasing
    <3> QED BY <3>1, <3>2
  <2> QED BY <1>1, <2>1 DEF LogoInv, Erasing
<1>5. ExportedStylesStay'
  BY <1>1, <1>3 DEF LogoInv, ExportedStylesStay
<1>6. KeysMade' /\ FreshKeys' /\ LogoIsThere' /\ NothingLeftBehind'
  BY <1>1, <1>3 DEF LogoInv, KeysMade, FreshKeys, LogoIsThere, NothingLeftBehind
<1>7. \A t \in StyleIds \ untidy' : Tidy(t)'
  BY <1>1, <1>3 DEF LogoInv, Tidy
<1> QED BY <1>2, <1>4, <1>5, <1>6, <1>7 DEF LogoInv

\* A deletion, whether the jobs were counted in vain or not.
LEMMA CountJobsOK ==
    ASSUME LogoInv, NEW u \in Uploads, NEW s \in StyleIds, CountJobs(u, s)
    PROVE  LogoInv'
<1> DEFINE c == [at |-> "erase", style |-> s]
<1>1. /\ upload[u] = NoUpload /\ s \in Styles /\ s \notin exported /\ Goes(u, c)
      /\ untidy' = untidy \cup {s}
      /\ UNCHANGED <<style, styleOf, objects, exported, raced, failing>>
  BY DEF CountJobs
<1>2. c \in UploadStates /\ c.at = "erase" /\ c.style = s
  BY DEF UploadStates
<1> HIDE DEF c
<1>3. /\ upload' \in [Uploads -> UploadStates] /\ upload'[u] = c
      /\ \A v \in Uploads \ {u} : upload'[v] = upload[v]
      /\ upload[u].at = "idle"
  BY <1>1, <1>2, NextUpload, UploadKinds DEF LogoInv
<1>4. LogoTypes'
  BY <1>1, <1>3 DEF LogoInv, LogoTypes
<1>5. Styles' = Styles
  BY <1>1 DEF Styles
<1>6. \A t \in StyleIds :
         /\ On(t) \subseteq On(t)' /\ u \notin On(t)
         /\ \A v \in On(t) : upload'[v] = upload[v]
         /\ t # s => On(t)' = On(t)
  BY <1>2, <1>3, <1>4, WhoIsOn, WhoIsOnNext DEF LogoInv
<1>7. KeysMade' /\ FreshKeys'
  BY <1>1, <1>2, <1>3 DEF LogoInv, KeysMade, FreshKeys
<1>8. Erasing'
  BY <1>1, <1>2, <1>3 DEF LogoInv, Erasing
<1>9. LogoIsThere'
  BY <1>1, <1>5, <1>6, StylesAre DEF LogoInv, LogoIsThere
<1>10. NothingLeftBehind'
  <2>1. \A k \in objects : styleOf[k] \in StyleIds
    BY DEF LogoInv, LogoTypes, KeysMade
  <2> QED BY <1>1, <1>6, <2>1 DEF LogoInv, NothingLeftBehind
<1>11. ExportedStylesStay'
  BY <1>1, <1>5 DEF LogoInv, ExportedStylesStay
<1>12. \A t \in StyleIds \ untidy' : Tidy(t)'
  BY <1>1, <1>5, <1>6 DEF LogoInv, Tidy
<1> QED BY <1>4, <1>7, <1>8, <1>9, <1>10, <1>11, <1>12 DEF LogoInv

\* The last statement of DELETE removes the row.
LEMMA DeleteStyleOK ==
    ASSUME LogoInv, NEW u \in Uploads, DeleteStyle(u)
    PROVE  LogoInv'
<1>1. PICK s : s = upload[u].style
  OBVIOUS
<1>2. /\ upload[u].at = "erase" /\ style' = [style EXCEPT ![s] = NoStyle]
      /\ Goes(u, NoUpload)
      /\ UNCHANGED <<styleOf, objects, exported, raced, failing, untidy>>
  BY <1>1 DEF DeleteStyle
<1>3. s \in StyleIds /\ s \in untidy /\ (s \in exported => s \in raced)
  BY <1>1, <1>2, UploadKinds DEF LogoInv, LogoTypes, Erasing
<1>4. /\ upload' \in [Uploads -> UploadStates] /\ upload'[u].at = "idle"
      /\ \A v \in Uploads \ {u} : upload'[v] = upload[v]
  BY <1>2, NextUpload, UploadKinds DEF LogoInv
<1>5. /\ style'[s] = NoStyle /\ \A t \in StyleIds \ {s} : style'[t] = style[t]
      /\ NoStyle \notin LogoKeys
  BY <1>2, <1>3, LogosAreDistinct DEF LogoInv, LogoTypes
<1>6. LogoTypes'
  BY <1>2, <1>4 DEF LogoInv, LogoTypes
<1>7. Styles' = Styles \ {s}
  BY <1>3, <1>5 DEF Styles
<1>8. \A t \in StyleIds :
         /\ t # s => On(t)' = On(t)
         /\ On(t)' = On(t) \ {u}
         /\ \A v \in On(t)' : upload'[v] = upload[v]
  <2>1. ASSUME NEW t \in StyleIds, NEW v
        PROVE  /\ v \in On(t)' <=> v \in On(t) /\ v # u
               /\ v \in On(t)' => upload'[v] = upload[v]
               /\ u \in On(t) => t = s
    <3>1. v \in On(t) <=> v \in Uploads /\ upload[v].at # "idle" /\ upload[v].style = t
      BY WhoIsOn DEF LogoInv
    <3>2. v \in On(t)' <=> v \in Uploads /\ upload'[v].at # "idle" /\ upload'[v].style = t
      BY <1>6, WhoIsOnNext
    <3>3. u \in On(t) => upload[u].style = t
      BY WhoIsOn DEF LogoInv
    <3> QED BY <1>1, <1>4, <3>1, <3>2, <3>3
  <2> QED BY <2>1
<1>9. KeysMade' /\ FreshKeys'
  <2>1. \A v \in Uploads : upload[v].at = "record" => upload[v].key \in LogoKeys
    BY UploadKinds DEF LogoInv, LogoTypes
  <2> QED BY <1>2, <1>4, <1>5, <2>1 DEF LogoInv, KeysMade, FreshKeys
<1>10. Erasing'
  BY <1>2, <1>4 DEF LogoInv, Erasing
<1>11. LogoIsThere'
  <2>1. ASSUME NEW t \in Styles', style'[t] \in LogoKeys \ objects'
        PROVE  \/ t \in failing'
               \/ \E v \in On(t)' : upload'[v].at \in {"put", "record"}
    <3>1. t \in Styles /\ t # s /\ t \in StyleIds /\ style[t] \in LogoKeys \ objects
      BY <1>2, <1>5, <1>7, <2>1, StylesAre DEF LogoInv
    <3> QED BY <1>2, <1>8, <3>1 DEF LogoInv, LogoIsThere
  <2> QED BY <2>1 DEF LogoIsThere
<1>12. NothingLeftBehind'
  <2>1. \A k \in objects : styleOf[k] \in StyleIds
    BY DEF LogoInv, LogoTypes, KeysMade
  <2> QED BY <1>2, <1>3, <1>5, <1>8, <2>1 DEF LogoInv, NothingLeftBehind
<1>13. ExportedStylesStay'
  BY <1>2, <1>3, <1>7 DEF LogoInv, ExportedStylesStay
<1>14. \A t \in StyleIds \ untidy' : Tidy(t)'
  BY <1>2, <1>3, <1>5, <1>7, <1>8 DEF LogoInv, Tidy
<1> QED BY <1>6, <1>9, <1>10, <1>11, <1>12, <1>13, <1>14 DEF LogoInv

\* A request begins with the template's logo as it is.
LEMMA ReadStyleOK ==
    ASSUME LogoInv, NEW u \in Uploads, NEW s \in StyleIds, ReadStyle(u, s)
    PROVE  LogoInv'
<1>1. /\ upload[u] = NoUpload /\ s \in Styles
      /\ untidy' = IF On(s) = {} THEN untidy ELSE untidy \cup {s}
      /\ UNCHANGED <<style, styleOf, objects, exported, raced, failing>>
  BY DEF ReadStyle
<1>2. PICK c \in UploadStates :
        /\ Goes(u, c) /\ c.at \in {"put", "delete"} /\ c.style = s
        /\ c.at = "put" => style[s] = NoLogo
        /\ c.at = "delete" => c.old = style[s] /\ style[s] \in LogoKeys \cup {Url}
  <2>1. CASE style[s] = NoLogo
    <3>1. Goes(u, [at |-> "put", style |-> s])
      BY <2>1 DEF ReadStyle
    <3>2. [at |-> "put", style |-> s] \in UploadStates
      BY DEF UploadStates
    <3> QED BY <2>1, <3>1, <3>2
  <2>2. CASE style[s] # NoLogo
    <3>1. Goes(u, [at |-> "delete", style |-> s, old |-> style[s]])
      BY <2>2 DEF ReadStyle
    <3>2. style[s] \in LogoKeys \cup {Url}
      BY <1>1, <2>2 DEF LogoInv, LogoTypes, Styles
    <3>3. [at |-> "delete", style |-> s, old |-> style[s]] \in UploadStates
      BY <3>2 DEF UploadStates
    <3> QED BY <3>1, <3>2, <3>3
  <2> QED BY <2>1, <2>2
<1>3. /\ upload' \in [Uploads -> UploadStates] /\ upload'[u] = c
      /\ \A v \in Uploads \ {u} : upload'[v] = upload[v]
      /\ upload[u].at = "idle" /\ untidy \subseteq untidy'
  BY <1>1, <1>2, NextUpload, UploadKinds DEF LogoInv
<1>4. LogoTypes'
  BY <1>1, <1>3 DEF LogoInv, LogoTypes
<1>5. Styles' = Styles
  BY <1>1 DEF Styles
<1>6. \A t \in StyleIds :
         /\ On(t) \subseteq On(t)' /\ u \notin On(t)
         /\ \A v \in On(t) : upload'[v] = upload[v]
         /\ t # s => On(t)' = On(t)
         /\ On(t)' \subseteq On(t) \cup {u}
  <2>1. ASSUME NEW t \in StyleIds, NEW v
        PROVE  /\ v \in On(t)' <=> v \in On(t) \/ (v = u /\ t = s)
               /\ v \in On(t) => upload'[v] = upload[v] /\ v # u
    <3>1. v \in On(t) <=> v \in Uploads /\ upload[v].at # "idle" /\ upload[v].style = t
      BY WhoIsOn DEF LogoInv
    <3>2. v \in On(t)' <=> v \in Uploads /\ upload'[v].at # "idle" /\ upload'[v].style = t
      BY <1>4, WhoIsOnNext
    <3> QED BY <1>2, <1>3, <3>1, <3>2
  <2> QED BY <2>1
<1>7. KeysMade'
  BY <1>1, <1>2, <1>3, LogosAreDistinct DEF LogoInv, KeysMade
<1>8. FreshKeys'
  BY <1>1, <1>2, <1>3 DEF LogoInv, FreshKeys
<1>9. Erasing'
  BY <1>1, <1>2, <1>3 DEF LogoInv, Erasing
<1>10. LogoIsThere'
  BY <1>1, <1>5, <1>6, StylesAre DEF LogoInv, LogoIsThere
<1>11. NothingLeftBehind'
  <2>1. \A k \in objects : styleOf[k] \in StyleIds
    BY DEF LogoInv, LogoTypes, KeysMade
  <2> QED BY <1>1, <1>3, <1>6, <2>1 DEF LogoInv, NothingLeftBehind
<1>12. ExportedStylesStay'
  BY <1>1, <1>5 DEF LogoInv, ExportedStylesStay
<1>13. \A t \in StyleIds \ untidy' : Tidy(t)'
  <2>1. ASSUME NEW t \in StyleIds \ untidy', t # s
        PROVE  Tidy(t)'
    BY <1>1, <1>3, <1>5, <1>6, <2>1 DEF LogoInv, Tidy
  <2>2. ASSUME s \notin untidy'
        PROVE  Tidy(s)'
    <3>1. On(s) = {}
      BY <1>1, <2>2
    <3>2. On(s)' \subseteq {u}
      BY <1>6, <3>1
    <3>3. NoLogo \notin objects
      BY LogosAreDistinct DEF LogoInv, LogoTypes
    <3> QED BY <1>1, <1>2, <1>3, <1>5, <3>2, <3>3 DEF Tidy
  <2> QED BY <2>1, <2>2
<1> QED BY <1>4, <1>7, <1>8, <1>9, <1>10, <1>11, <1>12, <1>13 DEF LogoInv

\* The upload deletes the object of the logo before.
LEMMA DeleteOldOK ==
    ASSUME LogoInv, NEW u \in Uploads, DeleteOld(u)
    PROVE  LogoInv'
<1>1. PICK s, old : s = upload[u].style /\ old = upload[u].old
  OBVIOUS
<1> DEFINE c == [at |-> "put", style |-> s]
<1>2. /\ upload[u].at = "delete" /\ Goes(u, c)
      /\ \/ objects' = objects \ {old} /\ untidy' = untidy
         \/ untidy' = untidy \cup {s} /\ objects' = objects
      /\ UNCHANGED <<style, styleOf, exported, raced, failing>>
  BY <1>1 DEF DeleteOld
<1>3. /\ s \in StyleIds /\ old \in LogoKeys \cup {Url}
      /\ old = Url \/ styleOf[old] = s
  BY <1>1, <1>2, UploadKinds DEF LogoInv, LogoTypes, KeysMade
<1>4. c \in UploadStates /\ c.at = "put" /\ c.style = s
  BY <1>3 DEF UploadStates
<1> HIDE DEF c
<1>5. /\ upload' \in [Uploads -> UploadStates] /\ upload'[u] = c
      /\ \A v \in Uploads \ {u} : upload'[v] = upload[v]
      /\ untidy \subseteq untidy' /\ objects' \subseteq objects
  BY <1>2, <1>4, NextUpload DEF LogoInv
<1>6. LogoTypes'
  BY <1>2, <1>3, <1>5 DEF LogoInv, LogoTypes
<1>7. Styles' = Styles
  BY <1>2 DEF Styles
<1>8. \A t \in StyleIds :
         /\ On(t)' = On(t)
         /\ u \in On(t) <=> t = s
         /\ \A v \in On(t) \ {u} : upload'[v] = upload[v]
  <2>1. ASSUME NEW t \in StyleIds, NEW v
        PROVE  /\ v \in On(t)' <=> v \in On(t)
               /\ v \in On(t) \ {u} => upload'[v] = upload[v]
               /\ u \in On(t) <=> t = s
    <3>1. v \in On(t) <=> v \in Uploads /\ upload[v].at # "idle" /\ upload[v].style = t
      BY WhoIsOn DEF LogoInv
    <3>2. v \in On(t)' <=> v \in Uploads /\ upload'[v].at # "idle" /\ upload'[v].style = t
      BY <1>6, WhoIsOnNext
    <3>3. u \in On(t) <=> upload[u].at # "idle" /\ upload[u].style = t
      BY WhoIsOn DEF LogoInv
    <3> QED BY <1>1, <1>2, <1>4, <1>5, <3>1, <3>2, <3>3
  <2> QED BY <2>1
<1>9. KeysMade'
  BY <1>2, <1>4, <1>5 DEF LogoInv, KeysMade
<1>10. FreshKeys'
  <2>1. ASSUME NEW v \in Uploads, upload'[v].at = "record"
        PROVE  v # u /\ upload[v] = upload'[v] /\ upload[v].key \in objects'
    BY <1>1, <1>2, <1>4, <1>5, <2>1 DEF LogoInv, FreshKeys
  <2> QED BY <1>2, <1>4, <1>5, <2>1 DEF LogoInv, FreshKeys
<1>11. Erasing'
  BY <1>2, <1>4, <1>5 DEF LogoInv, Erasing
<1>12. LogoIsThere'
  <2>1. ASSUME NEW t \in Styles', style'[t] \in LogoKeys \ objects'
        PROVE  \/ t \in failing'
               \/ \E v \in On(t)' : upload'[v].at \in {"put", "record"}
    <3>1. t \in Styles /\ t \in StyleIds /\ style'[t] = style[t]
      BY <1>2, <1>7, StylesAre DEF LogoInv
    <3>2. CASE t = s
      BY <1>4, <1>5, <1>8, <3>1, <3>2
    <3>3. CASE t # s
      <4>1. styleOf[style[t]] = t
        BY <2>1, <3>1 DEF LogoInv, KeysMade
      <4>2. style[t] # old
        BY <1>3, <2>1, <3>1, <3>3, <4>1, LogosAreDistinct
      <4>3. style[t] \in LogoKeys \ objects
        BY <1>2, <2>1, <3>1, <4>2
      <4> QED BY <1>2, <1>8, <3>1, <3>3, <4>3 DEF LogoInv, LogoIsThere
    <3> QED BY <3>2, <3>3
  <2> QED BY <2>1 DEF LogoIsThere
<1>13. NothingLeftBehind'
  <2>1. \A k \in objects : styleOf[k] \in StyleIds
    BY DEF LogoInv, LogoTypes, KeysMade
  <2> QED BY <1>2, <1>5, <1>8, <2>1 DEF LogoInv, NothingLeftBehind
<1>14. ExportedStylesStay'
  BY <1>2, <1>7 DEF LogoInv, ExportedStylesStay
<1>15. \A t \in StyleIds \ untidy' : Tidy(t)'
  <2>1. ASSUME NEW t \in StyleIds \ untidy', t # s
        PROVE  Tidy(t)'
    BY <1>2, <1>5, <1>7, <1>8, <2>1 DEF LogoInv, Tidy
  <2>2. ASSUME s \notin untidy'
        PROVE  Tidy(s)'
    <3>1. Tidy(s) /\ objects' = objects \ {old}
      BY <1>2, <1>3, <2>2 DEF LogoInv
    <3>2. u \in On(s) /\ old = style[s] /\ On(s) = {u} /\ s \in Styles
      BY <1>1, <1>2, <1>3, <1>8, <3>1 DEF Tidy
    <3>3. style'[s] \notin objects'
      BY <1>2, <3>1, <3>2
    <3> QED BY <1>3, <1>4, <1>5, <1>7, <1>8, <3>2, <3>3 DEF Tidy
  <2> QED BY <2>1, <2>2
<1> QED BY <1>6, <1>9, <1>10, <1>11, <1>12, <1>13, <1>14, <1>15 DEF LogoInv

\* The key is new: no template, no request and no object has it.
LEMMA UploadLogoOK ==
    ASSUME LogoInv, NEW u \in Uploads, UploadLogo(u)
    PROVE  LogoInv'
<1>1. PICK s : s = upload[u].style
  OBVIOUS
<1>2. /\ upload[u].at = "put" /\ s \in StyleIds
      /\ UNCHANGED <<style, exported, raced, failing, untidy>>
  BY <1>1, UploadKinds DEF UploadLogo, LogoInv, LogoTypes
<1>3. PICK k \in LogoKeys :
        /\ styleOf[k] = NoStyle /\ styleOf' = [styleOf EXCEPT ![k] = s]
        /\ objects' = objects \cup {k}
        /\ Goes(u, [at |-> "record", style |-> s, key |-> k])
  BY <1>1 DEF UploadLogo
<1> DEFINE c == [at |-> "record", style |-> s, key |-> k]
<1>4. c \in UploadStates /\ c.at = "record" /\ c.style = s /\ c.key = k
  BY <1>2 DEF UploadStates
<1>a. Goes(u, c)
  BY <1>3
<1> HIDE DEF c
<1>5. /\ upload' \in [Uploads -> UploadStates] /\ upload'[u] = c
      /\ \A v \in Uploads \ {u} : upload'[v] = upload[v]
      /\ styleOf'[k] = s /\ \A l \in LogoKeys \ {k} : styleOf'[l] = styleOf[l]
      /\ s # NoStyle
  BY <1>2, <1>3, <1>4, <1>a, NextUpload, LogosAreDistinct DEF LogoInv, LogoTypes
<1>6. LogoTypes'
  BY <1>2, <1>3, <1>5 DEF LogoInv, LogoTypes
<1>7. Styles' = Styles
  BY <1>2 DEF Styles
<1>8. \A t \in StyleIds :
         /\ On(t)' = On(t)
         /\ u \in On(t) <=> t = s
         /\ \A v \in On(t) \ {u} : upload'[v] = upload[v]
  <2>1. ASSUME NEW t \in StyleIds, NEW v
        PROVE  /\ v \in On(t)' <=> v \in On(t)
               /\ v \in On(t) \ {u} => upload'[v] = upload[v]
               /\ u \in On(t) <=> t = s
    <3>1. v \in On(t) <=> v \in Uploads /\ upload[v].at # "idle" /\ upload[v].style = t
      BY WhoIsOn DEF LogoInv
    <3>2. v \in On(t)' <=> v \in Uploads /\ upload'[v].at # "idle" /\ upload'[v].style = t
      BY <1>6, WhoIsOnNext
    <3>3. u \in On(t) <=> upload[u].at # "idle" /\ upload[u].style = t
      BY WhoIsOn DEF LogoInv
    <3> QED BY <1>1, <1>2, <1>4, <1>5, <3>1, <3>2, <3>3
  <2> QED BY <2>1
<1>9. /\ k \notin objects
      /\ \A t \in StyleIds : style[t] # k
      /\ \A v \in Uploads : /\ upload[v].at = "delete" => upload[v].old # k
                            /\ upload[v].at = "record" => upload[v].key # k
  <2>1. k \notin objects
    BY <1>3 DEF LogoInv, KeysMade
  <2>2. ASSUME NEW t \in StyleIds PROVE style[t] # k
    BY <1>3, LogosAreDistinct DEF LogoInv, KeysMade
  <2>3. ASSUME NEW v \in Uploads, upload[v].at = "delete" PROVE upload[v].old # k
    <3>1. upload[v].style \in StyleIds
      BY <2>3, UploadKinds DEF LogoInv, LogoTypes
    <3>2. upload[v].old = Url \/ styleOf[upload[v].old] = upload[v].style
      BY <2>3 DEF LogoInv, KeysMade
    <3> QED BY <1>3, <3>1, <3>2, LogosAreDistinct
  <2>4. ASSUME NEW v \in Uploads, upload[v].at = "record" PROVE upload[v].key # k
    BY <2>1, <2>4 DEF LogoInv, FreshKeys
  <2> QED BY <2>1, <2>2, <2>3, <2>4
<1>10. KeysMade'
  <2>1. \A t \in StyleIds : style[t] \in LogoKeys => styleOf'[style[t]] = t
    BY <1>5, <1>9 DEF LogoInv, KeysMade
  <2>2. \A l \in objects' : styleOf'[l] # NoStyle
    BY <1>3, <1>5 DEF LogoInv, LogoTypes, KeysMade
  <2>3. ASSUME NEW v \in Uploads, upload'[v].at = "delete"
        PROVE  upload'[v].old = Url \/ styleOf'[upload'[v].old] = upload'[v].style
    <3>1. v # u /\ upload'[v] = upload[v]
      BY <1>4, <1>5, <2>3
    <3>2. upload[v].old \in LogoKeys \cup {Url}
      BY <2>3, <3>1, UploadKinds DEF LogoInv, LogoTypes
    <3> QED BY <1>5, <1>9, <2>3, <3>1, <3>2 DEF LogoInv, KeysMade
  <2> QED BY <1>2, <2>1, <2>2, <2>3 DEF KeysMade
<1>11. FreshKeys'
  <2>1. ASSUME NEW v \in Uploads, upload'[v].at = "record"
        PROVE  LET l == upload'[v].key IN
               /\ l \in objects' /\ styleOf'[l] = upload'[v].style
               /\ \A t \in StyleIds : style'[t] # l
               /\ \A w \in Uploads :
                     /\ upload'[w].at = "delete" => upload'[w].old # l
                     /\ upload'[w].at = "record" /\ w # v => upload'[w].key # l
    <3>1. CASE v = u
      BY <1>2, <1>3, <1>4, <1>5, <1>9, <3>1
    <3>2. CASE v # u
      <4>1. upload'[v] = upload[v] /\ upload[v].key \in LogoKeys \ {k}
        BY <1>5, <1>9, <2>1, <3>2, UploadKinds DEF LogoInv, LogoTypes
      <4>2. /\ upload[v].key \in objects
            /\ styleOf[upload[v].key] = upload[v].style
            /\ \A t \in StyleIds : style[t] # upload[v].key
            /\ \A w \in Uploads :
                  /\ upload[w].at = "delete" => upload[w].old # upload[v].key
                  /\ upload[w].at = "record" /\ w # v => upload[w].key # upload[v].key
        BY <2>1, <4>1 DEF LogoInv, FreshKeys
      <4> QED BY <1>2, <1>3, <1>4, <1>5, <4>1, <4>2
    <3> QED BY <3>1, <3>2
  <2> QED BY <2>1 DEF FreshKeys
<1>12. Erasing'
  BY <1>2, <1>4, <1>5 DEF LogoInv, Erasing
<1>13. LogoIsThere'
  <2>1. ASSUME NEW t \in Styles', style'[t] \in LogoKeys \ objects'
        PROVE  \/ t \in failing'
               \/ \E v \in On(t)' : upload'[v].at \in {"put", "record"}
    <3>1. t \in Styles /\ t \in StyleIds /\ style'[t] = style[t]
          /\ style[t] \in LogoKeys \ objects
      BY <1>2, <1>3, <1>7, <2>1, StylesAre DEF LogoInv
    <3>2. CASE t = s
      BY <1>4, <1>5, <1>8, <3>1, <3>2
    <3>3. CASE t # s
      BY <1>2, <1>8, <3>1, <3>3 DEF LogoInv, LogoIsThere
    <3> QED BY <3>2, <3>3
  <2> QED BY <2>1 DEF LogoIsThere
<1>14. NothingLeftBehind'
  <2>1. ASSUME NEW l \in objects', NEW t \in StyleIds, t = styleOf'[l]
        PROVE  \/ t \in untidy'
               \/ style'[t] = l
               \/ \E v \in On(t)' : upload'[v].at = "record" /\ upload'[v].key = l
    <3>1. CASE l = k
      BY <1>2, <1>4, <1>5, <1>8, <2>1, <3>1
    <3>2. CASE l # k
      <4>1. l \in objects /\ t = styleOf[l]
        BY <1>3, <1>5, <2>1, <3>2 DEF LogoInv, LogoTypes
      <4>2. \/ t \in untidy \/ style[t] = l
            \/ \E v \in On(t) : upload[v].at = "record" /\ upload[v].key = l
        BY <4>1 DEF LogoInv, NothingLeftBehind
      <4> QED BY <1>2, <1>8, <4>2
    <3> QED BY <3>1, <3>2
  <2>2. \A l \in objects' : styleOf'[l] \in StyleIds
    BY <1>6, <1>10 DEF LogoTypes, KeysMade
  <2> QED BY <2>1, <2>2 DEF NothingLeftBehind
<1>15. ExportedStylesStay'
  BY <1>2, <1>7 DEF LogoInv, ExportedStylesStay
<1>16. \A t \in StyleIds \ untidy' : Tidy(t)'
  <2>1. ASSUME NEW t \in StyleIds \ untidy'
        PROVE  Tidy(t)'
    <3>1. Tidy(t)
      BY <1>2, <2>1 DEF LogoInv
    <3>2. style'[t] \notin objects' <=> style[t] \notin objects
      BY <1>2, <1>3, <1>9
    <3>3. CASE t = s
      <4>1. On(s) = {u} /\ s \in Styles /\ style[s] \notin objects
        BY <1>2, <1>8, <3>1, <3>3 DEF Tidy
      <4> QED BY <1>2, <1>4, <1>5, <1>7, <1>8, <3>2, <3>3, <4>1 DEF Tidy
    <3>4. CASE t # s
      BY <1>2, <1>7, <1>8, <3>1, <3>2, <3>4 DEF Tidy
    <3> QED BY <3>3, <3>4
  <2> QED BY <2>1
<1> QED BY <1>6, <1>10, <1>11, <1>12, <1>13, <1>14, <1>15, <1>16 DEF LogoInv

\* The logo that is replaced is not stored any more, if the template is tidy.
LEMMA RecordOK ==
    ASSUME LogoInv, NEW u \in Uploads, Record(u)
    PROVE  LogoInv'
<1>1. PICK s, k : s = upload[u].style /\ k = upload[u].key
  OBVIOUS
<1>2. /\ upload[u].at = "record" /\ s \in Styles
      /\ style' = [style EXCEPT ![s] = k] /\ failing' = failing \ {s}
      /\ Goes(u, NoUpload)
      /\ UNCHANGED <<styleOf, objects, exported, raced, untidy>>
  BY <1>1 DEF Record
<1>3. s \in StyleIds /\ k \in LogoKeys
  BY <1>1, <1>2, UploadKinds DEF LogoInv, LogoTypes
<1>4. /\ k \in objects /\ styleOf[k] = s
      /\ \A t \in StyleIds : style[t] # k
      /\ \A v \in Uploads :
            /\ upload[v].at = "delete" => upload[v].old # k
            /\ upload[v].at = "record" /\ v # u => upload[v].key # k
  BY <1>1, <1>2 DEF LogoInv, FreshKeys
<1>5. /\ upload' \in [Uploads -> UploadStates] /\ upload'[u].at = "idle"
      /\ \A v \in Uploads \ {u} : upload'[v] = upload[v]
      /\ style'[s] = k /\ \A t \in StyleIds \ {s} : style'[t] = style[t]
      /\ k # NoStyle
  BY <1>2, <1>3, NextUpload, UploadKinds, LogosAreDistinct DEF LogoInv, LogoTypes
<1>6. LogoTypes'
  BY <1>2, <1>3, <1>5 DEF LogoInv, LogoTypes
<1>7. Styles' = Styles
  BY <1>2, <1>3, <1>5 DEF Styles
<1>8. \A t \in StyleIds :
         /\ On(t)' = On(t) \ {u}
         /\ \A v \in On(t)' : upload'[v] = upload[v] /\ v # u
         /\ u \in On(t) <=> t = s
  <2>1. ASSUME NEW t \in StyleIds, NEW v
        PROVE  /\ v \in On(t)' <=> v \in On(t) /\ v # u
               /\ v \in On(t)' => upload'[v] = upload[v]
               /\ u \in On(t) <=> t = s
    <3>1. v \in On(t) <=> v \in Uploads /\ upload[v].at # "idle" /\ upload[v].style = t
      BY WhoIsOn DEF LogoInv
    <3>2. v \in On(t)' <=> v \in Uploads /\ upload'[v].at # "idle" /\ upload'[v].style = t
      BY <1>6, WhoIsOnNext
    <3>3. u \in On(t) <=> upload[u].at # "idle" /\ upload[u].style = t
      BY WhoIsOn DEF LogoInv
    <3> QED BY <1>1, <1>2, <1>5, <3>1, <3>2, <3>3
  <2> QED BY <2>1
<1>9. KeysMade'
  BY <1>2, <1>4, <1>5 DEF LogoInv, KeysMade
<1>10. FreshKeys'
  <2>1. ASSUME NEW v \in Uploads, upload'[v].at = "record"
        PROVE  LET l == upload'[v].key IN
               /\ l \in objects' /\ styleOf'[l] = upload'[v].style
               /\ \A t \in StyleIds : style'[t] # l
               /\ \A w \in Uploads :
                     /\ upload'[w].at = "delete" => upload'[w].old # l
                     /\ upload'[w].at = "record" /\ w # v => upload'[w].key # l
    <3>1. v # u /\ upload'[v] = upload[v] /\ upload[v].key # k
      BY <1>4, <1>5, <2>1
    <3>2. /\ upload[v].key \in objects
          /\ styleOf[upload[v].key] = upload[v].style
          /\ \A t \in StyleIds : style[t] # upload[v].key
          /\ \A w \in Uploads :
                /\ upload[w].at = "delete" => upload[w].old # upload[v].key
                /\ upload[w].at = "record" /\ w # v => upload[w].key # upload[v].key
      BY <2>1, <3>1 DEF LogoInv, FreshKeys
    <3> QED BY <1>2, <1>5, <3>1, <3>2
  <2> QED BY <2>1 DEF FreshKeys
<1>11. Erasing'
  BY <1>2, <1>5 DEF LogoInv, Erasing
<1>12. LogoIsThere'
  <2>1. ASSUME NEW t \in Styles', style'[t] \in LogoKeys \ objects'
        PROVE  \/ t \in failing'
               \/ \E v \in On(t)' : upload'[v].at \in {"put", "record"}
    <3>1. t \in Styles /\ t \in StyleIds /\ t # s
      BY <1>2, <1>4, <1>5, <1>7, <2>1, StylesAre DEF LogoInv
    <3>2. style[t] \in LogoKeys \ objects
      BY <1>2, <1>5, <2>1, <3>1
    <3>3. t \in failing \/ \E v \in On(t) : upload[v].at \in {"put", "record"}
      BY <3>1, <3>2 DEF LogoInv, LogoIsThere
    <3> QED BY <1>2, <1>8, <3>1, <3>3
  <2> QED BY <2>1 DEF LogoIsThere
<1>13. \A t \in StyleIds \ untidy' : Tidy(t)'
  <2>1. ASSUME NEW t \in StyleIds \ untidy'
        PROVE  Tidy(t)'
    <3>1. Tidy(t)
      BY <1>2, <2>1 DEF LogoInv
    <3>2. CASE t = s
      <4>1. On(s)' = {}
        BY <1>8, <3>1, <3>2 DEF Tidy
      <4> QED BY <3>2, <4>1 DEF Tidy
    <3>3. CASE t # s
      BY <1>2, <1>5, <1>7, <1>8, <3>1, <3>3 DEF Tidy
    <3> QED BY <3>2, <3>3
  <2> QED BY <2>1
<1>14. NothingLeftBehind'
  <2>1. ASSUME NEW l \in objects', NEW t \in StyleIds, t = styleOf'[l]
        PROVE  \/ t \in untidy'
               \/ style'[t] = l
               \/ \E v \in On(t)' : upload'[v].at = "record" /\ upload'[v].key = l
    <3>1. /\ l \in objects /\ t = styleOf[l]
          /\ \/ t \in untidy \/ style[t] = l
             \/ \E v \in On(t) : upload[v].at = "record" /\ upload[v].key = l
      BY <1>2, <2>1 DEF LogoInv, NothingLeftBehind
    <3>2. CASE t = s /\ t \notin untidy
      <4>1. Tidy(s)
        BY <1>3, <3>2 DEF LogoInv
      <4>2. On(s) = {u} /\ style[s] \notin objects
        BY <1>2, <1>3, <1>8, <4>1 DEF Tidy
      <4>3. l = k
        BY <1>1, <3>1, <3>2, <4>2
      <4> QED BY <1>5, <3>2, <4>3
    <3>3. CASE t # s
      BY <1>2, <1>5, <1>8, <3>1, <3>3
    <3> QED BY <1>2, <3>2, <3>3
  <2>2. \A l \in objects' : styleOf'[l] \in StyleIds
    BY <1>6, <1>9 DEF LogoTypes, KeysMade
  <2> QED BY <2>1, <2>2 DEF NothingLeftBehind
<1>15. ExportedStylesStay'
  BY <1>2, <1>7 DEF LogoInv, ExportedStylesStay
<1> QED BY <1>6, <1>9, <1>10, <1>11, <1>12, <1>13, <1>14, <1>15 DEF LogoInv

\* An upload is given up where it is.
LEMMA UploadFailsOK ==
    ASSUME LogoInv, NEW u \in Uploads, UploadFails(u)
    PROVE  LogoInv'
<1>1. PICK s : s = upload[u].style
  OBVIOUS
<1>2. /\ upload[u] # NoUpload /\ failing' = failing \cup {s}
      /\ untidy' = untidy \cup {s} /\ Goes(u, NoUpload)
      /\ UNCHANGED <<style, styleOf, objects, exported, raced>>
  BY <1>1 DEF UploadFails
<1>3. s \in StyleIds
  BY <1>1, <1>2, UploadKinds DEF LogoInv, LogoTypes
<1>4. /\ upload' \in [Uploads -> UploadStates] /\ upload'[u].at = "idle"
      /\ \A v \in Uploads \ {u} : upload'[v] = upload[v]
  BY <1>2, NextUpload, UploadKinds DEF LogoInv
<1>5. LogoTypes'
  BY <1>2, <1>3, <1>4 DEF LogoInv, LogoTypes
<1>6. Styles' = Styles
  BY <1>2 DEF Styles
<1>7. \A t \in StyleIds :
         /\ On(t)' = On(t) \ {u}
         /\ \A v \in On(t)' : upload'[v] = upload[v] /\ v # u
         /\ u \in On(t) => t = s
  <2>1. ASSUME NEW t \in StyleIds, NEW v
        PROVE  /\ v \in On(t)' <=> v \in On(t) /\ v # u
               /\ v \in On(t)' => upload'[v] = upload[v]
               /\ u \in On(t) => t = s
    <3>1. v \in On(t) <=> v \in Uploads /\ upload[v].at # "idle" /\ upload[v].style = t
      BY WhoIsOn DEF LogoInv
    <3>2. v \in On(t)' <=> v \in Uploads /\ upload'[v].at # "idle" /\ upload'[v].style = t
      BY <1>5, WhoIsOnNext
    <3>3. u \in On(t) => upload[u].style = t
      BY WhoIsOn DEF LogoInv
    <3> QED BY <1>1, <1>4, <3>1, <3>2, <3>3
  <2> QED BY <2>1
<1>8. KeysMade'
  BY <1>2, <1>4 DEF LogoInv, KeysMade
<1>9. FreshKeys'
  BY <1>2, <1>4 DEF LogoInv, FreshKeys
<1>10. Erasing'
  BY <1>2, <1>4 DEF LogoInv, Erasing
<1>11. LogoIsThere'
  <2>1. ASSUME NEW t \in Styles', style'[t] \in LogoKeys \ objects', t # s
        PROVE  \/ t \in failing'
               \/ \E v \in On(t)' : upload'[v].at \in {"put", "record"}
    <3>1. t \in Styles /\ t \in StyleIds /\ style[t] \in LogoKeys \ objects
      BY <1>2, <1>6, <2>1, StylesAre DEF LogoInv
    <3>2. t \in failing \/ \E v \in On(t) : upload[v].at \in {"put", "record"}
      BY <3>1 DEF LogoInv, LogoIsThere
    <3> QED BY <1>2, <1>7, <2>1, <3>1, <3>2
  <2> QED BY <1>2, <2>1 DEF LogoIsThere
<1>12. \A t \in StyleIds \ untidy' : Tidy(t)'
  BY <1>2, <1>4, <1>6, <1>7 DEF LogoInv, Tidy
<1>13. NothingLeftBehind'
  <2>1. ASSUME NEW l \in objects', NEW t \in StyleIds, t = styleOf'[l]
        PROVE  \/ t \in untidy'
               \/ style'[t] = l
               \/ \E v \in On(t)' : upload'[v].at = "record" /\ upload'[v].key = l
    <3>1. /\ t = styleOf[l]
          /\ \/ t \in untidy \/ style[t] = l
             \/ \E v \in On(t) : upload[v].at = "record" /\ upload[v].key = l
      BY <1>2, <2>1 DEF LogoInv, NothingLeftBehind
    <3> QED BY <1>2, <1>7, <3>1
  <2>2. \A l \in objects' : styleOf'[l] \in StyleIds
    BY <1>5, <1>8 DEF LogoTypes, KeysMade
  <2> QED BY <2>1, <2>2 DEF NothingLeftBehind
<1>14. ExportedStylesStay'
  BY <1>2, <1>6 DEF LogoInv, ExportedStylesStay
<1> QED BY <1>5, <1>8, <1>9, <1>10, <1>11, <1>12, <1>13, <1>14 DEF LogoInv

\* The invariant holds at the start.
LEMMA LogoInitOK ==
    ASSUME LogoInit
    PROVE  LogoInv
<1>1. /\ style = [s \in StyleIds |-> NoStyle] /\ styleOf = [k \in LogoKeys |-> NoStyle]
      /\ objects = {} /\ upload = [u \in Uploads |-> NoUpload]
      /\ exported = {} /\ raced = {} /\ failing = {} /\ untidy = {}
  BY DEF LogoInit
<1>2. LogoTypes
  BY <1>1, UploadKinds DEF LogoTypes
<1>3. Styles = {} /\ \A s : On(s) = {}
  BY <1>1 DEF Styles, On
<1>4. \A u \in Uploads : upload[u].at = "idle"
  BY <1>1, UploadKinds
<1>5. KeysMade /\ FreshKeys /\ Erasing
  BY <1>1, <1>4, LogosAreDistinct DEF KeysMade, FreshKeys, Erasing
<1>6. LogoIsThere /\ NothingLeftBehind /\ ExportedStylesStay
  BY <1>1, <1>3 DEF LogoIsThere, NothingLeftBehind, ExportedStylesStay
<1>7. \A s \in StyleIds \ untidy : Tidy(s)
  BY <1>3 DEF Tidy
<1> QED BY <1>2, <1>5, <1>6, <1>7 DEF LogoInv

\* Every step keeps the invariant.
LEMMA LogoStep ==
    ASSUME LogoInv, [LogoNext]_logoVars
    PROVE  LogoInv'
<1>1. CASE UNCHANGED logoVars
  BY <1>1 DEF logoVars, LogoInv, LogoTypes, KeysMade, FreshKeys, Erasing, LogoIsThere,
              NothingLeftBehind, ExportedStylesStay, Tidy, On, Styles
<1>2. ASSUME NEW s \in StyleIds, CreateStyle(s)
      PROVE  LogoInv'
  <2>1. PICK logo \in {NoLogo, Url} : style' = [style EXCEPT ![s] = logo]
    BY <1>2 DEF CreateStyle
  <2> QED BY <1>2, <2>1, StyleSetOK DEF CreateStyle
<1>3. ASSUME NEW s \in StyleIds, UpdateStyle(s)
      PROVE  LogoInv'
  BY <1>3, StyleSetOK DEF UpdateStyle
<1> QED BY <1>1, <1>2, <1>3, ExportWithOK, CountJobsOK, ReadStyleOK, DeleteStyleOK,
           DeleteOldOK, UploadLogoOK, RecordOK, UploadFailsOK DEF LogoNext

\* Uploads, deletions and exports interleave as they may: a template's logo has
\* its object unless an upload is about to replace it or has failed, tidy
\* uploads leave no object behind, and templates that jobs name stay.
THEOREM LogosCorrect == Spec => []LogosAreSound
<1>1. Init => LogoInv
  BY LogoInitOK DEF Init
<1>2. LogoInv /\ [Next]_apiVars => LogoInv'
  <2>1. [Next]_apiVars => [LogoNext]_logoVars
    BY DEF Next, apiVars, storeVars
  <2> QED BY <2>1, LogoStep
<1>3. ASSUME LogoInv PROVE LogoTypeOK
  <2>1. ASSUME NEW s \in Styles
        PROVE  style[s] \in {NoLogo, Url} \cup {k \in LogoKeys : styleOf[k] = s}
    BY <1>3, <2>1 DEF LogoInv, LogoTypes, KeysMade, Styles
  <2> QED BY <1>3, <2>1, UploadKinds DEF LogoInv, LogoTypes, KeysMade, LogoTypeOK
<1>4. LogoInv => LogosAreSound
  BY <1>3 DEF LogoInv, LogosAreSound
<1> QED BY <1>1, <1>2, <1>4, PTL DEF Spec

-----------------------------------------------------------------------------
(***************************************************************************)
(* The imports.                                                            *)
(***************************************************************************)

TemplateRows ==
    Titles \X (Importers \cup {Hand}) \X Nat \X SUBSET (Titles \X Clauses)
Transactions ==
    [at : {"import"}, file : Files, clauses : SUBSET Clauses,
     titleToId : UNION {[known -> Clauses] : known \in SUBSET Titles},
     next : Nat, templates : SUBSET TemplateRows]

\* What j has made so far, r, beside the clauses cs that are committed: its
\* rows are j's, what they refer to is there or will be with them, and no two
\* templates have one title.
TransactionOK(j, r, cs) ==
    /\ r \in Transactions
    /\ r.next \in 1 .. Len(r.file.templates) + 1
    /\ \A c \in r.clauses : c[2] = j
    /\ \A t \in DOMAIN r.titleToId :
          r.titleToId[t] \in cs \cup r.clauses /\ r.titleToId[t][1] = t
    /\ \A t \in r.templates :
          /\ t[2] = j
          /\ \A slot \in t[4] : slot[2] \in cs \cup r.clauses /\ slot[2][1] = slot[1]
    /\ \A a, b \in r.templates : a[1] = b[1] => a = b

\* Two imports that are under way overlap.
OverlapsKnown ==
    \A i, j \in Importers :
        UnderWay(i) /\ UnderWay(j) /\ i # j =>
            <<i, j>> \in overlap \/ <<j, i>> \in overlap

\* What an import is about to commit has a title that is there only for a
\* reason.
ComingExplained ==
    \A j \in Importers : UnderWay(j) =>
        /\ \A a \in import[j].clauses, b \in clauses : a[1] = b[1] => Explained(a, b)
        /\ \A a \in import[j].templates, b \in templates :
              a[1] = b[1] => Explained(a, b)

ImportTypes ==
    /\ clauses \subseteq Clauses /\ templates \subseteq TemplateRows
    /\ import \in [Importers -> {NotBegun, Over} \cup Transactions]

ImportInv ==
    /\ ImportTypes
    /\ \A j \in Importers : UnderWay(j) => TransactionOK(j, import[j], clauses)
    /\ OverlapsKnown /\ ComingExplained
    /\ SlotsResolve /\ ImportedOnce

\* An import is under way exactly when it has a transaction.
LEMMA TransactionStates ==
    ASSUME import \in [Importers -> {NotBegun, Over} \cup Transactions],
           NEW j \in Importers
    PROVE  /\ UnderWay(j) <=> import[j] \in Transactions
           /\ NotBegun.at # "import" /\ Over.at # "import"
           /\ \A r \in Transactions : r.at = "import"
BY DEF UnderWay, NotBegun, Over, Transactions

\* What a transaction relies on stays true as clauses come.
LEMMA MoreIsThere ==
    ASSUME NEW j, NEW r, NEW cs, NEW ds, cs \subseteq ds, TransactionOK(j, r, cs)
    PROVE  TransactionOK(j, r, ds)
BY DEF TransactionOK

\* A repeated title is explained by either of its two.
LEMMA ExplainedEitherWay == \A a, b : Explained(a, b) <=> Explained(b, a)
BY DEF Explained

\* Type of the file an import reads.
LEMMA FileOfTransaction ==
    ASSUME NEW r \in Transactions
    PROVE  /\ r.file \in Files
           /\ r.file.templates \in Seq([title : Titles, slots : SUBSET Titles])
           /\ Len(r.file.templates) \in Nat
<1>1. PICK file : file = r.file
  OBVIOUS
<1>2. file \in Files
  BY <1>1 DEF Transactions
<1>3. file.templates \in Seq([title : Titles, slots : SUBSET Titles])
  BY <1>2, FilesAreImports
<1> QED BY <1>1, <1>2, <1>3

\* What a hand creates has no title that another row may not have.
LEMMA CreateClauseOK ==
    ASSUME ImportInv, NEW t \in Titles, CreateClause(t)
    PROVE  ImportInv'
<1>1. PICK h : h = <<t, Hand, 1>>
  OBVIOUS
<1>2. /\ clauses' = clauses \cup {h} /\ h \in Clauses /\ h[2] = Hand
      /\ UNCHANGED <<templates, import, overlap>>
  BY <1>1 DEF CreateClause, Clauses, Positions
<1>3. ImportTypes'
  BY <1>2 DEF ImportInv, ImportTypes
<1>4. ASSUME NEW j \in Importers, UnderWay(j)'
      PROVE  TransactionOK(j, import[j], clauses)'
  <2>1. UnderWay(j) /\ import'[j] = import[j]
    BY <1>2, <1>4 DEF UnderWay
  <2>2. TransactionOK(j, import[j], clauses)
    BY <2>1 DEF ImportInv
  <2> QED BY <1>2, <2>1, <2>2, MoreIsThere
<1>5. OverlapsKnown'
  BY <1>2 DEF ImportInv, OverlapsKnown, UnderWay
<1>6. \A a, b : b = h => Explained(a, b)' /\ Explained(b, a)'
  BY <1>2 DEF Explained
<1>7. \A a, b : Explained(a, b) => Explained(a, b)'
  BY <1>2 DEF Explained
<1>8. ComingExplained'
  BY <1>2, <1>6, <1>7 DEF ImportInv, ComingExplained, UnderWay
<1>9. SlotsResolve'
  BY <1>2 DEF ImportInv, SlotsResolve
<1>10. ImportedOnce'
  BY <1>2, <1>6, <1>7 DEF ImportInv, ImportedOnce
<1> QED BY <1>3, <1>4, <1>5, <1>8, <1>9, <1>10 DEF ImportInv

\* An editor creates a template.
LEMMA CreateTemplateOK ==
    ASSUME ImportInv, NEW t \in Titles, CreateTemplate(t)
    PROVE  ImportInv'
<1>1. PICK h : h = <<t, Hand, 1, {}>>
  OBVIOUS
<1>2. /\ templates' = templates \cup {h} /\ h \in TemplateRows /\ h[2] = Hand
      /\ h[4] = {}
      /\ UNCHANGED <<clauses, import, overlap>>
  BY <1>1 DEF CreateTemplate, TemplateRows
<1>3. ImportTypes'
  BY <1>2 DEF ImportInv, ImportTypes
<1>4. ASSUME NEW j \in Importers, UnderWay(j)'
      PROVE  TransactionOK(j, import[j], clauses)'
  <2>1. UnderWay(j) /\ import'[j] = import[j]
    BY <1>2, <1>4 DEF UnderWay
  <2>2. TransactionOK(j, import[j], clauses)
    BY <2>1 DEF ImportInv
  <2> QED BY <1>2, <2>1, <2>2, MoreIsThere
<1>5. OverlapsKnown'
  BY <1>2 DEF ImportInv, OverlapsKnown, UnderWay
<1>6. \A a, b : b = h => Explained(a, b)' /\ Explained(b, a)'
  BY <1>2 DEF Explained
<1>7. \A a, b : Explained(a, b) => Explained(a, b)'
  BY <1>2 DEF Explained
<1>8. ComingExplained'
  BY <1>2, <1>6, <1>7 DEF ImportInv, ComingExplained, UnderWay
<1>9. SlotsResolve'
  BY <1>2 DEF ImportInv, SlotsResolve
<1>10. ImportedOnce'
  BY <1>2, <1>6, <1>7 DEF ImportInv, ImportedOnce
<1> QED BY <1>3, <1>4, <1>5, <1>8, <1>9, <1>10 DEF ImportInv

\* Clauses with titles that are there are skipped, so that what is created
\* has none of them; those who are under way now overlap with j.
LEMMA ImportClausesOK ==
    ASSUME ImportInv, NEW j \in Importers, NEW file \in Files, ImportClauses(j, file)
    PROVE  ImportInv'
<1>1. PICK created : created = ToCreate(j, file)
  OBVIOUS
<1>2. PICK known : known = TitlesIn(clauses \cup created)
  OBVIOUS
<1>3. PICK titleToId \in [known -> clauses \cup created] :
        /\ import[j] = NotBegun
        /\ \A t \in known : titleToId[t] \in Candidates(created, t)
        /\ import' = [import EXCEPT ![j] =
              [at |-> "import", file |-> file, clauses |-> created,
               titleToId |-> titleToId, next |-> 1, templates |-> {}]]
        /\ overlap' = overlap \cup {<<i, j>> : i \in {i \in Importers : UnderWay(i)}}
        /\ UNCHANGED <<clauses, templates>>
  BY <1>1, <1>2 DEF ImportClauses
<1>4. PICK r : r = [at |-> "import", file |-> file, clauses |-> created,
                    titleToId |-> titleToId, next |-> 1, templates |-> {}]
  OBVIOUS
<1>5. /\ r.at = "import" /\ r.file = file /\ r.clauses = created
      /\ r.titleToId = titleToId /\ r.next = 1 /\ r.templates = {}
  BY <1>4
<1>6. /\ \A c \in created : c \in Clauses /\ c[2] = j
      /\ \A c \in created, d \in clauses : c[1] # d[1]
  <2>1. file.clauses \in Seq(Titles) /\ Len(file.clauses) <= 3
    BY FilesAreImports
  <2>2. \A n \in DOMAIN file.clauses : file.clauses[n] \in Titles /\ n \in Positions
    BY <2>1 DEF Positions
  <2>3. ASSUME NEW c \in created
        PROVE  c \in Clauses /\ c[2] = j /\ \A d \in clauses : c[1] # d[1]
    <3>1. PICK n \in DOMAIN file.clauses :
             c = <<file.clauses[n], j, n>> /\ file.clauses[n] \notin TitlesIn(clauses)
      BY <1>1 DEF ToCreate
    <3> QED BY <2>2, <3>1 DEF TitlesIn, Clauses
  <2> QED BY <2>3
<1>7. \A t \in known : titleToId[t] \in clauses \cup created /\ titleToId[t][1] = t
  BY <1>3 DEF Candidates
<1>8. r \in Transactions
  <2>1. clauses \cup created \subseteq Clauses
    BY <1>6 DEF ImportInv, ImportTypes
  <2>2. known \in SUBSET Titles
    BY <1>2, <2>1 DEF TitlesIn, Clauses
  <2>3. titleToId \in [known -> Clauses]
    BY <1>3, <2>1
  <2>4. titleToId \in UNION {[ks -> Clauses] : ks \in SUBSET Titles}
    BY <2>2, <2>3
  <2> QED BY <1>4, <2>1, <2>4 DEF Transactions
<1>9. TransactionOK(j, r, clauses)
  <2>1. Len(r.file.templates) \in Nat
    BY <1>8, FileOfTransaction
  <2>2. DOMAIN r.titleToId = known
    BY <1>3, <1>5
  <2> QED BY <1>5, <1>6, <1>7, <1>8, <2>1, <2>2 DEF TransactionOK
<1>10. import'[j] = r /\ \A i \in Importers \ {j} : import'[i] = import[i]
  BY <1>3, <1>4 DEF ImportInv, ImportTypes
<1>11. ImportTypes'
  <2>1. import' = [import EXCEPT ![j] = r]
    BY <1>3, <1>4
  <2> QED BY <1>3, <1>8, <2>1 DEF ImportInv, ImportTypes
<1>12. ASSUME NEW i \in Importers, UnderWay(i)'
       PROVE  TransactionOK(i, import[i], clauses)'
  BY <1>3, <1>9, <1>10, <1>12 DEF ImportInv, UnderWay
<1>13. \A i \in Importers : UnderWay(i) => <<i, j>> \in overlap'
  BY <1>3
<1>14. \A a, b : Explained(a, b) => Explained(a, b)'
  BY <1>3 DEF Explained
<1>15. OverlapsKnown'
  BY <1>3, <1>10, <1>13 DEF ImportInv, OverlapsKnown, UnderWay
<1>16. ComingExplained'
  <2>1. ASSUME NEW i \in Importers, UnderWay(i)'
        PROVE  /\ \A a \in import'[i].clauses, b \in clauses' :
                     a[1] = b[1] => Explained(a, b)'
               /\ \A a \in import'[i].templates, b \in templates' :
                     a[1] = b[1] => Explained(a, b)'
    <3>1. CASE i = j
      BY <1>3, <1>5, <1>6, <1>10, <3>1
    <3>2. CASE i # j
      <4>1. UnderWay(i) /\ import'[i] = import[i]
        BY <1>10, <2>1, <3>2 DEF UnderWay
      <4> QED BY <1>3, <1>14, <4>1 DEF ImportInv, ComingExplained
    <3> QED BY <3>1, <3>2
  <2> QED BY <2>1 DEF ComingExplained
<1>17. SlotsResolve' /\ ImportedOnce'
  BY <1>3, <1>14 DEF ImportInv, SlotsResolve, ImportedOnce
<1> QED BY <1>11, <1>12, <1>15, <1>16, <1>17 DEF ImportInv

\* What j does to its own transaction alone, if it stays in order.
LEMMA OwnTransaction ==
    ASSUME ImportInv, NEW j \in Importers, UnderWay(j), NEW r,
           TransactionOK(j, r, clauses), r.clauses = import[j].clauses,
           \A a \in r.templates, b \in templates : a[1] = b[1] => Explained(a, b),
           import' = [import EXCEPT ![j] = r],
           UNCHANGED <<clauses, templates, overlap>>
    PROVE  ImportInv'
<1>1. import'[j] = r /\ \A i \in Importers \ {j} : import'[i] = import[i]
  BY DEF ImportInv, ImportTypes
<1>2. ImportTypes'
  BY DEF ImportInv, ImportTypes, TransactionOK
<1>3. \A i \in Importers : UnderWay(i)' => UnderWay(i)
  BY <1>1 DEF UnderWay
<1>4. \A a, b : Explained(a, b) => Explained(a, b)'
  BY DEF Explained
<1>5. ASSUME NEW i \in Importers, UnderWay(i)'
      PROVE  TransactionOK(i, import[i], clauses)'
  BY <1>1, <1>3, <1>5 DEF ImportInv
<1>6. OverlapsKnown'
  BY <1>3 DEF ImportInv, OverlapsKnown
<1>7. ComingExplained'
  <2>1. ASSUME NEW i \in Importers, UnderWay(i)'
        PROVE  /\ \A a \in import'[i].clauses, b \in clauses' :
                     a[1] = b[1] => Explained(a, b)'
               /\ \A a \in import'[i].templates, b \in templates' :
                     a[1] = b[1] => Explained(a, b)'
    <3>1. /\ \A a \in import[i].clauses, b \in clauses : a[1] = b[1] => Explained(a, b)
          /\ \A a \in import[i].templates, b \in templates :
                a[1] = b[1] => Explained(a, b)
      BY <1>3, <2>1 DEF ImportInv, ComingExplained
    <3>2. CASE i = j
      BY <1>1, <1>4, <3>1, <3>2
    <3>3. CASE i # j
      BY <1>1, <1>4, <3>1, <3>3
    <3> QED BY <3>2, <3>3
  <2> QED BY <2>1 DEF ComingExplained
<1>8. SlotsResolve' /\ ImportedOnce'
  BY <1>4 DEF ImportInv, SlotsResolve, ImportedOnce
<1> QED BY <1>2, <1>5, <1>6, <1>7, <1>8 DEF ImportInv

\* An import writes its next template.
LEMMA ImportTemplateOK ==
    ASSUME ImportInv, NEW j \in Importers, ImportTemplate(j)
    PROVE  ImportInv'
<1>1. PICK o : o = import[j]
  OBVIOUS
<1>2. PICK template : template = o.file.templates[o.next]
  OBVIOUS
<1>3. /\ UnderWay(j) /\ o.next <= Len(o.file.templates)
      /\ UNCHANGED <<clauses, templates, overlap>>
  BY <1>1 DEF ImportTemplate
<1>4. TransactionOK(j, o, clauses) /\ o \in Transactions
  BY <1>1, <1>3 DEF ImportInv, TransactionOK
<1>5. /\ o.next \in Nat /\ o.next >= 1 /\ Len(o.file.templates) \in Nat
      /\ template \in [title : Titles, slots : SUBSET Titles]
  <2>1. PICK ts \in Seq([title : Titles, slots : SUBSET Titles]) :
           ts = o.file.templates
    BY <1>4, FileOfTransaction
  <2>2. o.next \in 1 .. Len(ts) + 1 /\ Len(ts) \in Nat /\ o.next <= Len(ts)
    BY <1>3, <1>4, <2>1 DEF TransactionOK
  <2>3. o.next \in 1 .. Len(ts)
    BY <2>2
  <2>4. ts[o.next] \in [title : Titles, slots : SUBSET Titles]
    BY <2>1, <2>3, ElementOfSeq
  <2> QED BY <1>2, <2>1, <2>2, <2>4
<1>6. \A a \in o.templates, b \in templates : a[1] = b[1] => Explained(a, b)
  BY <1>1, <1>3 DEF ImportInv, ComingExplained
<1>7. CASE import' = [import EXCEPT ![j].next = @ + 1]
  <2>1. PICK r : r = [o EXCEPT !.next = o.next + 1]
    OBVIOUS
  <2>2. /\ r \in Transactions /\ r.next = o.next + 1 /\ r.file = o.file
        /\ r.clauses = o.clauses /\ r.titleToId = o.titleToId
        /\ r.templates = o.templates
    BY <1>4, <1>5, <2>1 DEF Transactions
  <2>3. TransactionOK(j, r, clauses)
    BY <1>3, <1>4, <1>5, <2>2 DEF TransactionOK
  <2>4. import' = [import EXCEPT ![j] = r]
    BY <1>1, <1>7, <2>1 DEF ImportInv, ImportTypes
  <2> QED BY <1>1, <1>3, <1>6, <2>2, <2>3, <2>4, OwnTransaction
<1>8. CASE /\ template.title \notin TitlesIn(templates \cup o.templates)
           /\ template.slots \subseteq DOMAIN o.titleToId
           /\ import' = [import EXCEPT ![j].next = @ + 1, ![j].templates = @ \cup
                {<<template.title, j, o.next, Resolved(j, template)>>}]
  <2>1. PICK made : made = <<template.title, j, o.next, Resolved(j, template)>>
    OBVIOUS
  <2>2. PICK r : r = [o EXCEPT !.next = o.next + 1,
                               !.templates = o.templates \cup {made}]
    OBVIOUS
  <2>3. \A slot \in Resolved(j, template) :
           /\ slot \in Titles \X Clauses
           /\ slot[2] \in clauses \cup o.clauses /\ slot[2][1] = slot[1]
    <3>1. ASSUME NEW slot \in Resolved(j, template)
          PROVE  /\ slot \in Titles \X Clauses
                 /\ slot[2] \in clauses \cup o.clauses /\ slot[2][1] = slot[1]
      <4>1. PICK t \in template.slots : slot = <<t, o.titleToId[t]>>
        BY <1>1 DEF Resolved
      <4>2. t \in Titles /\ o.titleToId[t] \in clauses \cup o.clauses
            /\ o.titleToId[t][1] = t
        BY <1>4, <1>5, <1>8 DEF TransactionOK
      <4>3. clauses \cup o.clauses \subseteq Clauses
        BY <1>4 DEF ImportInv, ImportTypes, Transactions
      <4> QED BY <4>1, <4>2, <4>3
    <3> QED BY <3>1
  <2>4. /\ made \in TemplateRows /\ made[1] = template.title /\ made[2] = j
        /\ made[4] = Resolved(j, template)
    BY <1>5, <2>1, <2>3 DEF TemplateRows
  <2>5. /\ r \in Transactions /\ r.next = o.next + 1 /\ r.file = o.file
        /\ r.clauses = o.clauses /\ r.titleToId = o.titleToId
        /\ r.templates = o.templates \cup {made}
    <3>1. o.next + 1 \in Nat /\ o.templates \cup {made} \in SUBSET TemplateRows
      BY <1>4, <1>5, <2>4 DEF Transactions
    <3> QED BY <1>4, <2>2, <3>1 DEF Transactions
  <2>6. \A a \in templates \cup o.templates : a[1] # made[1]
    BY <1>8, <2>4 DEF TitlesIn
  <2>7. TransactionOK(j, r, clauses)
    BY <1>3, <1>4, <1>5, <2>3, <2>4, <2>5, <2>6 DEF TransactionOK
  <2>8. import' = [import EXCEPT ![j] = r]
    BY <1>1, <1>8, <2>1, <2>2 DEF ImportInv, ImportTypes
  <2>9. \A a \in r.templates, b \in templates : a[1] = b[1] => Explained(a, b)
    BY <1>6, <2>5, <2>6
  <2> QED BY <1>1, <1>3, <2>5, <2>7, <2>8, <2>9, OwnTransaction
<1> QED BY <1>1, <1>2, <1>7, <1>8 DEF ImportTemplate

\* What is committed is explained to the committed by the invariant, and to
\* those who are still under way by their overlap.
LEMMA CommitOK ==
    ASSUME ImportInv, NEW j \in Importers, Commit(j)
    PROVE  ImportInv'
<1>1. PICK o : o = import[j]
  OBVIOUS
<1>2. /\ UnderWay(j) /\ clauses' = clauses \cup o.clauses
      /\ templates' = templates \cup o.templates
      /\ import' = [import EXCEPT ![j] = Over] /\ overlap' = overlap
  BY <1>1 DEF Commit
<1>3. TransactionOK(j, o, clauses) /\ o \in Transactions
  BY <1>1, <1>2 DEF ImportInv, TransactionOK
<1>4. import'[j] = Over /\ \A i \in Importers \ {j} : import'[i] = import[i]
  BY <1>2 DEF ImportInv, ImportTypes
<1>5. ImportTypes'
  BY <1>2, <1>3 DEF ImportInv, ImportTypes, Transactions
<1>6. \A i \in Importers : UnderWay(i)' => UnderWay(i) /\ i # j
  BY <1>4 DEF UnderWay, Over
<1>7. \A a, b : Explained(a, b) <=> Explained(a, b)'
  BY <1>2 DEF Explained
<1>8. ASSUME NEW i \in Importers, UnderWay(i)'
      PROVE  TransactionOK(i, import[i], clauses)'
  <2>1. TransactionOK(i, import[i], clauses) /\ import'[i] = import[i]
    BY <1>4, <1>6, <1>8 DEF ImportInv
  <2>2. TransactionOK(i, import[i], clauses')
    BY <1>2, <2>1, MoreIsThere
  <2> QED BY <2>1, <2>2
<1>9. OverlapsKnown'
  BY <1>2, <1>6 DEF ImportInv, OverlapsKnown
<1>10. ComingExplained'
  <2>1. ASSUME NEW i \in Importers, UnderWay(i)'
        PROVE  /\ \A a \in import'[i].clauses, b \in clauses' :
                     a[1] = b[1] => Explained(a, b)
               /\ \A a \in import'[i].templates, b \in templates' :
                     a[1] = b[1] => Explained(a, b)
    <3>1. UnderWay(i) /\ i # j /\ import'[i] = import[i]
      BY <1>4, <1>6, <2>1
    <3>2. <<i, j>> \in overlap \/ <<j, i>> \in overlap
      BY <1>2, <3>1 DEF ImportInv, OverlapsKnown
    <3>3. /\ \A a \in import[i].clauses : a[2] = i
          /\ \A a \in import[i].templates : a[2] = i
          /\ \A b \in o.clauses : b[2] = j
          /\ \A b \in o.templates : b[2] = j
      BY <1>3, <3>1 DEF ImportInv, TransactionOK
    <3>4. /\ \A a \in import[i].clauses, b \in o.clauses : Explained(a, b)
          /\ \A a \in import[i].templates, b \in o.templates : Explained(a, b)
      BY <3>2, <3>3 DEF Explained
    <3> QED BY <1>2, <3>1, <3>4 DEF ImportInv, ComingExplained
  <2> QED BY <1>7, <2>1 DEF ComingExplained
<1>11. SlotsResolve'
  BY <1>2, <1>3 DEF ImportInv, SlotsResolve, TransactionOK
<1>12. /\ \A a \in o.clauses, b \in clauses :
             a[1] = b[1] => Explained(a, b) /\ Explained(b, a)
       /\ \A a \in o.templates, b \in templates :
             a[1] = b[1] => Explained(a, b) /\ Explained(b, a)
  BY <1>1, <1>2, ExplainedEitherWay DEF ImportInv, ComingExplained
<1>13. \A a, b \in clauses' :
          a # b /\ a[1] = b[1] => Explained(a, b) \/ a[2] = b[2]
  BY <1>2, <1>3, <1>12 DEF ImportInv, ImportedOnce, TransactionOK
<1>14. \A a, b \in templates' : a # b /\ a[1] = b[1] => Explained(a, b)
  BY <1>2, <1>3, <1>12 DEF ImportInv, ImportedOnce, TransactionOK
<1>15. ImportedOnce'
  BY <1>7, <1>13, <1>14 DEF ImportedOnce
<1> QED BY <1>5, <1>8, <1>9, <1>10, <1>11, <1>15 DEF ImportInv

\* An import is rolled back.
LEMMA ImportFailsOK ==
    ASSUME ImportInv, NEW j \in Importers, ImportFails(j)
    PROVE  ImportInv'
<1>1. /\ import' = [import EXCEPT ![j] = Over]
      /\ UNCHANGED <<clauses, templates, overlap>>
  BY DEF ImportFails
<1>2. ImportTypes'
  BY <1>1 DEF ImportInv, ImportTypes
<1>3. import'[j] = Over /\ \A i \in Importers \ {j} : import'[i] = import[i]
  BY <1>1 DEF ImportInv, ImportTypes
<1>4. \A i \in Importers : UnderWay(i)' => UnderWay(i) /\ import'[i] = import[i]
  BY <1>3 DEF UnderWay, Over
<1>5. \A a, b : Explained(a, b) => Explained(a, b)'
  BY <1>1 DEF Explained
<1>6. \A i \in Importers : UnderWay(i)' => TransactionOK(i, import[i], clauses)'
  BY <1>1, <1>4 DEF ImportInv
<1>7. OverlapsKnown' /\ SlotsResolve' /\ ImportedOnce'
  BY <1>1, <1>4, <1>5 DEF ImportInv, OverlapsKnown, SlotsResolve, ImportedOnce
<1>8. ComingExplained'
  BY <1>1, <1>4, <1>5 DEF ImportInv, ComingExplained
<1> QED BY <1>2, <1>6, <1>7, <1>8 DEF ImportInv

\* Every step keeps the invariant.
LEMMA ImportStep ==
    ASSUME ImportInv, [ImportNext]_importVars
    PROVE  ImportInv'
<1>1. CASE UNCHANGED importVars
  BY <1>1 DEF importVars, ImportInv, ImportTypes, OverlapsKnown, ComingExplained,
              SlotsResolve, ImportedOnce, Explained, UnderWay
<1> QED BY <1>1, CreateClauseOK, CreateTemplateOK, ImportClausesOK, ImportTemplateOK,
           CommitOK, ImportFailsOK DEF ImportNext

\* Imports interleave with each other and with what editors create, and may be
\* rolled back: slots of templates refer to clauses that are there and have the
\* title asked for, and a title comes twice only if imports overlapped, a hand
\* created one of the two or, for clauses, a file repeats it.
THEOREM ImportsCorrect == Spec => []ImportsAreSound
<1>1. Init => ImportInv
  <2> SUFFICES ASSUME ImportInit PROVE ImportInv
    BY DEF Init
  <2>1. \A j \in Importers : ~UnderWay(j)
    BY DEF ImportInit, UnderWay, NotBegun
  <2> QED BY <2>1 DEF ImportInit, ImportInv, ImportTypes, OverlapsKnown,
             ComingExplained, SlotsResolve, ImportedOnce
<1>2. ImportInv /\ [Next]_apiVars => ImportInv'
  <2>1. [Next]_apiVars => [ImportNext]_importVars
    BY DEF Next, apiVars, storeVars
  <2> QED BY <2>1, ImportStep
<1>3. ImportInv => ImportsAreSound
  BY DEF ImportInv, ImportTypes, ImportsAreSound, ImportTypeOK, TemplateRows,
         TransactionOK
<1> QED BY <1>1, <1>2, <1>3, PTL DEF Spec

-----------------------------------------------------------------------------
(***************************************************************************)
(* The search indices.                                                     *)
(***************************************************************************)

ReindexStates ==
    [kind : 0 .. Len(Catalogue), at : {"read", "bulk", "last"}, skip : Nat,
     page : SUBSET (Entries \X Changes)]
Runs ==
    [by : Reindexers, seen : SUBSET Entries, atStart : [Entries -> Changes]]

\* What a page holds was there, with a version, and is there in that state or a
\* later one; between its pages a request holds none.
IndexTypes ==
    /\ row \in [Entries -> Changes]
    /\ document \in [Entries -> Changes]
    /\ \A e \in Entries : document[e] \in {0} \cup (2 .. row[e])
    /\ job \in [Reindexers -> ReindexStates]
    /\ \A j \in Reindexers :
          /\ job[j].kind = 0 => job[j] = NoReindex
          /\ job[j].at = "read" => job[j].page = {}
          /\ \A p \in job[j].page : 2 <= p[2] /\ p[2] <= row[p[1]]

\* All entities of kind k that were there when the run a began have been read.
Covered(k, a) == \A e \in Catalogue[k] : a.atStart[e] > 0 => e \in a.seen

\* How far the run a, whose request is now at o, has come: the kinds before the
\* present one are covered, nothing of those after it is read, and of the
\* present one as many as the pages that were full.
Progress(a, o) ==
    \A k \in DOMAIN Catalogue :
        /\ o.kind = 0 \/ k < o.kind \/ (k = o.kind /\ o.at = "last") => Covered(k, a)
        /\ o.kind > 0 /\ k > o.kind => a.seen \cap Catalogue[k] = {}
        /\ k = o.kind /\ o.at = "read" =>
              Cardinality(a.seen \cap Catalogue[k]) = o.skip
        /\ k = o.kind /\ o.at = "bulk" =>
              Cardinality(a.seen \cap Catalogue[k]) = o.skip + PageSize

\* What the run has read is indexed or on its page, in the state of the start
\* or a later one.
RunOK(a, o) ==
    /\ a \in Runs
    /\ \A i \in Reindexers \ {a.by} : ~Running(i)
    /\ \A e \in Entries : a.atStart[e] <= row[e] /\ (e \in a.seen => row[e] > 0)
    /\ \A p \in o.page : p[2] >= a.atStart[p[1]]
    /\ \A e \in a.seen : a.atStart[e] > 1 =>
          \/ document[e] >= a.atStart[e]
          \/ \E n \in Changes : <<e, n>> \in o.page
    /\ Progress(a, o)

IndexInv ==
    /\ IndexTypes
    /\ alone # NotAlone => RunOK(alone, job[alone.by])

\* The kinds of entries and their finite sets.
LEMMA CatalogueFacts ==
    /\ Len(Catalogue) \in Nat /\ Len(Catalogue) > 0
    /\ DOMAIN Catalogue = 1 .. Len(Catalogue)
    /\ PageSize \in Nat /\ PageSize > 0 /\ MaxChange \in Nat
    /\ \A k \in DOMAIN Catalogue :
          Catalogue[k] \subseteq Entries /\ IsFiniteSet(Catalogue[k])
BY SearchLimits, CatalogueIsFinite DEF Entries

\* A page shorter than the others holds all that was not read before.
LEMMA ShortPage ==
    ASSUME NEW S, IsFiniteSet(S), NEW T \in SUBSET S, NEW page \in SUBSET S,
           T \cap page = {},
           Cardinality(page) =
              Least(PageSize, Cardinality(S) - Least(Cardinality(T), Cardinality(S)))
    PROVE  /\ Cardinality(T \cup page) = Cardinality(T) + Cardinality(page)
           /\ Cardinality(page) <= PageSize
           /\ Cardinality(page) < PageSize => T \cup page = S
           /\ page = {} => T = S
<1>1. /\ IsFiniteSet(T) /\ IsFiniteSet(page) /\ Cardinality(T) <= Cardinality(S)
      /\ Cardinality(T) \in Nat /\ Cardinality(page) \in Nat /\ Cardinality(S) \in Nat
  BY FS_Subset, FS_CardinalityType
<1>2. Cardinality(T \cup page) = Cardinality(T) + Cardinality(page)
  BY <1>1, DisjointUnion
<1>3. PageSize \in Nat /\ PageSize > 0
  BY CatalogueFacts
<1>4. Least(Cardinality(T), Cardinality(S)) = Cardinality(T)
  BY <1>1 DEF Least
<1>5. /\ Cardinality(page) <= PageSize
      /\ Cardinality(page) < PageSize =>
            Cardinality(page) = Cardinality(S) - Cardinality(T)
  BY <1>1, <1>3, <1>4 DEF Least
<1>6. ASSUME Cardinality(page) < PageSize PROVE T \cup page = S
  <2>1. Cardinality(S) = Cardinality(T \cup page)
    BY <1>1, <1>2, <1>5, <1>6
  <2>2. T \cup page \in SUBSET S
    OBVIOUS
  <2> QED BY <2>1, <2>2, FS_Subset
<1>7. page = {} => Cardinality(page) < PageSize
  BY <1>3, FS_EmptySet
<1> QED BY <1>2, <1>5, <1>6, <1>7

\* A reindex goes on with the next kind, or ends.
LEMMA NextKinds ==
    ASSUME IndexTypes, NEW j \in Reindexers, Running(j),
           NEW o, o = job[j], NEW p, p = NextKind(j)
    PROVE  /\ o \in ReindexStates /\ o.kind \in DOMAIN Catalogue
           /\ p \in ReindexStates /\ p.at = "read" /\ p.skip = 0 /\ p.page = {}
           /\ p.kind = IF o.kind = Len(Catalogue) THEN 0 ELSE o.kind + 1
           /\ p.kind = 0 => p = NoReindex
<1>1. o \in ReindexStates /\ o.kind # 0
  BY DEF IndexTypes, Running
<1>2. o.kind \in 0 .. Len(Catalogue)
  BY <1>1 DEF ReindexStates
<1>3. o.kind \in DOMAIN Catalogue
  BY <1>1, <1>2, CatalogueFacts
<1>4. CASE o.kind = Len(Catalogue)
  BY <1>1, <1>3, <1>4, CatalogueFacts DEF NextKind, NoReindex, ReindexStates
<1>5. CASE o.kind # Len(Catalogue)
  <2>1. o.kind + 1 \in 0 .. Len(Catalogue) /\ o.kind + 1 # 0
    BY <1>2, <1>5, CatalogueFacts
  <2>2. p = [NoReindex EXCEPT !.kind = o.kind + 1]
    BY <1>5 DEF NextKind
  <2> QED BY <1>1, <1>3, <1>5, <2>1, <2>2 DEF NoReindex, ReindexStates
<1> QED BY <1>4, <1>5

\* From a kind that is covered to the next.
LEMMA ProgressToNext ==
    ASSUME NEW a, NEW o, NEW p, Progress(a, o), o.kind \in DOMAIN Catalogue,
           Covered(o.kind, a), p.at = "read", p.skip = 0,
           p.kind = IF o.kind = Len(Catalogue) THEN 0 ELSE o.kind + 1
    PROVE  Progress(a, p)
<1>1. ASSUME NEW k \in DOMAIN Catalogue
      PROVE  /\ p.kind = 0 \/ k < p.kind => Covered(k, a)
             /\ p.kind > 0 /\ k > p.kind => a.seen \cap Catalogue[k] = {}
             /\ k = p.kind => Cardinality(a.seen \cap Catalogue[k]) = 0
  <2>1. /\ k \in Nat /\ k > 0 /\ k <= Len(Catalogue) /\ Len(Catalogue) \in Nat
        /\ o.kind \in Nat /\ o.kind > 0 /\ o.kind <= Len(Catalogue)
    BY CatalogueFacts
  <2>2. /\ k < o.kind => Covered(k, a)
        /\ k > o.kind => a.seen \cap Catalogue[k] = {}
    BY <2>1 DEF Progress
  <2>3. CASE o.kind = Len(Catalogue)
    BY <2>1, <2>2, <2>3
  <2>4. CASE o.kind # Len(Catalogue)
    <3>1. p.kind = o.kind + 1
      BY <2>4
    <3>2. k < p.kind => k = o.kind \/ k < o.kind
      BY <2>1, <3>1
    <3>3. k >= p.kind => a.seen \cap Catalogue[k] = {}
      BY <2>1, <2>2, <3>1
    <3>4. Cardinality({}) = 0
      BY FS_EmptySet
    <3>5. p.kind # 0 /\ (k = p.kind => Cardinality(a.seen \cap Catalogue[k]) = 0)
      <4>1. k = p.kind => a.seen \cap Catalogue[k] = {}
        BY <2>1, <3>1, <3>3
      <4>2. k = p.kind => Cardinality(a.seen \cap Catalogue[k]) = 0
        BY <3>4, <4>1
      <4> QED BY <2>1, <3>1, <4>2
    <3>6. p.kind = 0 \/ k < p.kind => Covered(k, a)
      BY <2>2, <3>2, <3>5
    <3>7. p.kind > 0 /\ k > p.kind => a.seen \cap Catalogue[k] = {}
      BY <2>1, <3>1, <3>3
    <3> QED BY <3>5, <3>6, <3>7
  <2> QED BY <2>3, <2>4
<1> QED BY <1>1 DEF Progress

\* A step of the other stores.
LEMMA IndexRests ==
    ASSUME IndexInv, UNCHANGED searchVars
    PROVE  IndexInv'
BY DEF searchVars, IndexInv, IndexTypes, RunOK, Running

\* An entity or its latest version changes.
LEMMA ChangeOK ==
    ASSUME IndexInv, NEW e \in Entries, Change(e)
    PROVE  IndexInv'
<1>1. /\ row' = [row EXCEPT ![e] = @ + 1] /\ row[e] < MaxChange
      /\ UNCHANGED <<document, job, alone>>
  BY DEF Change
<1>2. row \in [Entries -> Changes] /\ MaxChange \in Nat
  BY CatalogueFacts DEF IndexInv, IndexTypes
<1>3. /\ row' \in [Entries -> Changes]
      /\ \A f \in Entries : row[f] \in Nat /\ row'[f] \in Nat /\ row[f] <= row'[f]
  BY <1>1, <1>2 DEF Changes
<1>4. IndexTypes'
  <2>1. \A f \in Entries : document'[f] \in {0} \cup (2 .. row'[f])
    BY <1>1, <1>3 DEF IndexInv, IndexTypes, Changes
  <2>2. ASSUME NEW j \in Reindexers, NEW p \in job'[j].page
        PROVE  2 <= p[2] /\ p[2] <= row'[p[1]]
    <3>1. p \in Entries \X Changes /\ 2 <= p[2] /\ p[2] <= row[p[1]]
      BY <1>1, <2>2 DEF IndexInv, IndexTypes, ReindexStates
    <3> QED BY <1>3, <3>1 DEF Changes
  <2> QED BY <1>1, <1>3, <2>1, <2>2 DEF IndexInv, IndexTypes
<1>5. ASSUME alone # NotAlone
      PROVE  RunOK(alone, job[alone.by])'
  <2>1. PICK a, o : a = alone /\ o = job[alone.by]
    OBVIOUS
  <2>2. RunOK(a, o)
    BY <1>5, <2>1 DEF IndexInv
  <2>3. \A f \in Entries : a.atStart[f] \in Nat
    BY <2>2 DEF RunOK, Runs, Changes
  <2>4. RunOK(a, o)'
    BY <1>1, <1>3, <2>2, <2>3 DEF RunOK, Running
  <2> QED BY <1>1, <2>1, <2>4
<1> QED BY <1>1, <1>4, <1>5 DEF IndexInv

\* The types, when the rows stay and one request goes on to o.
LEMMA TypesGoOn ==
    ASSUME IndexTypes, NEW j \in Reindexers, NEW o \in ReindexStates,
           o.kind = 0 => o = NoReindex, o.at = "read" => o.page = {},
           \A p \in o.page : 2 <= p[2] /\ p[2] <= row[p[1]],
           job' = [job EXCEPT ![j] = o], row' = row,
           document' \in [Entries -> Changes],
           \A e \in Entries : document'[e] \in {0} \cup (2 .. row[e])
    PROVE  IndexTypes' /\ job'[j] = o /\ \A i \in Reindexers \ {j} : job'[i] = job[i]
BY DEF IndexTypes

\* A reindex that does not run has no page.
LEMMA NoReindexIs ==
    /\ NoReindex \in ReindexStates /\ NoReindex.kind = 0 /\ NoReindex.at = "read"
    /\ NoReindex.skip = 0 /\ NoReindex.page = {}
BY CatalogueFacts DEF NoReindex, ReindexStates

\* A reindex begins.
LEMMA ReindexOK ==
    ASSUME IndexInv, NEW j \in Reindexers, Reindex(j)
    PROVE  IndexInv'
<1>1. PICK o : o = [NoReindex EXCEPT !.kind = 1]
  OBVIOUS
<1>2. /\ ~Running(j) /\ job' = [job EXCEPT ![j] = o]
      /\ alone' = IF Others(j) THEN NotAlone
                  ELSE [by |-> j, seen |-> {}, atStart |-> row]
      /\ UNCHANGED <<row, document>>
  BY <1>1 DEF Reindex
<1>3. /\ o \in ReindexStates /\ o.kind = 1 /\ o.at = "read" /\ o.skip = 0
      /\ o.page = {}
  BY <1>1, CatalogueFacts DEF NoReindex, ReindexStates
<1>4. IndexTypes' /\ job'[j] = o /\ \A i \in Reindexers \ {j} : job'[i] = job[i]
  <2>1. /\ document' \in [Entries -> Changes]
        /\ \A e \in Entries : document'[e] \in {0} \cup (2 .. row[e])
    BY <1>2 DEF IndexInv, IndexTypes
  <2>2. /\ o.kind = 0 => o = NoReindex
        /\ \A p \in o.page : 2 <= p[2] /\ p[2] <= row[p[1]]
        /\ IndexTypes /\ o.page = {} /\ row' = row
    BY <1>2, <1>3 DEF IndexInv
  <2>3. job' = [job EXCEPT ![j] = o]
    BY <1>2
  <2> QED BY <1>3, <2>1, <2>2, <2>3, TypesGoOn
<1>5. ASSUME alone' # NotAlone
      PROVE  RunOK(alone, job[alone.by])'
  <2>1. PICK a : a = [by |-> j, seen |-> {}, atStart |-> row]
    OBVIOUS
  <2>2. ~Others(j) /\ alone' = a
    BY <1>2, <1>5, <2>1
  <2>3. a \in Runs /\ a.by = j /\ a.seen = {} /\ a.atStart = row
    BY <2>1 DEF Runs, IndexInv, IndexTypes
  <2>4. \A i \in Reindexers \ {j} : ~Running(i)'
    BY <1>4, <2>2 DEF Others, Running
  <2>5. Progress(a, o)
    <3>1. \A k \in DOMAIN Catalogue : k \in Nat /\ k >= 1
      BY CatalogueFacts
    <3> QED BY <1>3, <2>3, <3>1, FS_EmptySet DEF Progress
  <2>6. \A e \in Entries : row[e] \in Nat
    BY DEF IndexInv, IndexTypes, Changes
  <2>7. RunOK(a, o)'
    BY <1>2, <1>3, <2>3, <2>4, <2>5, <2>6 DEF RunOK
  <2> QED BY <1>4, <2>2, <2>3, <2>7
<1> QED BY <1>4, <1>5 DEF IndexInv

\* A request that is under way is the one that runs alone, if one does.
LEMMA WhoRunsAlone ==
    ASSUME IndexInv, NEW j \in Reindexers, Running(j), alone # NotAlone
    PROVE  Alone(j) /\ RunOK(alone, job[j])
BY DEF IndexInv, RunOK, Alone

\* A reindex reads a page, of any rows of the size that skip and take leave.
LEMMA ReadPageOK ==
    ASSUME IndexInv, NEW j \in Reindexers, ReadPage(j)
    PROVE  IndexInv'
<1>1. PICK o, k : o = job[j] /\ k = o.kind
  OBVIOUS
<1>2. PICK next : next = NextKind(j)
  OBVIOUS
<1>3. PICK page \in Pages(k, Least(PageSize,
                    Cardinality(Rows(k)) - Least(o.skip, Cardinality(Rows(k))))) :
        /\ Running(j) /\ o.at = "read"
        /\ job' = [job EXCEPT ![j] =
              IF page = {} THEN next
              ELSE [o EXCEPT !.at = IF Cardinality(page) < PageSize THEN "last"
                                    ELSE "bulk",
                             !.page = {<<e, row[e]>> : e \in Documents(page)}]]
        /\ alone' = IF ~Alone(j) THEN alone
                    ELSE IF page \cap alone.seen # {} THEN NotAlone
                    ELSE [alone EXCEPT !.seen = @ \cup page]
        /\ UNCHANGED <<row, document>>
  <2>1. job \in [Reindexers -> ReindexStates]
    BY DEF IndexInv, IndexTypes
  <2> QED BY <1>1, <1>2, <2>1 DEF ReadPage
<1>4. PICK p : p = IF page = {} THEN next
                   ELSE [o EXCEPT !.at = IF Cardinality(page) < PageSize THEN "last"
                                         ELSE "bulk",
                                  !.page = {<<e, row[e]>> : e \in Documents(page)}]
  OBVIOUS
<1>5. /\ o \in ReindexStates /\ k \in DOMAIN Catalogue
      /\ next \in ReindexStates /\ next.at = "read" /\ next.skip = 0
      /\ next.page = {}
      /\ next.kind = IF o.kind = Len(Catalogue) THEN 0 ELSE o.kind + 1
      /\ next.kind = 0 => next = NoReindex
  BY <1>1, <1>2, <1>3, NextKinds DEF IndexInv
<1>6. /\ page \in SUBSET Rows(k) /\ Rows(k) \subseteq Catalogue[k]
      /\ Catalogue[k] \subseteq Entries /\ IsFiniteSet(Rows(k))
      /\ \A e \in Rows(k) : row[e] > 0
      /\ Cardinality(page) = Least(PageSize,
            Cardinality(Rows(k)) - Least(o.skip, Cardinality(Rows(k))))
  BY <1>3, <1>5, CatalogueFacts, FS_Subset DEF Pages, Rows
<1>7. \A e \in Entries : row[e] \in Changes /\ row[e] \in Nat
  BY DEF IndexInv, IndexTypes, Changes
<1>8. /\ page # {} =>
           /\ p \in ReindexStates /\ p.kind = k /\ p.skip = o.skip
           /\ p.at = (IF Cardinality(page) < PageSize THEN "last" ELSE "bulk")
           /\ p.page = {<<e, row[e]>> : e \in Documents(page)}
      /\ page = {} => p = next
  <2>1. {<<e, row[e]>> : e \in Documents(page)} \in SUBSET (Entries \X Changes)
    BY <1>6, <1>7 DEF Documents
  <2> QED BY <1>1, <1>4, <1>5, <2>1 DEF ReindexStates
<1>9. \A d \in p.page : d[1] \in page /\ d[2] = row[d[1]] /\ row[d[1]] > 1
  BY <1>5, <1>8 DEF Documents
<1>10. IndexTypes' /\ job'[j] = p /\ \A i \in Reindexers \ {j} : job'[i] = job[i]
  <2>1. p \in ReindexStates /\ (p.kind = 0 => p = NoReindex)
    BY <1>5, <1>8, CatalogueFacts
  <2>2. p.at = "read" => p.page = {}
    BY <1>5, <1>8
  <2>3. \A d \in p.page : 2 <= d[2] /\ d[2] <= row[d[1]]
    BY <1>6, <1>7, <1>9
  <2>4. /\ document' \in [Entries -> Changes]
        /\ \A e \in Entries : document'[e] \in {0} \cup (2 .. row[e])
    BY <1>3 DEF IndexInv, IndexTypes
  <2>5. job' = [job EXCEPT ![j] = p]
    BY <1>3, <1>4
  <2> QED BY <1>3, <2>1, <2>2, <2>3, <2>4, <2>5, TypesGoOn DEF IndexInv
<1>11. ASSUME alone' # NotAlone
       PROVE  RunOK(alone, job[alone.by])'
  <2>1. alone # NotAlone
    BY <1>3, <1>11 DEF Alone
  <2>2. Alone(j) /\ RunOK(alone, o)
    BY <1>1, <1>3, <2>1, WhoRunsAlone
  <2>3. PICK a \in Runs : a = alone
    BY <2>2 DEF RunOK
  <2>4. PICK b : b = [a EXCEPT !.seen = a.seen \cup page]
    OBVIOUS
  <2>5. /\ b \in Runs /\ b.by = j /\ b.seen = a.seen \cup page
        /\ b.atStart = a.atStart /\ a.by = j /\ page \cap a.seen = {} /\ alone' = b
    BY <1>3, <1>6, <1>11, <2>2, <2>3, <2>4 DEF Runs, Alone
  <2>6. PICK T : T = a.seen \cap Catalogue[k]
    OBVIOUS
  <2>7. Cardinality(T) = o.skip /\ T \in SUBSET Rows(k) /\ T \cap page = {}
    BY <1>1, <1>3, <1>5, <1>6, <2>2, <2>3, <2>5, <2>6 DEF RunOK, Progress, Rows
  <2>8. /\ Cardinality(T \cup page) = Cardinality(T) + Cardinality(page)
        /\ Cardinality(page) <= PageSize
        /\ Cardinality(page) < PageSize => T \cup page = Rows(k)
        /\ page = {} => T = Rows(k)
    BY <1>6, <2>7, ShortPage
  <2>9. b.seen \cap Catalogue[k] = T \cup page
    BY <1>6, <2>5, <2>6
  <2>10. \A e \in Entries : b.atStart[e] \in Nat /\ b.atStart[e] <= row[e]
    BY <2>2, <2>3, <2>5 DEF RunOK, Runs, Changes
  <2>11. T \cup page = Rows(k) => Covered(k, b)
    BY <1>6, <1>7, <2>9, <2>10 DEF Covered, Rows
  <2>12. \A l \in DOMAIN Catalogue \ {k} :
            b.seen \cap Catalogue[l] = a.seen \cap Catalogue[l]
    BY <1>5, <1>6, <2>5, CatalogueIsFinite
  <2>13. \A l \in DOMAIN Catalogue : Covered(l, a) => Covered(l, b)
    BY <2>5 DEF Covered
  <2>14. /\ k \in Nat /\ k > 0 /\ Cardinality(page) \in Nat /\ PageSize \in Nat
         /\ \A l \in DOMAIN Catalogue : l \in Nat /\ l > 0
    BY <1>5, <1>6, CatalogueFacts, FS_Subset, FS_CardinalityType
  <2>15. Progress(a, o)
    BY <2>2, <2>3 DEF RunOK
  <2>16. \A l \in DOMAIN Catalogue :
            /\ l < k => Covered(l, b)
            /\ l > k => b.seen \cap Catalogue[l] = {}
    <3>1. ASSUME NEW l \in DOMAIN Catalogue
          PROVE  /\ l < k => Covered(l, b)
                 /\ l > k => b.seen \cap Catalogue[l] = {}
      <4>1. /\ l < k => Covered(l, a)
            /\ k > 0 /\ l > k => a.seen \cap Catalogue[l] = {}
        BY <1>1, <2>15 DEF Progress
      <4>2. l > k => l # k
        BY <2>14
      <4> QED BY <2>12, <2>13, <2>14, <4>1, <4>2
    <3> QED BY <3>1
  <2>17. Progress(b, p)
    <3>1. CASE page = {}
      <4>1. b = a /\ Covered(k, a)
        BY <2>4, <2>8, <2>11, <3>1 DEF Runs
      <4> QED BY <1>1, <1>5, <1>8, <2>15, <3>1, <4>1, ProgressToNext
    <3>2. CASE page # {}
      <4>1. p.kind = k /\ p.skip = o.skip /\ p.at # "read"
        BY <1>8, <3>2
      <4>2. p.at = "last" => Covered(k, b)
        BY <1>8, <2>8, <2>11, <3>2
      <4>3. p.at = "bulk" => Cardinality(b.seen \cap Catalogue[k]) = p.skip + PageSize
        <5>1. p.at = "bulk" => Cardinality(page) = PageSize
          BY <1>8, <2>8, <2>14, <3>2
        <5> QED BY <2>7, <2>8, <2>9, <4>1, <5>1
      <4>4. ASSUME NEW l \in DOMAIN Catalogue
            PROVE  /\ p.kind = 0 \/ l < p.kind \/ (l = p.kind /\ p.at = "last")
                         => Covered(l, b)
                   /\ p.kind > 0 /\ l > p.kind => b.seen \cap Catalogue[l] = {}
                   /\ ~(l = p.kind /\ p.at = "read")
                   /\ l = p.kind /\ p.at = "bulk" =>
                         Cardinality(b.seen \cap Catalogue[l]) = p.skip + PageSize
        <5>1. p.kind # 0
          BY <2>14, <4>1
        <5> QED BY <2>16, <4>1, <4>2, <4>3, <5>1
      <4> QED BY <4>4 DEF Progress
    <3> QED BY <3>1, <3>2
  <2>18. ASSUME NEW e \in b.seen, b.atStart[e] > 1
         PROVE  \/ document'[e] >= b.atStart[e]
                \/ \E n \in Changes : <<e, n>> \in p.page
    <3>1. CASE e \in a.seen
      BY <1>1, <1>3, <2>2, <2>3, <2>5, <2>18, <3>1 DEF RunOK, IndexInv, IndexTypes
    <3>2. CASE e \in page
      <4>1. e \in Entries /\ row[e] > 1 /\ page # {}
        BY <1>6, <1>7, <2>10, <2>18, <3>2
      <4>2. <<e, row[e]>> \in p.page
        BY <1>8, <3>2, <4>1 DEF Documents
      <4> QED BY <1>7, <4>1, <4>2
    <3> QED BY <2>5, <3>1, <3>2
  <2>19. \A d \in p.page : d[2] >= b.atStart[d[1]]
    BY <1>6, <1>7, <1>9, <2>10
  <2>20. \A e \in Entries : b.atStart[e] <= row'[e] /\ (e \in b.seen => row'[e] > 0)
    BY <1>3, <1>6, <2>2, <2>3, <2>5, <2>10 DEF RunOK
  <2>21. \A i \in Reindexers \ {j} : ~Running(i)'
    BY <1>10, <2>2, <2>3, <2>5 DEF RunOK, Running
  <2>22. RunOK(b, p)'
    BY <2>5, <2>17, <2>18, <2>19, <2>20, <2>21 DEF RunOK
  <2> QED BY <1>10, <2>5, <2>22
<1> QED BY <1>10, <1>11 DEF IndexInv

\* A bulk request, some items of which may be refused.
LEMMA BulkIndexOK ==
    ASSUME IndexInv, NEW j \in Reindexers, BulkIndex(j)
    PROVE  IndexInv'
<1>1. PICK o, p : o = job[j] /\ p = AfterPage(j)
  OBVIOUS
<1>2. PICK taken \in SUBSET o.page :
        /\ document' = [e \in Entries |->
              IF \E n \in Changes : <<e, n>> \in taken
              THEN CHOOSE n \in Changes : <<e, n>> \in taken
              ELSE document[e]]
        /\ alone' = IF taken = o.page THEN alone ELSE NotAlone
        /\ o.at \in {"bulk", "last"} /\ job' = [job EXCEPT ![j] = p] /\ row' = row
  BY <1>1 DEF BulkIndex
<1>3. Running(j)
  BY <1>1, <1>2, NoReindexIs DEF Running
<1>4. PICK next : next = NextKind(j)
  OBVIOUS
<1>5. /\ o \in ReindexStates /\ o.kind \in DOMAIN Catalogue
      /\ next \in ReindexStates /\ next.at = "read" /\ next.skip = 0
      /\ next.page = {}
      /\ next.kind = IF o.kind = Len(Catalogue) THEN 0 ELSE o.kind + 1
      /\ next.kind = 0 => next = NoReindex
  BY <1>1, <1>3, <1>4, NextKinds DEF IndexInv
<1>6. /\ o.at = "last" => p = next
      /\ o.at = "bulk" =>
            /\ p \in ReindexStates /\ p.kind = o.kind /\ p.at = "read"
            /\ p.skip = o.skip + PageSize /\ p.page = {}
  <2>1. CASE o.at = "last"
    BY <1>1, <1>4, <2>1 DEF AfterPage
  <2>2. CASE o.at = "bulk"
    <3>1. p = [o EXCEPT !.at = "read", !.skip = o.skip + PageSize, !.page = {}]
      BY <1>1, <1>5, <2>2 DEF AfterPage, ReindexStates
    <3>2. o.skip + PageSize \in Nat
      BY <1>5, CatalogueFacts DEF ReindexStates
    <3> QED BY <1>5, <2>2, <3>1, <3>2 DEF ReindexStates
  <2> QED BY <2>1, <2>2
<1>7. \A q \in o.page : q \in Entries \X Changes /\ 2 <= q[2] /\ q[2] <= row[q[1]]
  BY <1>1, <1>5 DEF IndexInv, IndexTypes, ReindexStates
<1>8. \A e \in Entries :
         \/ document'[e] \in Changes /\ <<e, document'[e]>> \in taken
         \/ document'[e] = document[e] /\ \A n \in Changes : <<e, n>> \notin taken
  BY <1>2
<1>9. /\ document' \in [Entries -> Changes]
      /\ \A e \in Entries : document'[e] \in {0} \cup (2 .. row[e])
  <2>1. ASSUME NEW e \in Entries
        PROVE  document'[e] \in Changes /\ document'[e] \in {0} \cup (2 .. row[e])
    <3>1. CASE document'[e] \in Changes /\ <<e, document'[e]>> \in taken
      <4>1. 2 <= document'[e] /\ document'[e] <= row[e]
        BY <1>7, <3>1
      <4> QED BY <3>1, <4>1 DEF IndexInv, IndexTypes, Changes
    <3>2. CASE document'[e] = document[e]
      BY <3>2 DEF IndexInv, IndexTypes
    <3> QED BY <1>8, <3>1, <3>2
  <2>2. document' = [e \in Entries |-> document'[e]]
    BY <1>2
  <2> QED BY <2>1, <2>2
<1>10. IndexTypes' /\ job'[j] = p /\ \A i \in Reindexers \ {j} : job'[i] = job[i]
  <2>1. /\ p \in ReindexStates /\ p.page = {} /\ p.at = "read"
        /\ p.kind = 0 => p = NoReindex
    BY <1>2, <1>5, <1>6, CatalogueFacts
  <2> QED BY <1>2, <1>9, <2>1, TypesGoOn DEF IndexInv
<1>11. ASSUME alone' # NotAlone
       PROVE  RunOK(alone, job[alone.by])'
  <2>1. alone # NotAlone /\ alone' = alone /\ taken = o.page
    BY <1>2, <1>11
  <2>2. Alone(j) /\ RunOK(alone, o)
    BY <1>1, <1>3, <2>1, WhoRunsAlone
  <2>3. PICK a \in Runs : a = alone
    BY <2>2 DEF RunOK
  <2>4. RunOK(a, o) /\ a.by = j
    BY <2>2, <2>3 DEF Alone
  <2>5. \A e \in Entries : a.atStart[e] \in Nat /\ row[e] \in Nat /\ document[e] \in Nat
    BY DEF Runs, Changes, IndexInv, IndexTypes
  <2>6. ASSUME NEW e \in a.seen, a.atStart[e] > 1
        PROVE  document'[e] >= a.atStart[e]
    <3>1. e \in Entries
      BY DEF Runs
    <3>2. CASE <<e, document'[e]>> \in taken
      BY <2>1, <2>4, <3>2 DEF RunOK
    <3>3. CASE document'[e] = document[e] /\ \A n \in Changes : <<e, n>> \notin taken
      BY <2>1, <2>4, <2>6, <3>3 DEF RunOK
    <3> QED BY <1>8, <3>1, <3>2, <3>3
  <2>7. Progress(a, p)
    <3>1. Progress(a, o)
      BY <2>4 DEF RunOK
    <3>2. CASE o.at = "last"
      <4>1. Covered(o.kind, a)
        BY <1>5, <3>1, <3>2 DEF Progress
      <4> QED BY <1>5, <1>6, <3>1, <3>2, <4>1, ProgressToNext
    <3>3. CASE o.at = "bulk"
      BY <1>5, <1>6, <3>1, <3>3 DEF Progress
    <3> QED BY <1>2, <3>2, <3>3
  <2>8. p.page = {}
    BY <1>2, <1>5, <1>6
  <2>9. \A i \in Reindexers \ {j} : ~Running(i)'
    BY <1>10, <2>4 DEF RunOK, Running
  <2>10. RunOK(a, p)'
    BY <1>2, <2>4, <2>6, <2>7, <2>8, <2>9 DEF RunOK
  <2> QED BY <1>10, <2>1, <2>3, <2>4, <2>10
<1> QED BY <1>10, <1>11 DEF IndexInv

\* A reindex ends with 500.
LEMMA ReindexFailsOK ==
    ASSUME IndexInv, NEW j \in Reindexers, ReindexFails(j)
    PROVE  IndexInv'
<1>1. /\ job' = [job EXCEPT ![j] = NoReindex] /\ alone' = NotAlone
      /\ UNCHANGED <<row, document>>
  BY DEF ReindexFails
<1>2. /\ document' \in [Entries -> Changes]
      /\ \A e \in Entries : document'[e] \in {0} \cup (2 .. row[e])
  BY <1>1 DEF IndexInv, IndexTypes
<1>3. IndexTypes'
  BY <1>1, <1>2, NoReindexIs, TypesGoOn DEF IndexInv
<1> QED BY <1>1, <1>3 DEF IndexInv

\* The invariant holds at the start.
LEMMA IndexInitOK ==
    ASSUME SearchInit
    PROVE  IndexInv
<1>1. 0 \in Changes
  BY CatalogueFacts DEF Changes
<1> QED BY <1>1, NoReindexIs DEF SearchInit, NoRows, IndexInv, IndexTypes

\* Every step keeps the invariant.
LEMMA IndexStep ==
    ASSUME IndexInv, [SearchNext]_searchVars
    PROVE  IndexInv'
BY IndexRests, ChangeOK, ReindexOK, ReadPageOK, BulkIndexOK, ReindexFailsOK
   DEF SearchNext

\* Entities come and change while requests read their pages in no order, and
\* bulk requests may be refused in part: a document was made from a version
\* there was, and a run that was alone, read nothing twice and was refused
\* nothing has left out no entity that had a version when it began.
THEOREM IndexCorrect == Spec => []IndexIsSound
<1>1. Init => IndexInv
  BY IndexInitOK DEF Init
<1>2. IndexInv /\ [Next]_apiVars => IndexInv'
  <2>1. [Next]_apiVars => [SearchNext]_searchVars
    BY DEF Next, apiVars, storeVars
  <2> QED BY <2>1, IndexStep
<1>3. IndexInv => IndexTypeOK
  BY DEF IndexInv, IndexTypes, IndexTypeOK, ReindexStates
<1>4. ASSUME IndexInv PROVE ReindexCovers
  <2>1. ASSUME alone # NotAlone, ~Running(alone.by), NEW e \in Entries,
               alone.atStart[e] > 1
        PROVE  document[e] >= alone.atStart[e]
    <3>1. PICK a, o : a = alone /\ o = job[alone.by]
      OBVIOUS
    <3>2. RunOK(a, o) /\ o = NoReindex
      BY <1>4, <2>1, <3>1 DEF IndexInv, Running
    <3>3. o.kind = 0 /\ o.page = {}
      BY <3>2, NoReindexIs
    <3>4. PICK k \in DOMAIN Catalogue : e \in Catalogue[k]
      BY DEF Entries
    <3>5. Covered(k, a)
      BY <3>2, <3>3 DEF RunOK, Progress
    <3>6. a.atStart[e] \in Nat
      BY <3>2 DEF RunOK, Runs, Changes
    <3>7. e \in a.seen
      BY <2>1, <3>1, <3>4, <3>5, <3>6 DEF Covered
    <3> QED BY <2>1, <3>1, <3>2, <3>3, <3>7 DEF RunOK
  <2> QED BY <2>1 DEF ReindexCovers
<1> QED BY <1>1, <1>2, <1>3, <1>4, PTL DEF Spec, IndexIsSound
=============================================================================
