---------------------------- MODULE UserProvisioning ----------------------------
(***************************************************************************)
(* The users of one tenant and their Keycloak accounts: the user handlers  *)
(* of modules/identity/routes.ts, the SCIM service behind                  *)
(* modules/scim/routes.ts and services/keycloak-admin.ts.                  *)
(*                                                                         *)
(* Every handler commits its change of the users table first and then      *)
(* calls Keycloak, one HTTP request after the other; a call that fails is  *)
(* logged and the handler goes on.  The identity handlers read and write   *)
(* in one transaction, whose outcome depends on the row it writes only;    *)
(* the SCIM handlers read in a transaction of their own.  No handler       *)
(* stores the id of the account it creates, so users with a keycloakId are *)
(* those that were migrated with one.  mapUserToScimResource, which makes  *)
(* the answers of SCIM after everything else is done, has no state.        *)
(***************************************************************************)
EXTENDS Naturals, Sequences, FiniteSets

CONSTANTS
    Ids,                    \* uuids the database can give to users
    Emails,                 \* also the names of Keycloak accounts
    Roles,
    Callers,                \* requests the API process can have in flight
    Patches,                \* changes a SCIM PATCH may ask for
    Null                    \* no row, no account, an empty column or field

VARIABLES
    users,                  \* id -> row
    accounts,               \* user name -> account in the Keycloak realm
    call,                   \* request -> what its handler does next
    deleted,                \* history: ids of deleted users
    disturbed               \* history: requests overlapped or a call was lost

provisioningVars == <<users, accounts, call, deleted, disturbed>>

UserStatuses == {"invited", "active", "inactive"}
User == [email : Emails, role : Roles, status : UserStatuses,
         account : Emails \cup {Null}]
Account == [enabled : BOOLEAN, roles : SUBSET Roles]

ASSUME NullIsNothing == /\ Null \notin Emails \cup Roles \cup UserStatuses
                        /\ Null \notin User \cup Account
ASSUME PatchesAreChanges ==
    Patches \subseteq [email : Emails \cup {Null}, role : Roles \cup {Null},
                       status : {"active", "inactive", Null}]

Users == {i \in Ids : users[i] # Null}

(***************************************************************************)
(* What a handler has yet to ask of Keycloak about an account.             *)
(***************************************************************************)
Enable == [do |-> "enable"]
Disable == [do |-> "disable"]
RemoveAccount == [do |-> "remove"]
Grant(role) == [do |-> "grant", role |-> role]
KeycloakCalls == {Enable, Disable, RemoveAccount} \cup {Grant(role) : role \in Roles}

Waiting == [at |-> "idle"]
Call == {Waiting}
    \cup [at : {"account"}, email : Emails, calls : Seq(KeycloakCalls)]
    \cup [at : {"scimInsert"}, email : Emails, role : Roles,
          status : {"active", "inactive"}]
    \cup [at : {"scimPatch"}, user : Ids, account : Emails \cup {Null},
          patch : Patches]
    \cup [at : {"scimDelete"}, user : Ids, account : Emails \cup {Null}]
    \cup [at : {"sync"}, account : Emails, calls : Seq(KeycloakCalls)]

Goto(r, c) == call' = [call EXCEPT ![r] = c]

\* The calls that are left, if the row names an account; then the handler
\* ends.
Proceed(r, account, calls) ==
    Goto(r, IF account = Null \/ calls = <<>> THEN Waiting
            ELSE [at |-> "sync", account |-> account, calls |-> calls])

\* Mutant: two users may have one email.
AnyEmail(email, i) == email \in Emails
EmailIsFree(email, i) == \A j \in Users \ {i} : users[j].email # email

\* The row is inserted; then Keycloak is to create an account with the role
\* and, for an inactive SCIM user, to disable it.
Insert(r, i, email, role, status) ==
    /\ i \notin deleted /\ users[i] = Null
    /\ EmailIsFree(email, i)
    /\ users' = [users EXCEPT ![i] =
          [email |-> email, role |-> role, status |-> status, account |-> Null]]
    /\ Goto(r, [at |-> "account", email |-> email,
                calls |-> <<Grant(role)>>
                    \o (IF status = "inactive" THEN <<Disable>> ELSE <<>>)])
    /\ UNCHANGED <<accounts, deleted>>

-----------------------------------------------------------------------------
(***************************************************************************)
(* modules/identity/routes.ts                                              *)
(***************************************************************************)
Invite(r) ==
    /\ call[r] = Waiting
    /\ \E i \in Ids, email \in Emails, role \in Roles :
          Insert(r, i, email, role, "invited")

ChangeRole(r) ==
    \E i \in Users, role \in Roles :
        /\ call[r] = Waiting
        /\ users' = [users EXCEPT ![i].role = role]
        /\ Proceed(r, users[i].account, <<Grant(role)>>)
        /\ UNCHANGED <<accounts, deleted>>

Activate(r) ==
    \E i \in Users :
        /\ call[r] = Waiting
        /\ users[i].status # "active"
        /\ users' = [users EXCEPT ![i].status = "active"]
        /\ Proceed(r, users[i].account, <<Enable>>)
        /\ UNCHANGED <<accounts, deleted>>

\* By another user than i.
Deactivate(r) ==
    \E i \in Users :
        /\ call[r] = Waiting
        /\ users[i].status # "inactive"
        /\ users' = [users EXCEPT ![i].status = "inactive"]
        /\ Proceed(r, users[i].account, <<Disable>>)
        /\ UNCHANGED <<accounts, deleted>>

Delete(r) ==
    \E i \in Users :
        /\ call[r] = Waiting
        /\ users' = [users EXCEPT ![i] = Null]
        /\ deleted' = deleted \cup {i}
        /\ Proceed(r, users[i].account, <<RemoveAccount>>)
        /\ UNCHANGED accounts

-----------------------------------------------------------------------------
(***************************************************************************)
(* services/scim-provisioning.ts                                           *)
(***************************************************************************)

\* createUser: the first transaction looks for the email.
ScimLookUp(r) ==
    \E email \in Emails, role \in Roles, status \in {"active", "inactive"} :
        /\ call[r] = Waiting
        /\ \A j \in Users : users[j].email # email
        /\ Goto(r, [at |-> "scimInsert", email |-> email, role |-> role,
                    status |-> status])
        /\ UNCHANGED <<users, accounts, deleted>>

\* The second inserts the user; the unique index decides.
ScimInsert(r) ==
    /\ call[r].at = "scimInsert"
    /\ \E i \in Ids :
          Insert(r, i, call[r].email, call[r].role, call[r].status)

\* patchUser: one transaction reads the user, the other updates it.
ScimReadForPatch(r) ==
    \E i \in Users, patch \in Patches :
        /\ call[r] = Waiting
        /\ Goto(r, [at |-> "scimPatch", user |-> i, patch |-> patch,
                    account |-> users[i].account])
        /\ UNCHANGED <<users, accounts, deleted>>

Patched(user, patch) ==
    [email   |-> IF patch.email = Null THEN user.email ELSE patch.email,
     role    |-> IF patch.role = Null THEN user.role ELSE patch.role,
     status  |-> IF patch.status = Null THEN user.status ELSE patch.status,
     account |-> user.account]

\* Mutant: a new role is not passed on.
PatchCallsOnStatus(patch) ==
    CASE patch.status = "active"   -> <<Enable>>
      [] patch.status = "inactive" -> <<Disable>>
      [] patch.status = Null       -> <<>>

PatchCalls(patch) ==
    (CASE patch.status = "active"   -> <<Enable>>
       [] patch.status = "inactive" -> <<Disable>>
       [] patch.status = Null       -> <<>>)
    \o (IF patch.role = Null THEN <<>> ELSE <<Grant(patch.role)>>)

\* Mutant: the update does not mind that the row is gone.
ScimPatchAnyRow(r) ==
    LET i == call[r].user
        patch == call[r].patch
    IN /\ call[r].at = "scimPatch"
       /\ users' = [users EXCEPT ![i] =
             IF @ = Null THEN [status |-> "active"] ELSE Patched(@, patch)]
       /\ Proceed(r, call[r].account, PatchCalls(patch))
       /\ UNCHANGED <<accounts, deleted>>

ScimPatch(r) ==
    LET i == call[r].user
        patch == call[r].patch
    IN /\ call[r].at = "scimPatch"
       /\ i \in Users
       /\ EmailIsFree(patch.email, i)
       /\ users' = [users EXCEPT ![i] = Patched(@, patch)]
       /\ Proceed(r, call[r].account, PatchCalls(patch))
       /\ UNCHANGED <<accounts, deleted>>

\* deactivateUser, likewise.
ScimReadForDelete(r) ==
    \E i \in Users :
        /\ call[r] = Waiting
        /\ Goto(r, [at |-> "scimDelete", user |-> i,
                    account |-> users[i].account])
        /\ UNCHANGED <<users, accounts, deleted>>

\* Mutant: a user that is gone is written back from the copy that was read.
ScimDeleteUpserts(r) ==
    LET i == call[r].user IN
    /\ call[r].at = "scimDelete"
    /\ users' = [users EXCEPT ![i] =
          IF @ # Null THEN [@ EXCEPT !.status = "inactive"]
          ELSE [email |-> CHOOSE e \in Emails : TRUE,
                role |-> CHOOSE role \in Roles : TRUE,
                status |-> "inactive", account |-> call[r].account]]
    /\ Proceed(r, call[r].account, <<Disable>>)
    /\ UNCHANGED <<accounts, deleted>>

ScimDelete(r) ==
    /\ call[r].at = "scimDelete"
    /\ call[r].user \in Users
    /\ users' = [users EXCEPT ![call[r].user].status = "inactive"]
    /\ Proceed(r, call[r].account, <<Disable>>)
    /\ UNCHANGED <<accounts, deleted>>

-----------------------------------------------------------------------------
(***************************************************************************)
(* services/keycloak-admin.ts.  A request needs a valid admin token; any   *)
(* error is logged and swallowed.                                          *)
(***************************************************************************)

\* createUser; the handler goes on with the new id, which it stores nowhere.
CreateAccount(r) ==
    LET name == call[r].email IN
    /\ call[r].at = "account"
    /\ accounts[name] = Null
    /\ accounts' = [accounts EXCEPT ![name] = [enabled |-> TRUE, roles |-> {}]]
    /\ Proceed(r, name, call[r].calls)
    /\ UNCHANGED <<users, deleted>>

\* 409 or an error: the new user gets no account.
NoNewAccount(r) ==
    /\ call[r].at = "account"
    /\ Goto(r, Waiting)
    /\ UNCHANGED <<users, accounts, deleted>>

\* updateUser, assignRealmRole and deleteUser; roles are only added.
AfterCall(account, c) ==
    CASE c.do = "enable"  -> [account EXCEPT !.enabled = TRUE]
      [] c.do = "disable" -> [account EXCEPT !.enabled = FALSE]
      [] c.do = "grant"   -> [account EXCEPT !.roles = @ \cup {c.role}]
      [] c.do = "remove"  -> Null

Sync(r) ==
    LET a == call[r].account IN
    /\ call[r].at = "sync"
    /\ accounts' = IF accounts[a] = Null THEN accounts
          ELSE [accounts EXCEPT ![a] = AfterCall(@, Head(call[r].calls))]
    /\ Proceed(r, a, Tail(call[r].calls))
    /\ UNCHANGED <<users, deleted>>

\* No token, no connection or an error answer: the handler goes on.
SyncFails(r) ==
    /\ call[r].at = "sync"
    /\ Proceed(r, call[r].account, Tail(call[r].calls))
    /\ UNCHANGED <<users, accounts, deleted>>

\* A statement fails, or the process dies.
GiveUp(r) ==
    /\ call[r] # Waiting
    /\ Goto(r, Waiting)
    /\ UNCHANGED <<users, accounts, deleted>>

-----------------------------------------------------------------------------
(***************************************************************************)
(* At first the tenant may have users who were migrated with their active  *)
(* Keycloak accounts.                                                      *)
(***************************************************************************)
ProvisioningInit ==
    /\ \E migrated \in SUBSET Ids : \E email \in [Ids -> Emails], role \in Roles :
          /\ \A i, j \in migrated : email[i] = email[j] => i = j
          /\ users = [i \in Ids |->
                IF i \in migrated
                THEN [email |-> email[i], role |-> role, status |-> "active",
                      account |-> email[i]]
                ELSE Null]
          /\ accounts = [e \in Emails |->
                IF \E i \in migrated : email[i] = e
                THEN [enabled |-> TRUE, roles |-> {role}] ELSE Null]
    /\ call = [r \in Callers |-> Waiting]
    /\ deleted = {}
    /\ disturbed = FALSE

Handle(r) ==
    \/ Invite(r) \/ ChangeRole(r) \/ Activate(r) \/ Deactivate(r) \/ Delete(r)
    \/ ScimLookUp(r) \/ ScimInsert(r) \/ ScimReadForPatch(r) \/ ScimPatch(r)
    \/ ScimReadForDelete(r) \/ ScimDelete(r)
    \/ CreateAccount(r) \/ NoNewAccount(r) \/ Sync(r)

ProvisioningNext ==
    \E r \in Callers :
        \/ /\ Handle(r)
           /\ disturbed' =
                (disturbed \/ \E q \in Callers \ {r} : call[q] # Waiting)
        \/ (SyncFails(r) \/ GiveUp(r)) /\ disturbed' = TRUE

ProvisioningSpec == ProvisioningInit /\ [][ProvisioningNext]_provisioningVars

-----------------------------------------------------------------------------
(***************************************************************************)
(* Properties                                                              *)
(***************************************************************************)

\* Rows, accounts and the locals of the handlers have their types.
ProvisioningTypeOK ==
    /\ users \in [Ids -> User \cup {Null}]
    /\ accounts \in [Emails -> Account \cup {Null}]
    /\ call \in [Callers -> Call]
    /\ deleted \subseteq Ids
    /\ disturbed \in BOOLEAN

\* Invitations, SCIM creations that looked for the email in an earlier
\* transaction and SCIM patches of the email never give two users one email.
EmailsAreUnique ==
    \A i, j \in Users : users[i].email = users[j].email => i = j

Quiet == \A r \in Callers : call[r] = Waiting

\* When no request is in flight, a user with a keycloakId has an account that
\* is enabled exactly if the user is not inactive and that carries the user's
\* role, as long as requests came one at a time and every call reached
\* Keycloak (all handlers of identity and SCIM).
AccountFollowsUser ==
    ~disturbed /\ Quiet =>
        \A i \in Users : users[i].account # Null =>
            LET account == accounts[users[i].account] IN
            /\ account # Null
            /\ account.enabled = (users[i].status # "inactive")
            /\ users[i].role \in account.roles

\* A deleted user does not come back, whatever requests that read the user
\* before are still about to write (patchUser, deactivateUser).
DeletedStaysDeleted == Users \cap deleted = {}

\* No two users have one email, a user's account follows the user as long as
\* requests are not disturbed, and a deleted user does not come back.
UsersAreSound ==
    ProvisioningTypeOK /\ EmailsAreUnique /\ AccountFollowsUser /\ DeletedStaysDeleted
=============================================================================
