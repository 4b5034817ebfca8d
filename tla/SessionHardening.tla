---------------------------- MODULE SessionHardening ----------------------------
(***************************************************************************)
(* The sessions that an API process keeps in memory                        *)
(* (middleware/session-hardening.ts).  A request runs through              *)
(* sessionHardening, concurrentSessionCheck and idleTimeoutCheck, in the   *)
(* order their comments ask for and in one go; requests, logouts and the   *)
(* clean-up timer interleave.                                              *)
(*                                                                         *)
(* The id of a session is what the client sends, or 'default-session',     *)
(* which users share: authenticate sets no jwtPayload to take it from.     *)
(* Ages of sessions are counted up to the largest one that is compared.    *)
(***************************************************************************)
EXTENDS Naturals, FiniteSets

CONSTANTS
    People,
    Sessions,
    SessionsOf,             \* the ids the requests of a user carry
    Divided,                \* ids that split(':') takes apart
    IdleTimeout, CleanupInterval, MaxSessions,
    Untracked               \* not a key of lastActiveMap

ASSUME SessionsAreIds == /\ SessionsOf \in [People -> SUBSET Sessions]
                         /\ Divided \subseteq Sessions
ASSUME TimesAreLimits ==
    {IdleTimeout, CleanupInterval, MaxSessions} \subseteq Nat \ {0}
ASSUME UntrackedIsNoAge == Untracked \notin Nat

VARIABLES
    lastActive,             \* lastActiveMap: user, session -> time since
    userSessions,           \* userSessionsMap: user -> ids
    invalidated,            \* invalidatedSessions
    sinceCleanup            \* time since cleanupTimer fired

sessionVars == <<lastActive, userSessions, invalidated, sinceCleanup>>

Keys == People \X Sessions
Oldest == 2 * IdleTimeout + CleanupInterval + 1
Tracked == {k \in Keys : lastActive[k] # Untracked}

\* Mutant: only the time stamp is forgotten.
ForgetTime(u, ids) ==
    /\ lastActive' = [k \in Keys |->
          IF k[1] = u /\ k[2] \in ids THEN Untracked ELSE lastActive[k]]
    /\ UNCHANGED userSessions

\* Both maps forget the sessions ids of user u.
Forget(u, ids) ==
    /\ lastActive' = [k \in Keys |->
          IF k[1] = u /\ k[2] \in ids THEN Untracked ELSE lastActive[k]]
    /\ userSessions' = [userSessions EXCEPT ![u] = @ \ ids]

-----------------------------------------------------------------------------
(***************************************************************************)
(* A request of user u in session s.                                       *)
(***************************************************************************)
Refuse == UNCHANGED sessionVars

\* sessionHardening registers the session; what the other two see of it is
\* its new time stamp and its membership.
Registered(u, s) == [lastActive EXCEPT ![<<u, s>>] = 0]
Members(u, s) == userSessions[u] \cup {s}

OverLimit(u, s) == /\ Cardinality(Members(u, s)) > MaxSessions
                   /\ s \notin Members(u, s)
Idle(u, s) == Registered(u, s)[<<u, s>>] > IdleTimeout

Admit(u, s) ==
    /\ lastActive' = Registered(u, s)
    /\ userSessions' = [userSessions EXCEPT ![u] = Members(u, s)]
    /\ UNCHANGED <<invalidated, sinceCleanup>>

\* Mutant: a session that was logged out is registered again.
HandleUnchecked(u, s) == s \in SessionsOf[u] /\ Admit(u, s)

\* The refusals of the last two checks would be disjuncts of their own, if
\* OverLimit or Idle could be true at this point.
HandleRequest(u, s) ==
    /\ s \in SessionsOf[u]
    /\ \/ s \in invalidated /\ Refuse
       \/ /\ s \notin invalidated
          /\ ~OverLimit(u, s) /\ ~Idle(u, s)
          /\ Admit(u, s)

-----------------------------------------------------------------------------
Invalidate(u, ids) ==
    /\ Forget(u, ids)
    /\ invalidated' = invalidated \cup ids
    /\ UNCHANGED sinceCleanup

\* logoutHandler; the call of Keycloak is not implemented.
Logout(u) == \E s \in SessionsOf[u] : Invalidate(u, {s})

\* backchannelLogoutHandler with and without a sid.
BackchannelLogout(u) ==
    \/ \E s \in SessionsOf[u] : Invalidate(u, {s})
    \/ Invalidate(u, userSessions[u])

-----------------------------------------------------------------------------
(***************************************************************************)
(* cleanupTimer.  The key of an entry is split into user and session at    *)
(* its colons, so that of an id with a colon only a part is removed.       *)
(***************************************************************************)
\* Mutant: the cutoff is one timeout too late.
StaleLate == {k \in Tracked : lastActive[k] > 3 * IdleTimeout}
Stale == {k \in Tracked : lastActive[k] > 2 * IdleTimeout}

Cleanup ==
    /\ sinceCleanup = CleanupInterval
    /\ sinceCleanup' = 0
    /\ lastActive' = [k \in Keys |->
          IF k \in Stale THEN Untracked ELSE lastActive[k]]
    /\ userSessions' = [u \in People |->
          {s \in userSessions[u] : s \in Divided \/ <<u, s>> \notin Stale}]
    /\ UNCHANGED invalidated

\* Mutant: the timer is not set.
TickForever ==
    /\ sinceCleanup' = sinceCleanup + 1
    /\ lastActive' = [k \in Keys |->
          IF k \notin Tracked \/ lastActive[k] = Oldest
          THEN lastActive[k] ELSE lastActive[k] + 1]
    /\ UNCHANGED <<userSessions, invalidated>>

\* Time passes; a timer that is due comes first.
SessionTick ==
    /\ sinceCleanup < CleanupInterval
    /\ sinceCleanup' = sinceCleanup + 1
    /\ lastActive' = [k \in Keys |->
          IF k \notin Tracked \/ lastActive[k] = Oldest
          THEN lastActive[k] ELSE lastActive[k] + 1]
    /\ UNCHANGED <<userSessions, invalidated>>

-----------------------------------------------------------------------------
SessionsInit ==
    /\ lastActive = [k \in Keys |-> Untracked]
    /\ userSessions = [u \in People |-> {}]
    /\ invalidated = {}
    /\ sinceCleanup = 0

SessionsNext ==
    \/ \E u \in People :
          \/ \E s \in Sessions : HandleRequest(u, s)
          \/ Logout(u) \/ BackchannelLogout(u)
    \/ Cleanup
    \/ SessionTick

SessionsSpec == SessionsInit /\ [][SessionsNext]_sessionVars

-----------------------------------------------------------------------------
(***************************************************************************)
(* Properties                                                              *)
(***************************************************************************)

\* The maps have their types.
SessionsTypeOK ==
    /\ lastActive \in [Keys -> (0 .. Oldest) \cup {Untracked}]
    /\ userSessions \in [People -> SUBSET Sessions]
    /\ invalidated \subseteq Sessions
    /\ sinceCleanup \in 0 .. CleanupInterval

\* The two maps know the same sessions after any mix of requests, logouts and
\* clean-ups, ids that the clean-up cannot split excepted: those stay members
\* of their user's set.
TrackedTogether ==
    \A u \in People, s \in Sessions :
        /\ <<u, s>> \in Tracked => s \in userSessions[u]
        /\ s \in userSessions[u] => <<u, s>> \in Tracked \/ s \in Divided

\* A session that was logged out is in neither map, if the id is not shared
\* (sessionHardening after logoutHandler and backchannelLogoutHandler).
LoggedOutIsForgotten ==
    \A u \in People, s \in invalidated :
        s \in userSessions[u] =>
            \E v \in People \ {u} : s \in SessionsOf[v]

\* No entry gets older than the clean-up promises: twice the idle timeout and
\* the time until the next clean-up.
KeptForTwiceIdle ==
    \A k \in Tracked : lastActive[k] <= 2 * IdleTimeout + CleanupInterval

\* The stores agree on the sessions there are, forget one that is logged out,
\* and keep none longer than the clean-up promises.
SessionsAreSound ==
    SessionsTypeOK /\ TrackedTogether /\ LoggedOutIsForgotten /\ KeptForTwiceIdle
=============================================================================
