------------------------------- MODULE RateLimiter -------------------------------
(***************************************************************************)
(* createRateLimiter of middleware/rate-limit.ts: per client a sliding     *)
(* window of the requests that were let through, pruned at every request   *)
(* and by a timer.                                                         *)
(*                                                                         *)
(* Time stamps are kept as the time that has passed since.                 *)
(***************************************************************************)
EXTENDS Naturals, Sequences, Subsequences

CONSTANTS
    Clients,                \* keys: address and tenant
    WindowLength, MaxRequests, PruneInterval,
    NoEntry                 \* not a key of the store

ASSUME LimiterLimits == {WindowLength, MaxRequests, PruneInterval} \subseteq Nat \ {0}
ASSUME NoEntryIsNoList == NoEntry \notin Seq(Nat)

VARIABLES
    store,                  \* client -> ages of its requests, oldest first
    sincePrune,             \* time since the clean-up
    lately                  \* history: ages of the requests passed to next()

limiterVars == <<store, sincePrune, lately>>

InWindow(ages) == Picked(ages, {i \in DOMAIN ages : ages[i] < WindowLength})

OneOlder(ages) == [i \in DOMAIN ages |-> ages[i] + 1]

\* Mutant: a time stamp leaves the window one unit early.
RecentEarly(c) == IF store[c] = NoEntry THEN <<>> ELSE
    Picked(store[c], {i \in DOMAIN store[c] : store[c][i] < WindowLength - 1})
Recent(c) == IF store[c] = NoEntry THEN <<>> ELSE InWindow(store[c])

\* Mutant: one request too many.
PassOneMore(c) ==
    /\ Len(Recent(c)) <= MaxRequests
    /\ store' = [store EXCEPT ![c] = Append(Recent(c), 0)]
    /\ lately' = [lately EXCEPT ![c] = Append(@, 0)]
    /\ UNCHANGED sincePrune

Pass(c) ==
    /\ Len(Recent(c)) < MaxRequests
    /\ store' = [store EXCEPT ![c] = Append(Recent(c), 0)]
    /\ lately' = [lately EXCEPT ![c] = Append(@, 0)]
    /\ UNCHANGED sincePrune

\* 429; the Retry-After header is the time until the oldest one leaves.
TooMany(c) ==
    /\ Len(Recent(c)) >= MaxRequests
    /\ store' = [store EXCEPT ![c] = Recent(c)]
    /\ UNCHANGED <<sincePrune, lately>>

Prune ==
    /\ sincePrune = PruneInterval
    /\ sincePrune' = 0
    /\ store' = [c \in Clients |->
          IF Recent(c) = <<>> THEN NoEntry ELSE Recent(c)]
    /\ UNCHANGED lately

LimiterTick ==
    /\ sincePrune < PruneInterval
    /\ sincePrune' = sincePrune + 1
    /\ store' = [c \in Clients |->
          IF store[c] = NoEntry THEN NoEntry ELSE OneOlder(store[c])]
    /\ lately' = [c \in Clients |-> InWindow(OneOlder(lately[c]))]

LimiterInit ==
    /\ store = [c \in Clients |-> NoEntry]
    /\ sincePrune = 0
    /\ lately = [c \in Clients |-> <<>>]

LimiterNext ==
    \/ \E c \in Clients : Pass(c) \/ TooMany(c)
    \/ Prune
    \/ LimiterTick

LimiterSpec == LimiterInit /\ [][LimiterNext]_limiterVars

-----------------------------------------------------------------------------
\* The store and the clock have their types; no entry outlives the window by
\* more than the interval of the clean-up.
LimiterTypeOK ==
    /\ \A c \in Clients :
          /\ store[c] # NoEntry =>
                /\ store[c] \in Seq(0 .. WindowLength + PruneInterval)
                /\ Len(store[c]) <= MaxRequests
          /\ lately[c] \in Seq(0 .. WindowLength - 1)
          /\ Len(lately[c]) <= MaxRequests
    /\ sincePrune \in 0 .. PruneInterval

\* In no window do more requests of a client pass than the limiter admits,
\* and one is refused only when that many did pass in the window before it,
\* whatever the pruning has removed in between.
AtMostMaxPerWindow ==
    \A c \in Clients :
        /\ Len(lately[c]) <= MaxRequests
        /\ Len(Recent(c)) = Len(lately[c])

\* No client passes more often in a window than the limiter admits, none is
\* refused for less, and the clean-up leaves nothing old behind.
LimiterIsSound == LimiterTypeOK /\ AtMostMaxPerWindow
=============================================================================
