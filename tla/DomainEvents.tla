------------------------------ MODULE DomainEvents ------------------------------
(***************************************************************************)
(* The event bus of a process (packages/shared/src/event-bus.ts) and the   *)
(* consumer that writes its events to the audit log                        *)
(* (apps/api/src/events/audit-consumer.ts).                                *)
(*                                                                         *)
(* publish takes the handlers of the event's type as they are and starts   *)
(* each; they end one by one, in any order, while handlers come and go.    *)
(* When the last has ended the errors are counted.  The audit consumer     *)
(* has a mapping for every type and hands its own errors on.               *)
(***************************************************************************)
EXTENDS Naturals, FiniteSets

CONSTANTS
    EventTypes,             \* DomainEventType
    Handlers,               \* handlers of other modules
    Audit,                  \* handleDomainEvent
    Publications            \* bound: calls of publish

ASSUME BusIsFinite == /\ IsFiniteSet(EventTypes) /\ IsFiniteSet(Handlers)
                      /\ IsFiniteSet(Publications)
ASSUME AuditIsNoOther == Audit \notin Handlers

Subscribers == Handlers \cup {Audit}

VARIABLES
    handlers,               \* type -> the set of its handlers
    handlerCount, errorCount,
    registered,             \* of audit-consumer.ts
    publication             \* call -> who was to hear of it, who has ended, who
                            \* threw, and whether publish is over

busVars == <<handlers, handlerCount, errorCount, registered, publication>>

NoEvent == [settled |-> FALSE]
Published(p) == publication[p] # NoEvent
Subscriptions(who) == {t \in EventTypes : who \in handlers[t]}

-----------------------------------------------------------------------------
\* Mutant: a second subscription counts again.
SubscribedAgain(who, types) ==
    /\ handlers' = [t \in EventTypes |->
          IF t \in types THEN handlers[t] \cup {who} ELSE handlers[t]]
    /\ handlerCount' = handlerCount + Cardinality(types)
\* subscribe of one handler for some types; a second time it does nothing.
Subscribed(who, types) ==
    /\ handlers' = [t \in EventTypes |->
          IF t \in types THEN handlers[t] \cup {who} ELSE handlers[t]]
    /\ handlerCount' = handlerCount + Cardinality(types \ Subscriptions(who))

Unsubscribed(who, types) ==
    /\ handlers' = [t \in EventTypes |->
          IF t \in types THEN handlers[t] \ {who} ELSE handlers[t]]
    /\ handlerCount' = handlerCount - Cardinality(types \cap Subscriptions(who))

Subscribe(h, t) ==
    /\ Subscribed(h, {t})
    /\ UNCHANGED <<errorCount, registered, publication>>

Unsubscribe(h, t) ==
    /\ Unsubscribed(h, {t})
    /\ UNCHANGED <<errorCount, registered, publication>>

\* registerAuditConsumer and unregisterAuditConsumer
Register ==
    /\ ~registered /\ registered' = TRUE
    /\ Subscribed(Audit, EventTypes)
    /\ UNCHANGED <<errorCount, publication>>

Unregister ==
    /\ registered /\ registered' = FALSE
    /\ Unsubscribed(Audit, EventTypes)
    /\ UNCHANGED <<errorCount, publication>>

-----------------------------------------------------------------------------
\* publish up to its await; without handlers it is over.
Publish(p, t) ==
    /\ ~Published(p)
    /\ publication' = [publication EXCEPT ![p] =
          [heard |-> handlers[t], ended |-> {}, failed |-> {},
           settled |-> handlers[t] = {}, audited |-> registered]]
    /\ UNCHANGED <<handlers, handlerCount, errorCount, registered>>

\* A handler ends, or throws.
HandlerEnds(p, h) ==
    /\ Published(p) /\ h \in publication[p].heard \ publication[p].ended
    /\ \/ publication' = [publication EXCEPT ![p].ended = @ \cup {h}]
       \/ publication' = [publication EXCEPT ![p].ended = @ \cup {h},
                                             ![p].failed = @ \cup {h}]
    /\ UNCHANGED <<handlers, handlerCount, errorCount, registered>>

\* Mutant: the first error ends the call (Promise.all).
SettleAtError(p) ==
    /\ Published(p) /\ ~publication[p].settled
    /\ publication[p].failed # {} \/ publication[p].ended = publication[p].heard
    /\ publication' = [publication EXCEPT ![p].settled = TRUE]
    /\ errorCount' = errorCount + Cardinality(publication[p].failed)
    /\ UNCHANGED <<handlers, handlerCount, registered>>

\* The promises are settled, the errors counted and publish is over.
Settle(p) ==
    /\ Published(p) /\ ~publication[p].settled
    /\ publication[p].ended = publication[p].heard
    /\ publication' = [publication EXCEPT ![p].settled = TRUE]
    /\ errorCount' = errorCount + Cardinality(publication[p].failed)
    /\ UNCHANGED <<handlers, handlerCount, registered>>

-----------------------------------------------------------------------------
BusInit ==
    /\ handlers = [t \in EventTypes |-> {}]
    /\ handlerCount = 0 /\ errorCount = 0
    /\ registered = FALSE
    /\ publication = [p \in Publications |-> NoEvent]

BusNext ==
    \/ Register \/ Unregister
    \/ \E t \in EventTypes :
          \/ \E h \in Handlers : Subscribe(h, t) \/ Unsubscribe(h, t)
          \/ \E p \in Publications : Publish(p, t)
    \/ \E p \in Publications :
          Settle(p) \/ \E h \in Subscribers : HandlerEnds(p, h)

-----------------------------------------------------------------------------
\* getStats: handlerCount is the number of subscriptions, however often one
\* subscribes or unsubscribes.
BusTypeOK ==
    /\ handlers \in [EventTypes -> SUBSET Subscribers]
    /\ handlerCount = Cardinality({s \in EventTypes \X Subscribers : s[2] \in handlers[s[1]]})
    /\ errorCount \in Nat
    /\ registered \in BOOLEAN

\* An event that is published while the audit consumer is registered has been
\* through it once publish is over, whatever other handlers did and even if
\* the consumer was unregistered meanwhile.
EventsAreAudited ==
    \A p \in Publications :
        publication[p].settled /\ publication[p].audited =>
            Audit \in publication[p].ended

\* Every error of every handler is counted once, when publish ends.
ErrorsCounted ==
    LET errors == {e \in Publications \X Subscribers :
                      publication[e[1]].settled /\ e[2] \in publication[e[1]].failed}
    IN  errorCount = Cardinality(errors)

\* The counters of the bus are right, every error is counted once, and an event
\* published while the audit consumer is registered goes through it.
EventsAreSound == BusTypeOK /\ EventsAreAudited /\ ErrorsCounted
=============================================================================
