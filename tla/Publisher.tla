----------------------------- MODULE Publisher -----------------------------
(***************************************************************************)
(* The publisher of an API process (src/src/core/rabbitmq_publisher.py):   *)
(* one connection and one channel kept in globals and used again for every *)
(* event, and publish_event, which tries an event twice.                   *)
(*                                                                         *)
(* A connection can be lost without the process noticing: is_closed stays  *)
(* False until something is written to it.  Connections are numbered as    *)
(* they are opened; live says which of them the broker still has.          *)
(***************************************************************************)
EXTENDS Integers, Sequences, FiniteSets

CONSTANTS
    Event,         \* the events to publish: transaction.created, genesis.created
    NoEvent,
    MaxConnections,\* bound: connections opened
    MaxOutages     \* bound: times the broker or the network goes down

ASSUME PublisherAssumption ==
    NoEvent \notin Event /\ MaxConnections \in Nat /\ MaxOutages \in Nat

NoConnection == 0

VARIABLES
    connection,    \* global _connection: number, and is_closed as the client sees it
    channel,       \* global _channel: number of its connection, and is_closed
    opened,        \* connections opened so far
    live,          \* the connection that works, or NoConnection
    up,            \* the broker can be reached
    outages,       \* outages so far
    publish,       \* the event publish_event is at, the attempt and the step
    lost,          \* a connection was lost, or the broker down, during this event (history)
    received,      \* copies of each event the broker got (history)
    outcome        \* how publish_event ended for each event (history)

resourceVars == <<connection, channel, opened, live>>
vars == <<connection, channel, opened, live, up, outages, publish, lost, received, outcome>>

Absent == [id |-> NoConnection, is_closed |-> FALSE]
Usable(r) == r # Absent /\ ~r.is_closed

NotPublishing == [pc |-> "idle", event |-> NoEvent, attempt |-> 0]

Init ==
    /\ connection = Absent /\ channel = Absent
    /\ opened = 0 /\ live = NoConnection
    /\ up = TRUE /\ outages = 0
    /\ publish = NotPublishing
    /\ lost = FALSE
    /\ received = [e \in Event |-> 0]
    /\ outcome = [e \in Event |-> "none"]

-----------------------------------------------------------------------------
(* The broker and the network. *)

\* The connection is lost.  pika sees it at once, or not before the next write.
Drop ==
    /\ outages < MaxOutages
    /\ live # NoConnection
    /\ live' = NoConnection
    /\ outages' = outages + 1
    /\ up' \in BOOLEAN
    /\ lost' = TRUE
    /\ \/ UNCHANGED <<connection, channel>>
       \/ /\ connection' = [connection EXCEPT !.is_closed = connection # Absent]
          /\ channel' = [channel EXCEPT !.is_closed = channel # Absent]
    /\ UNCHANGED <<opened, publish, received, outcome>>

\* The broker closes the channel and keeps the connection (a channel error).
CloseChannel ==
    /\ outages < MaxOutages
    /\ Usable(channel) /\ live = channel.id
    /\ publish = NotPublishing
    /\ channel' = [channel EXCEPT !.is_closed = TRUE]
    /\ outages' = outages + 1
    /\ UNCHANGED <<connection, opened, live, up, publish, lost, received, outcome>>

BrokerReturns ==
    /\ ~up
    /\ up' = TRUE
    /\ UNCHANGED <<resourceVars, outages, publish, lost, received, outcome>>

-----------------------------------------------------------------------------
(* publish_event. *)

At(pc) == publish' = [publish EXCEPT !.pc = pc]

Begin(e) ==
    /\ publish = NotPublishing
    /\ outcome[e] = "none"
    /\ publish' = [pc |-> "connect", event |-> e, attempt |-> 1]
    /\ lost' = ~up
    /\ UNCHANGED <<resourceVars, up, outages, received, outcome>>

Finish(result) ==
    /\ outcome' = [outcome EXCEPT ![publish.event] = result]
    /\ publish' = NotPublishing

\* Mutant: the globals are kept after an error.
ResetNothing == UNCHANGED <<connection, channel, live>>

\* Mutant: the channel outlives its connection.
ResetConnectionAlone ==
    /\ connection' = Absent
    /\ live' = NoConnection
    /\ UNCHANGED channel

\* _reset_connection: both are closed and forgotten.
ResetConnection ==
    /\ connection' = Absent
    /\ channel' = Absent
    /\ live' = NoConnection

\* Mutant: it retries until it succeeds.
AttemptFailsForever ==
    /\ ResetConnection
    /\ publish' = [publish EXCEPT !.pc = "connect"]
    /\ UNCHANGED <<opened, outcome>>

\* Mutant: one attempt too many.
AttemptFailsThrice ==
    /\ ResetConnection
    /\ IF publish.attempt <= 2
       THEN /\ publish' = [publish EXCEPT !.pc = "connect", !.attempt = @ + 1]
            /\ UNCHANGED outcome
       ELSE Finish("raised")
    /\ UNCHANGED opened

\* An AMQPError or an OSError: reset, then the second attempt or the raise.
AttemptFails ==
    /\ ResetConnection
    /\ IF publish.attempt = 1
       THEN /\ publish' = [publish EXCEPT !.pc = "connect", !.attempt = 2]
            /\ UNCHANGED outcome
       ELSE Finish("raised")
    /\ UNCHANGED opened

\* get_rabbitmq_channel with an open channel.
ReuseChannel ==
    /\ publish.pc = "connect"
    /\ Usable(channel)
    /\ At("write")
    /\ UNCHANGED <<resourceVars, up, outages, lost, received, outcome>>

\* get_rabbitmq_connection with an open connection, else a new one; then the channel
\* and its exchange, which are written to the connection.
OpenChannel ==
    LET id == IF Usable(connection) THEN connection.id ELSE opened + 1
        works == IF Usable(connection) THEN live = id ELSE up
    IN
    /\ publish.pc = "connect"
    /\ ~Usable(channel)
    /\ opened < MaxConnections
    /\ IF works
       THEN /\ connection' = [id |-> id, is_closed |-> FALSE]
            /\ channel' = [id |-> id, is_closed |-> FALSE]
            /\ opened' = IF id > opened THEN id ELSE opened
            /\ live' = id
            /\ At("write")
            /\ UNCHANGED outcome
       ELSE AttemptFails
    /\ UNCHANGED <<up, outages, lost, received>>

\* basic_publish on a connection that works.  There are no publisher confirms: the call
\* returns when the bytes are written, and the broker has the event, or the connection
\* breaks under it and nobody is told.
WriteReturns ==
    LET e == publish.event IN
    /\ publish.pc = "write"
    /\ live = channel.id
    /\ received' = [received EXCEPT ![e] = @ + 1]
    /\ Finish("returned")
    /\ UNCHANGED <<resourceVars, up, outages, lost>>

\* The same on a connection that is gone: the error comes now, or with the next write.
WriteOnLost ==
    /\ publish.pc = "write"
    /\ live # channel.id
    /\ \/ AttemptFails
       \/ Finish("returned") /\ UNCHANGED resourceVars
    /\ UNCHANGED <<up, outages, lost, received>>

\* The broker got the event but the error reached the client first: a second copy.
WriteFailsAfterDelivery ==
    LET e == publish.event IN
    /\ publish.pc = "write"
    /\ live = channel.id
    /\ outages < MaxOutages
    /\ outages' = outages + 1
    /\ lost' = TRUE
    /\ received' = [received EXCEPT ![e] = @ + 1]
    /\ AttemptFails
    /\ UNCHANGED up

-----------------------------------------------------------------------------
Next ==
    \/ Drop \/ CloseChannel \/ BrokerReturns
    \/ \E e \in Event : Begin(e)
    \/ ReuseChannel \/ OpenChannel
    \/ WriteReturns \/ WriteOnLost \/ WriteFailsAfterDelivery

\* pika's calls return or raise within its timeouts.
Fairness == WF_vars(ReuseChannel \/ OpenChannel \/ WriteReturns \/ WriteOnLost)

Spec == Init /\ [][Next]_vars /\ Fairness

-----------------------------------------------------------------------------
\* The channel in use belongs to the connection in use: a reset never leaves one of the
\* two behind, and a new connection never keeps the channel of the old one.
ChannelOfConnection == Usable(channel) => channel.id = connection.id

\* A connection lost while nothing was being published costs no event by itself: when
\* the broker stays up during the call, publish_event never raises.
StaleConnectionSurvived ==
    [][\A e \in Event :
          outcome[e] = "none" /\ outcome'[e] = "raised" => lost']_vars

\* publish_event is an EventBus: whatever the connections do, its two attempts leave two
\* copies at most, none after the call has ended.
Bus == INSTANCE EventBus WITH current <- publish.event
ImplementsEventBus == Bus!Spec

\* A call ends, even when the broker never comes back; its caller is the event loop.
EventuallyEnds == \A e \in Event : publish.event = e ~> outcome[e] # "none"
=============================================================================
