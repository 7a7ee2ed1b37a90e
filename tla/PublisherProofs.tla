-------------------------- MODULE PublisherProofs --------------------------
(***************************************************************************)
(* Proofs about Publisher, for every set of events and every bound on      *)
(* connections and outages: the two globals stay together, a stale         *)
(* connection alone never makes publish_event raise, and the call is an    *)
(* EventBus.                                                               *)
(***************************************************************************)
EXTENDS Publisher, TLAPS

Resource == [id : Nat, is_closed : BOOLEAN]

TypeOK ==
    /\ connection \in Resource /\ channel \in Resource
    /\ opened \in Nat /\ live \in Nat
    /\ publish \in [pc : {"idle", "connect", "write"}, event : Event \cup {NoEvent}, attempt : 0..2]
    /\ received \in [Event -> Nat]
    /\ outcome \in [Event -> {"none", "returned", "raised"}]

\* An event has the copies its attempts so far can have left: none before its call and
\* in its first attempt, one at most in the second.
CopiesSoFar ==
    /\ publish.pc = "idle" <=> publish.event = NoEvent
    /\ publish.pc = "idle" => publish = NotPublishing
    /\ publish.pc # "idle" =>
          /\ outcome[publish.event] = "none"
          /\ publish.attempt \in 1..2
          /\ received[publish.event] < publish.attempt
    /\ \A e \in Event : outcome[e] = "none" /\ publish.event # e => received[e] = 0

\* While nothing was lost since the call began, its second attempt starts without
\* connection and channel, and writes to a channel that works.
FreshSecond ==
    publish.pc # "idle" /\ ~lost =>
        /\ up
        /\ publish.attempt = 2 /\ publish.pc = "connect" => connection = Absent /\ channel = Absent
        /\ publish.attempt = 2 /\ publish.pc = "write" => live = channel.id

IInv == TypeOK /\ CopiesSoFar /\ FreshSecond /\ ChannelOfConnection

-----------------------------------------------------------------------------
\* How an attempt that fails leaves the call.
LEMMA FailureEffect ==
    ASSUME TypeOK, CopiesSoFar, publish.pc # "idle", AttemptFails
    PROVE  /\ connection' = Absent /\ channel' = Absent /\ live' = NoConnection
           /\ UNCHANGED opened
           /\ \/ /\ publish.attempt = 1 /\ UNCHANGED outcome
                 /\ publish' = [pc |-> "connect", event |-> publish.event, attempt |-> 2]
              \/ /\ publish.attempt = 2 /\ publish' = NotPublishing
                 /\ outcome' = [outcome EXCEPT ![publish.event] = "raised"]
  <1>1. connection' = Absent /\ channel' = Absent /\ live' = NoConnection /\ UNCHANGED opened
    BY DEF AttemptFails, ResetConnection
  <1>2. publish.attempt \in {1, 2}
    BY DEF CopiesSoFar
  <1>3. CASE publish.attempt = 1
    BY <1>1, <1>3 DEF AttemptFails, TypeOK
  <1>4. CASE publish.attempt = 2
    BY <1>1, <1>4 DEF AttemptFails, Finish
  <1>. QED
    BY <1>2, <1>3, <1>4

\* The steps of the environment leave the call and its outcome alone.
LEMMA EnvironmentEffect ==
    ASSUME IInv, Drop \/ CloseChannel \/ BrokerReturns
    PROVE  IInv'
  <1>1. UNCHANGED <<publish, received, outcome, opened>>
    BY DEF Drop, CloseChannel, BrokerReturns, resourceVars
  <1>2. /\ connection' \in Resource /\ channel' \in Resource /\ live' \in Nat
        /\ ChannelOfConnection'
    <2>1. CASE UNCHANGED <<connection, channel>>
      <3>1. live' \in Nat
        BY DEF Drop, CloseChannel, BrokerReturns, resourceVars, IInv, TypeOK, NoConnection
      <3>. QED
        BY <2>1, <3>1 DEF IInv, TypeOK, ChannelOfConnection, Usable
    <2>2. CASE CloseChannel
      <3>1. channel' = [channel EXCEPT !.is_closed = TRUE] /\ UNCHANGED <<connection, live>>
        BY <2>2 DEF CloseChannel
      <3>. QED
        BY <3>1 DEF IInv, TypeOK, Resource, ChannelOfConnection, Usable
    <2>3. CASE /\ live' = NoConnection
               /\ connection' = [connection EXCEPT !.is_closed = connection # Absent]
               /\ channel' = [channel EXCEPT !.is_closed = channel # Absent]
      <3>1. (connection # Absent) \in BOOLEAN /\ (channel # Absent) \in BOOLEAN
        OBVIOUS
      <3>2. connection' \in Resource /\ channel' \in Resource
        BY <2>3, <3>1 DEF IInv, TypeOK, Resource
      <3>3. CASE channel = Absent
        <4>1. channel'.is_closed = FALSE /\ channel'.id = channel.id
          BY <2>3, <3>3 DEF IInv, TypeOK, Resource
        <4>2. channel' = Absent
          BY <3>2, <3>3, <4>1 DEF Absent, Resource
        <4>. QED
          BY <2>3, <3>2, <4>2 DEF ChannelOfConnection, Usable, NoConnection
      <3>4. CASE channel # Absent
        <4>1. channel'.is_closed = TRUE
          BY <2>3, <3>4 DEF IInv, TypeOK, Resource
        <4>. QED
          BY <2>3, <3>2, <4>1 DEF ChannelOfConnection, Usable, NoConnection
      <3>. QED
        BY <3>3, <3>4
    <2>. QED
      BY <2>1, <2>2, <2>3 DEF Drop, BrokerReturns, resourceVars
  <1>3. CopiesSoFar'
    BY <1>1 DEF IInv, CopiesSoFar, NotPublishing
  <1>4. FreshSecond'
    BY <1>1
       DEF Drop, CloseChannel, BrokerReturns, resourceVars, IInv, FreshSecond, NotPublishing
  <1>. QED
    BY <1>1, <1>2, <1>3, <1>4 DEF IInv, TypeOK

LEMMA BeginStep ==
    ASSUME IInv, NEW e \in Event, Begin(e)
    PROVE  IInv'
  <1>1. /\ publish' = [pc |-> "connect", event |-> e, attempt |-> 1]
        /\ e # NoEvent /\ received[e] = 0 /\ outcome[e] = "none"
        /\ UNCHANGED <<resourceVars, received, outcome>>
    BY PublisherAssumption DEF Begin, NotPublishing, IInv, CopiesSoFar
  <1>2. ~lost' => up'
    BY DEF Begin
  <1>3. TypeOK' /\ ChannelOfConnection'
    BY <1>1 DEF IInv, TypeOK, ChannelOfConnection, Usable, resourceVars
  <1>4. CopiesSoFar'
    <2>1. publish.event = NoEvent /\ publish.pc = "idle"
      BY DEF Begin, NotPublishing
    <2>2. \A d \in Event \ {e} : outcome'[d] = "none" => received'[d] = 0
      BY <1>1, <2>1, PublisherAssumption DEF IInv, CopiesSoFar
    <2>. QED
      BY <1>1, <2>2 DEF CopiesSoFar
  <1>5. FreshSecond'
    BY <1>1, <1>2 DEF FreshSecond
  <1>. QED
    BY <1>3, <1>4, <1>5 DEF IInv

\* The attempt reaches its write: with the channel that was open, or with a new one.
LEMMA ReachWrite ==
    ASSUME IInv, publish.pc = "connect", At("write"),
           UNCHANGED <<up, lost, received, outcome>>,
           \/ Usable(channel) /\ UNCHANGED resourceVars
           \/ /\ connection' \in Resource /\ channel' \in Resource
              /\ opened' \in Nat /\ live' \in Nat
              /\ channel'.id = connection'.id /\ live' = channel'.id
    PROVE  IInv'
  <1>1. publish' = [publish EXCEPT !.pc = "write"] /\ publish'.pc = "write"
        /\ publish'.event = publish.event /\ publish'.attempt = publish.attempt
    BY DEF At, IInv, TypeOK
  <1>2. TypeOK' /\ ChannelOfConnection'
    BY <1>1 DEF IInv, TypeOK, ChannelOfConnection, Usable, resourceVars
  <1>3. CopiesSoFar'
    BY <1>1 DEF IInv, CopiesSoFar
  <1>4. FreshSecond'
    BY <1>1 DEF IInv, FreshSecond, Usable, resourceVars
  <1>. QED
    BY <1>2, <1>3, <1>4 DEF IInv

\* The attempt fails, with or without a copy left behind.
LEMMA FailStep ==
    ASSUME IInv, publish.pc # "idle", AttemptFails, UNCHANGED up,
           \/ UNCHANGED received
           \/ received' = [received EXCEPT ![publish.event] = @ + 1],
           lost' \/ UNCHANGED lost
    PROVE  IInv'
  <1>. DEFINE e == publish.event
  <1>1. e \in Event /\ received[e] \in Nat /\ publish.attempt \in 1..2
        /\ received[e] < publish.attempt /\ outcome[e] = "none"
    BY DEF IInv, TypeOK, CopiesSoFar
  <1>2. /\ connection' = Absent /\ channel' = Absent /\ live' = NoConnection
        /\ UNCHANGED opened
    BY FailureEffect DEF IInv
  <1>3. /\ received' \in [Event -> Nat] /\ received'[e] \in Nat /\ received'[e] <= received[e] + 1
        /\ \A d \in Event \ {e} : received'[d] = received[d]
    BY <1>1 DEF IInv, TypeOK
  <1>4. CASE /\ publish.attempt = 1 /\ UNCHANGED outcome
             /\ publish' = [pc |-> "connect", event |-> e, attempt |-> 2]
    BY <1>1, <1>2, <1>3, <1>4, PublisherAssumption
       DEF IInv, TypeOK, Resource, Absent, NoConnection, CopiesSoFar, FreshSecond,
           ChannelOfConnection, Usable
  <1>5. CASE /\ publish.attempt = 2 /\ publish' = NotPublishing
             /\ outcome' = [outcome EXCEPT ![e] = "raised"]
    BY <1>1, <1>2, <1>3, <1>5
       DEF IInv, TypeOK, Resource, Absent, NoConnection, NotPublishing, CopiesSoFar,
           FreshSecond, ChannelOfConnection, Usable
  <1>. QED
    BY <1>4, <1>5, FailureEffect DEF IInv

\* The call returns.
LEMMA ReturnStep ==
    ASSUME IInv, publish.pc = "write", Finish("returned"), UNCHANGED <<resourceVars, up, lost>>,
           \/ UNCHANGED received
           \/ received' = [received EXCEPT ![publish.event] = @ + 1]
    PROVE  IInv'
  <1>. DEFINE e == publish.event
  <1>1. e \in Event /\ received[e] \in Nat
    BY DEF IInv, TypeOK, CopiesSoFar
  <1>2. publish' = NotPublishing /\ outcome' = [outcome EXCEPT ![e] = "returned"]
    BY DEF Finish
  <1>3. received' \in [Event -> Nat] /\ \A d \in Event \ {e} : received'[d] = received[d]
    BY <1>1 DEF IInv, TypeOK
  <1>4. TypeOK' /\ ChannelOfConnection'
    <2>1. UNCHANGED <<connection, channel, opened, live>>
      BY DEF resourceVars
    <2>2. outcome' \in [Event -> {"none", "returned", "raised"}]
      BY <1>1, <1>2 DEF IInv, TypeOK
    <2>3. publish' \in [pc : {"idle", "connect", "write"}, event : Event \cup {NoEvent},
                        attempt : 0..2]
      BY <1>2 DEF NotPublishing
    <2>. QED
      BY <1>3, <2>1, <2>2, <2>3 DEF IInv, TypeOK, ChannelOfConnection, Usable
  <1>5. CopiesSoFar'
    BY <1>1, <1>2, <1>3, PublisherAssumption DEF IInv, TypeOK, NotPublishing, CopiesSoFar
  <1>6. FreshSecond'
    BY <1>2 DEF NotPublishing, FreshSecond
  <1>. QED
    BY <1>4, <1>5, <1>6 DEF IInv

\* get_rabbitmq_channel without an open channel: a channel on a connection that works, or
\* the failure of the attempt.
LEMMA OpenChannelKinds ==
    ASSUME IInv, OpenChannel
    PROVE  \/ /\ At("write") /\ UNCHANGED outcome
              /\ connection' \in Resource /\ channel' \in Resource
              /\ opened' \in Nat /\ live' \in Nat
              /\ channel'.id = connection'.id /\ live' = channel'.id
           \/ /\ AttemptFails
              /\ publish.attempt = 2 => lost
  <1>. DEFINE id == IF Usable(connection) THEN connection.id ELSE opened + 1
              works == IF Usable(connection) THEN live = id ELSE up
  <1>1. id \in Nat /\ publish.pc = "connect" /\ ~Usable(channel)
    BY DEF OpenChannel, IInv, TypeOK, Resource
  <1>2. CASE works
    <2>1. /\ connection' = [id |-> id, is_closed |-> FALSE]
          /\ channel' = [id |-> id, is_closed |-> FALSE]
          /\ opened' = IF id > opened THEN id ELSE opened
          /\ live' = id /\ At("write") /\ UNCHANGED outcome
      BY <1>2, Zenon DEF OpenChannel
    <2>2. connection' \in Resource /\ channel' \in Resource /\ channel'.id = id
          /\ connection'.id = id /\ opened' \in Nat
      <3>. HIDE DEF id
      <3>. QED
        BY <1>1, <2>1 DEF Resource, IInv, TypeOK
    <2>. QED
      BY <1>1, <2>1, <2>2
  <1>3. CASE ~works
    <2>1. AttemptFails
      BY <1>3, Zenon DEF OpenChannel
    <2>2. publish.attempt = 2 /\ ~lost => connection = Absent /\ up
      BY <1>1 DEF IInv, FreshSecond
    <2>3. ~Usable(Absent)
      BY DEF Usable
    <2>4. publish.attempt = 2 => lost
      <3>. SUFFICES ASSUME publish.attempt = 2, ~lost
                    PROVE  FALSE
        OBVIOUS
      <3>1. ~Usable(connection) /\ up
        BY <2>2, <2>3
      <3>. QED
        BY <1>3, <3>1, Zenon
    <2>. QED
      BY <2>1, <2>4
  <1>. QED
    BY <1>2, <1>3

LEMMA InvInit == Init => IInv
  BY DEF Init, IInv, TypeOK, Resource, Absent, NoConnection, NotPublishing, CopiesSoFar,
         FreshSecond, ChannelOfConnection, Usable

LEMMA InvStep == IInv /\ [Next]_vars => IInv'
  <1>. SUFFICES ASSUME IInv, [Next]_vars
                PROVE  IInv'
    OBVIOUS
  <1>1. CASE ReuseChannel
    BY <1>1, ReachWrite DEF ReuseChannel
  <1>2. CASE OpenChannel
    <2>1. publish.pc = "connect" /\ UNCHANGED <<up, lost, received>>
      BY <1>2 DEF OpenChannel
    <2>. QED
      BY <1>2, <2>1, OpenChannelKinds, ReachWrite, FailStep
  <1>3. CASE WriteReturns
    BY <1>3, ReturnStep DEF WriteReturns
  <1>4. CASE WriteOnLost
    BY <1>4, ReturnStep, FailStep DEF WriteOnLost
  <1>5. CASE WriteFailsAfterDelivery
    BY <1>5, FailStep DEF WriteFailsAfterDelivery
  <1>6. CASE UNCHANGED vars
    BY <1>6
       DEF vars, IInv, TypeOK, CopiesSoFar, FreshSecond, ChannelOfConnection, NotPublishing
  <1>. QED
    BY <1>1, <1>2, <1>3, <1>4, <1>5, <1>6, EnvironmentEffect, BeginStep DEF Next

LEMMA Invariance == Spec => []IInv
  BY InvInit, InvStep, PTL DEF Spec

-----------------------------------------------------------------------------
\* The channel in use belongs to the connection in use.
THEOREM ChannelOfConnectionAlways == Spec => []ChannelOfConnection
  <1>1. IInv => ChannelOfConnection
    BY DEF IInv
  <1>. QED
    BY <1>1, Invariance, PTL

\* An event whose call saw no connection lost and no broker away is never refused: the
\* second attempt repairs whatever the globals had become before the call.
THEOREM StaleConnectionAlwaysSurvived == Spec => StaleConnectionSurvived
  <1>1. ASSUME IInv, [Next]_vars, NEW e \in Event, outcome[e] = "none", outcome'[e] = "raised"
        PROVE  lost'
    <2>1. CASE OpenChannel
      <3>1. UNCHANGED lost
        BY <2>1 DEF OpenChannel
      <3>2. publish.pc # "idle"
        BY <2>1 DEF OpenChannel
      <3>. QED
        BY <1>1, <2>1, <3>1, <3>2, OpenChannelKinds, FailureEffect DEF IInv
    <2>2. CASE WriteOnLost
      <3>1. publish.pc = "write" /\ live # channel.id /\ UNCHANGED lost
        BY <2>2 DEF WriteOnLost
      <3>2. AttemptFails
        BY <1>1, <2>2 DEF WriteOnLost, Finish, IInv, TypeOK
      <3>3. publish.attempt = 2
        BY <1>1, <3>1, <3>2, FailureEffect DEF IInv
      <3>. QED
        BY <1>1, <3>1, <3>3 DEF IInv, FreshSecond
    <2>3. CASE WriteFailsAfterDelivery
      BY <2>3 DEF WriteFailsAfterDelivery
    <2>4. CASE WriteReturns
      BY <1>1, <2>4 DEF WriteReturns, Finish, IInv, TypeOK
    <2>. QED
      BY <1>1, <2>1, <2>2, <2>3, <2>4
         DEF Next, Drop, CloseChannel, BrokerReturns, Begin, ReuseChannel, vars
  <1>2. IInv /\ [Next]_vars =>
            [\A e \in Event : outcome[e] = "none" /\ outcome'[e] = "raised" => lost']_vars
    BY <1>1
  <1>. QED
    BY <1>2, Invariance, PTL DEF Spec, StaleConnectionSurvived

LEMMA BusInit == Init => Bus!Init
  BY DEF Init, NotPublishing, Bus!Init

LEMMA BusStep == IInv /\ [Next]_vars => [Bus!Next]_(Bus!vars)
  <1>. SUFFICES ASSUME IInv, [Next]_vars
                PROVE  Bus!Next \/ UNCHANGED Bus!vars
    OBVIOUS
  <1>. DEFINE e == publish.event
  <1>1. ASSUME NEW d \in Event, Begin(d)
        PROVE  Bus!Next
    BY <1>1 DEF Begin, NotPublishing, Bus!Next, Bus!Call
  <1>2. publish.pc # "idle" => e \in Event /\ received[e] \in Nat /\ received[e] < publish.attempt
    BY DEF IInv, TypeOK, CopiesSoFar
  <1>3. ASSUME publish.pc = "write", Finish("returned"), NEW n \in 0..1,
               received' = [received EXCEPT ![e] = @ + n]
        PROVE  Bus!Next
    BY <1>2, <1>3 DEF Finish, NotPublishing, Bus!Next, Bus!End
  <1>4. ASSUME publish.pc # "idle", AttemptFails, NEW n \in 0..1,
               received' = [received EXCEPT ![e] = @ + n]
        PROVE  Bus!Next \/ UNCHANGED Bus!vars
    <2>1. CASE publish.attempt = 1
      <3>1. publish'.event = e /\ UNCHANGED outcome /\ received[e] = 0
        BY <1>2, <1>4, <2>1, FailureEffect DEF IInv
      <3>2. CASE n = 1
        <4>1. received' = [received EXCEPT ![e] = 1]
          BY <1>4, <3>1, <3>2
        <4>. QED
          BY <1>2, <1>4, <3>1, <4>1 DEF Bus!Next, Bus!Copy
      <3>3. CASE n = 0
        BY <1>2, <1>4, <3>1, <3>3 DEF IInv, TypeOK, Bus!vars
      <3>. QED
        BY <3>2, <3>3
    <2>2. CASE publish.attempt = 2
      <3>1. publish' = NotPublishing /\ outcome' = [outcome EXCEPT ![e] = "raised"]
        BY <1>4, <2>2, FailureEffect DEF IInv
      <3>. QED
        BY <1>2, <1>4, <3>1 DEF NotPublishing, Bus!Next, Bus!End
    <2>. QED
      BY <1>4, <2>1, <2>2, FailureEffect DEF IInv
  <1>5. UNCHANGED received /\ publish.pc # "idle" => received' = [received EXCEPT ![e] = @ + 0]
    BY <1>2 DEF IInv, TypeOK
  <1>6. CASE OpenChannel
    <2>1. CASE At("write") /\ UNCHANGED outcome
      BY <1>6, <2>1 DEF OpenChannel, At, IInv, TypeOK, Bus!vars
    <2>2. CASE AttemptFails
      BY <1>4, <1>5, <1>6, <2>2 DEF OpenChannel
    <2>. QED
      BY <1>6, <2>1, <2>2, OpenChannelKinds
  <1>7. CASE WriteReturns \/ WriteOnLost \/ WriteFailsAfterDelivery
    BY <1>3, <1>4, <1>5, <1>7 DEF WriteReturns, WriteOnLost, WriteFailsAfterDelivery
  <1>8. CASE ReuseChannel
    BY <1>8 DEF ReuseChannel, At, IInv, TypeOK, Bus!vars
  <1>9. CASE Drop \/ CloseChannel \/ BrokerReturns \/ UNCHANGED vars
    BY <1>9 DEF Drop, CloseChannel, BrokerReturns, vars, Bus!vars
  <1>. QED
    BY <1>1, <1>6, <1>7, <1>8, <1>9 DEF Next

\* publish_event is an EventBus: two copies of an event at most, none after its call.
THEOREM EventBusRefinement == Spec => ImplementsEventBus
  BY BusInit, BusStep, Invariance, PTL DEF Spec, ImplementsEventBus, Bus!Spec
=============================================================================
