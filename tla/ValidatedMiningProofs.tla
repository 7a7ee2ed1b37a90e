----------------------- MODULE ValidatedMiningProofs -----------------------
(***************************************************************************)
(* Proofs about ValidatedMining, for every set of processes, every tree of *)
(* blocks and every bound: with the validation in front, the record of the *)
(* block.mined consumer is a linked chain.                                 *)
(*                                                                         *)
(* Every step is one of BlockMinedConsumer or leaves its collections as    *)
(* they are, so its inductive invariant holds here too; what is added is   *)
(* that an answer, however old, stays true: the parent of an accepted      *)
(* block is stored, and stored blocks stay.                                *)
(***************************************************************************)
EXTENDS ValidatedMining, TLAPS

Proven == INSTANCE BlockMinedConsumerProofs

\* What the answer of POST /block/validate says, for good.
StaysTrue(b) ==
    /\ b \in Sound
    /\ BlockParent[b] \in blocks
    /\ BlockIndex[b] = BlockIndex[BlockParent[b]] + 1

Gate ==
    /\ check \in [Proc -> [pc : {"idle", "height", "last"}, block : Block \cup {NoBlock}]]
    /\ \A p \in Proc : Checking(p) => check[p].block \in Sound
    /\ Genesis \in blocks
    /\ published \subseteq accepted \cup {Genesis}
    /\ \A b \in accepted : StaysTrue(b)

VInv == Proven!IInv /\ Gate

-----------------------------------------------------------------------------
(* The steps of the consumer. *)

LEMMA Assumptions == Proven!BlocksAssumption /\ Proven!BoundsAssumption
  BY ConsumerAssumption
     DEF Consumer!BlocksAssumption, Consumer!BoundsAssumption, Consumer!PostedDoc,
         Consumer!NoIndex, Proven!BlocksAssumption, Proven!BoundsAssumption, Proven!PostedDoc,
         Proven!NoIndex

\* The handler, seen from the proofs about it.
LEMMA HandlerSteps ==
    ASSUME NEW p \in Proc, Consumer!ConsumerStep(p)
    PROVE  Proven!ConsumerStep(p)
  <1>. USE DEF Consumer!At, Consumer!Idle, Consumer!Busy, Consumer!Confirming, Consumer!dbVars,
               Consumer!historyVars, Consumer!brokerVars, Consumer!HeightTaken,
               Consumer!ConfirmEntry, Consumer!NoDoc, Consumer!NoIndex, Consumer!ConfirmedDoc,
               Proven!At, Proven!Idle, Proven!Busy, Proven!Confirming, Proven!dbVars,
               Proven!historyVars, Proven!brokerVars, Proven!HeightTaken,
               Proven!ConfirmEntry, Proven!NoDoc, Proven!NoIndex, Proven!ConfirmedDoc
  <1>1. Consumer!Ack(p) => Proven!Ack(p)
    BY DEF Proven!Ack, Consumer!Ack
  <1>2. Consumer!Persist(p) => Proven!Persist(p)
    BY DEF Proven!Persist, Consumer!Persist
  <1>3. Consumer!InsertBlock(p) => Proven!InsertBlock(p)
    BY DEF Proven!InsertBlock, Proven!Store, Proven!Collide, Proven!RaceLost,
           Consumer!InsertBlock, Consumer!Store, Consumer!Collide, Consumer!RaceLost
  <1>4. Consumer!ConfirmNext(p) => Proven!ConfirmNext(p)
    BY DEF Proven!ConfirmNext, Consumer!ConfirmNext
  <1>5. Consumer!DbFailure(p) => Proven!DbFailure(p)
    BY DEF Proven!DbFailure, Consumer!DbFailure
  <1>. QED
    BY <1>1, <1>2, <1>3, <1>4, <1>5 DEF Proven!ConsumerStep, Consumer!ConsumerStep

\* The broker, the process and the transfers, seen from those proofs.
LEMMA EnvironmentSteps ==
    ASSUME NEW p \in Proc,
           \/ Consumer!Deliver(p) \/ Consumer!LoseConnection(p) \/ Consumer!Crash(p)
           \/ Consumer!Restart(p) \/ Consumer!StartFails(p)
    PROVE  Proven!BrokerStep(p) \/ Proven!ProcessStep(p)
  <1>. USE DEF Consumer!At, Consumer!Idle, Consumer!Down, Consumer!Dead, Consumer!dbVars,
               Consumer!historyVars, Consumer!brokerVars, Consumer!Requeue,
               Proven!At, Proven!Idle, Proven!Down, Proven!Dead, Proven!dbVars,
               Proven!historyVars, Proven!brokerVars, Proven!Requeue
  <1>1. Consumer!Deliver(p) => Proven!Deliver(p)
    BY DEF Proven!Deliver, Consumer!Deliver
  <1>2. Consumer!LoseConnection(p) => Proven!LoseConnection(p)
    BY DEF Proven!LoseConnection, Consumer!LoseConnection
  <1>3. Consumer!Crash(p) => Proven!Crash(p)
    BY DEF Proven!Crash, Consumer!Crash
  <1>4. Consumer!Restart(p) => Proven!Restart(p)
    BY DEF Proven!Restart, Consumer!Restart
  <1>5. Consumer!StartFails(p) => Proven!StartFails(p)
    BY DEF Proven!StartFails, Consumer!StartFails
  <1>. QED
    BY <1>1, <1>2, <1>3, <1>4, <1>5 DEF Proven!BrokerStep, Proven!ProcessStep

LEMMA SourceSteps ==
    /\ \A t \in TxId : Consumer!Submit(t) => Proven!Submit(t)
    /\ \A b \in Block : Consumer!Publish(b) => Proven!Publish(b)
  BY DEF Proven!Submit, Proven!Publish, Proven!IdsOf, Proven!NoDoc,
         Proven!NoIndex, Proven!dbVars, Proven!brokerVars, Proven!historyVars,
         Consumer!Submit, Consumer!Publish, Consumer!IdsOf, Consumer!NoDoc,
         Consumer!NoIndex, Consumer!dbVars, Consumer!brokerVars, Consumer!historyVars

\* A step is one of the consumer, or changes no more of its state than the count of
\* failed calls.
LEMMA StepKinds ==
    ASSUME Proven!TypeOK, [Next]_vars
    PROVE  \/ [Proven!Next]_(Proven!vars)
           \/ UNCHANGED consumerVars /\ failures' \in 0..MaxFailures
  <1>1. ASSUME NEW p \in Proc, Validate(p)
        PROVE  UNCHANGED consumerVars /\ failures' \in 0..MaxFailures
    BY <1>1, Assumptions DEF Validate, FailCheck, Proven!TypeOK, Proven!BoundsAssumption
  <1>2. ASSUME NEW t \in TxId, Consumer!Submit(t)
        PROVE  Proven!Next
    BY <1>2, SourceSteps DEF Proven!Next
  <1>3. ASSUME NEW b \in Block, Publish(b)
        PROVE  Proven!Next
    BY <1>3, SourceSteps DEF Publish, Proven!Next
  <1>4. ASSUME NEW p \in Proc,
               HandleMessage(p) \/ LoseConnection(p) \/ Crash(p) \/ Restart(p)
        PROVE  Proven!Next
    BY <1>4, HandlerSteps, EnvironmentSteps
       DEF HandleMessage, LoseConnection, Crash, Restart, Proven!Next
  <1>5. CASE UNCHANGED vars
    BY <1>5 DEF vars, Proven!vars
  <1>. QED
    BY <1>1, <1>2, <1>3, <1>4, <1>5 DEF Next

LEMMA ConsumerInvStep == Proven!IInv /\ [Next]_vars => Proven!IInv'
  <1>. SUFFICES ASSUME Proven!IInv, [Next]_vars
                PROVE  Proven!IInv'
    OBVIOUS
  <1>1. CASE [Proven!Next]_(Proven!vars)
    BY <1>1, Proven!InvStep, Assumptions
  <1>2. CASE UNCHANGED consumerVars /\ failures' \in 0..MaxFailures
    BY <1>2
       DEF consumerVars, Proven!IInv, Proven!TypeOK, Proven!UniqueHeights,
           Proven!OnlyPublished, Proven!OutAtHandler, Proven!HandlerStored,
           Proven!PassedEntries, Proven!ConfirmedInChain, Proven!NoSilentLoss,
           Proven!NoForgottenConfirmation, Proven!HeightTaken, Proven!InFlight
  <1>. QED
    BY <1>1, <1>2, StepKinds DEF Proven!IInv

-----------------------------------------------------------------------------
(* The answers. *)

\* Stored blocks stay, whatever the step.
LEMMA BlocksStay ==
    ASSUME Proven!TypeOK, [Next]_vars
    PROVE  blocks \subseteq blocks'
  <1>1. CASE [Proven!Next]_(Proven!vars)
    BY <1>1, Proven!BlocksEffect, Assumptions
  <1>2. CASE UNCHANGED consumerVars
    BY <1>2 DEF consumerVars
  <1>. QED
    BY <1>1, <1>2, StepKinds

\* What a step does to the gate: a request comes in or moves on, a block is accepted that
\* extends the last one, or one that was accepted is published.
LEMMA ValidateEffect ==
    ASSUME Gate, NEW p \in Proc, Validate(p)
    PROVE  /\ check' \in [Proc -> [pc : {"idle", "height", "last"}, block : Block \cup {NoBlock}]]
           /\ \A q \in Proc : check'[q].pc # "idle" => check'[q].block \in Sound
           /\ UNCHANGED <<blocks, published>>
           /\ accepted \subseteq accepted'
           /\ \A b \in accepted' \ accepted : StaysTrue(b)
  <1>. USE SoundAssumption
  <1>1. ASSUME NEW b \in Block, Receive(p, b), UNCHANGED consumerVars
        PROVE  /\ check' \in [Proc -> [pc : {"idle", "height", "last"},
                                       block : Block \cup {NoBlock}]]
               /\ \A q \in Proc : check'[q].pc # "idle" => check'[q].block \in Sound
               /\ UNCHANGED <<blocks, published, accepted>>
    <2>1. CASE b \in Sound
      BY <1>1, <2>1 DEF Receive, Gate, Checking, consumerVars
    <2>2. CASE b \notin Sound
      BY <1>1, <2>2 DEF Receive, Answer, NoCheck, Gate, Checking, consumerVars
    <2>. QED
      BY <2>1, <2>2
  <1>2. ASSUME FindHeight(p) \/ FailCheck(p), UNCHANGED consumerVars
        PROVE  /\ check' \in [Proc -> [pc : {"idle", "height", "last"},
                                       block : Block \cup {NoBlock}]]
               /\ \A q \in Proc : check'[q].pc # "idle" => check'[q].block \in Sound
               /\ UNCHANGED <<blocks, published, accepted>>
    <2>1. CASE Answer(p)
      BY <1>2, <2>1 DEF FindHeight, FailCheck, Answer, NoCheck, Gate, Checking, consumerVars
    <2>2. CASE check[p].pc = "height" /\ check' = [check EXCEPT ![p].pc = "last"]
      BY <1>2, <2>2 DEF FindHeight, FailCheck, Gate, Checking, consumerVars
    <2>. QED
      BY <1>2, <2>1, <2>2 DEF FindHeight, FailCheck
  <1>3. ASSUME FindLast(p), UNCHANGED consumerVars
        PROVE  /\ check' \in [Proc -> [pc : {"idle", "height", "last"},
                                       block : Block \cup {NoBlock}]]
               /\ \A q \in Proc : check'[q].pc # "idle" => check'[q].block \in Sound
               /\ UNCHANGED <<blocks, published>>
               /\ accepted \subseteq accepted'
               /\ \A b \in accepted' \ accepted : StaysTrue(b)
    <2>1. check[p].block \in Sound
      BY <1>3 DEF FindLast, Gate, Checking
    <2>2. ASSUME NEW b \in accepted' \ accepted
          PROVE  StaysTrue(b)
      BY <1>3, <2>1, <2>2 DEF FindLast, ExtendsLast, IsLast, StaysTrue, Gate
    <2>. QED
      BY <1>3, <2>2 DEF FindLast, Answer, NoCheck, Gate, Checking, consumerVars
  <1>. QED
    BY <1>1, <1>2, <1>3 DEF Validate, FailCheck

LEMMA GateStep == Proven!TypeOK /\ Gate /\ [Next]_vars => Gate'
  <1>. SUFFICES ASSUME Proven!TypeOK, Gate, [Next]_vars
                PROVE  Gate'
    OBVIOUS
  <1>1. Genesis \in blocks' /\ \A b \in Block : StaysTrue(b) => StaysTrue(b)'
    BY BlocksStay DEF Gate, StaysTrue
  <1>2. accepted \subseteq Block
    BY SoundAssumption DEF Gate, StaysTrue
  <1>3. ASSUME NEW p \in Proc, Validate(p)
        PROVE  Gate'
    <2>1. \A b \in accepted' : StaysTrue(b)
      BY <1>3, ValidateEffect DEF Gate
    <2>2. \A b \in accepted' : StaysTrue(b)'
      BY <2>1, <1>1, SoundAssumption DEF StaysTrue
    <2>. QED
      BY <1>1, <1>3, <2>2, ValidateEffect DEF Gate, Checking
  <1>4. ASSUME NEW b \in Block, Publish(b)
        PROVE  Gate'
    BY <1>1, <1>2, <1>4 DEF Publish, Consumer!Publish, checkVars, Gate, Checking
  <1>5. ASSUME UNCHANGED <<published, accepted>>,
               \/ UNCHANGED check
               \/ \E p \in Proc : Answer(p)
        PROVE  Gate'
    <2>1. \A b \in accepted' : StaysTrue(b)'
      BY <1>1, <1>2, <1>5 DEF Gate
    <2>2. /\ check' \in [Proc -> [pc : {"idle", "height", "last"}, block : Block \cup {NoBlock}]]
          /\ \A q \in Proc : check'[q].pc # "idle" => check'[q].block \in Sound
      BY <1>5 DEF Answer, NoCheck, Gate, Checking
    <2>. QED
      BY <1>1, <1>5, <2>1, <2>2 DEF Gate, Checking
  <1>6. ASSUME NEW p \in Proc,
               HandleMessage(p) \/ LoseConnection(p) \/ Crash(p) \/ Restart(p)
        PROVE  Gate'
    BY <1>5, <1>6
       DEF HandleMessage, LoseConnection, Crash, Restart, checkVars, Consumer!ConsumerStep,
           Consumer!Persist, Consumer!InsertBlock, Consumer!Store, Consumer!Collide,
           Consumer!RaceLost, Consumer!ConfirmNext, Consumer!DbFailure, Consumer!Ack,
           Consumer!Deliver, Consumer!LoseConnection, Consumer!Crash, Consumer!Restart,
           Consumer!StartFails, Consumer!historyVars
  <1>7. CASE UNCHANGED vars
    BY <1>5, <1>7 DEF vars
  <1>8. ASSUME NEW t \in TxId, Consumer!Submit(t), UNCHANGED checkVars
        PROVE  Gate'
    BY <1>5, <1>8 DEF Consumer!Submit, Consumer!historyVars, checkVars
  <1>. QED
    BY <1>3, <1>4, <1>6, <1>7, <1>8 DEF Next

LEMMA VInvInit == Init => VInv
  <1>. SUFFICES ASSUME Init
                PROVE  VInv
    OBVIOUS
  <1>1. Proven!Init
    BY DEF Init, Consumer!Init, Consumer!NoDoc, Consumer!NoIndex, Consumer!Idle, Proven!Init,
           Proven!NoDoc, Proven!NoIndex, Proven!Idle
  <1>2. Proven!IInv
    BY <1>1, Proven!InvInit, Assumptions
  <1>3. Gate
    BY DEF Init, Consumer!Init, NoCheck, Gate, Checking
  <1>. QED
    BY <1>2, <1>3 DEF VInv

LEMMA VInvariance == Spec => []VInv
  <1>1. VInv /\ [Next]_vars => VInv'
    BY ConsumerInvStep, GateStep DEF VInv, Proven!IInv
  <1>. QED
    BY <1>1, VInvInit, PTL DEF Spec

-----------------------------------------------------------------------------
(* The record. *)

\* A stored block other than Genesis was accepted; Genesis is the one of height 0.
LEMMA StoredAccepted ==
    ASSUME VInv
    PROVE  /\ blocks \subseteq Block /\ blocks \subseteq published
           /\ \A b \in published : b = Genesis \/ StaysTrue(b)
           /\ \A b \in blocks : StaysTrue(b) => BlockIndex[b] > 0
  BY Assumptions
     DEF VInv, Gate, StaysTrue, Proven!IInv, Proven!TypeOK, Proven!OnlyPublished,
         Proven!BlocksAssumption

\* An accepted block that the record refuses lost its height to a block with the same
\* parent, never to a longer branch.
THEOREM LosesToSiblingOnlyAlways == Spec => []LosesToSiblingOnly
  <1>1. VInv => LosesToSiblingOnly
    <2>. SUFFICES ASSUME VInv, NEW b \in published \ blocks, NEW c \in blocks,
                         BlockIndex[c] = BlockIndex[b]
                  PROVE  BlockParent[c] = BlockParent[b]
      BY DEF LosesToSiblingOnly
    <2>1. b \in Block /\ c \in Block /\ StaysTrue(b) /\ BlockIndex[BlockParent[b]] \in Nat
      BY StoredAccepted, Assumptions
         DEF VInv, Gate, StaysTrue, Proven!IInv, Proven!TypeOK, Proven!BlocksAssumption
    <2>2. StaysTrue(c) /\ BlockIndex[BlockParent[c]] \in Nat
      BY <2>1, StoredAccepted, SoundAssumption, Assumptions
         DEF StaysTrue, Proven!BlocksAssumption
    <2>3. BlockIndex[BlockParent[c]] = BlockIndex[BlockParent[b]]
      BY <2>1, <2>2 DEF StaysTrue
    <2>. QED
      BY <2>1, <2>2, <2>3 DEF StaysTrue, VInv, Proven!IInv, Proven!UniqueHeights
  <1>. QED
    BY <1>1, VInvariance, PTL

\* validate_chain_integrity finds nothing in a record that POST /block/validate let in.
THEOREM AuditPassesAlways == Spec => []AuditPasses
  <1>1. VInv => AuditPasses
    <2>. SUFFICES ASSUME VInv, NEW b \in blocks
                  PROVE  /\ b \in Sound
                         /\ \A c \in blocks :
                               /\ BlockIndex[c] < BlockIndex[b]
                               /\ \A d \in blocks : \/ BlockIndex[d] <= BlockIndex[c]
                                                    \/ BlockIndex[d] >= BlockIndex[b]
                               => BlockParent[b] = c
      BY DEF AuditPasses
    <2>1. b \in Sound
      BY StoredAccepted, SoundAssumption DEF StaysTrue
    <2>2. ASSUME NEW c \in blocks, BlockIndex[c] < BlockIndex[b],
                 \A d \in blocks : BlockIndex[d] <= BlockIndex[c] \/ BlockIndex[d] >= BlockIndex[b]
          PROVE  BlockParent[b] = c
      <3>. DEFINE a == BlockParent[b]
      <3>1. b \in Block /\ c \in Block /\ BlockIndex[b] \in Nat /\ BlockIndex[c] \in Nat
        BY StoredAccepted, Assumptions DEF Proven!BlocksAssumption
      <3>2. StaysTrue(b)
        BY <2>2, <3>1, StoredAccepted, SoundAssumption
      <3>3. a \in blocks /\ BlockIndex[a] \in Nat /\ BlockIndex[b] = BlockIndex[a] + 1
        BY <3>2, StoredAccepted, Assumptions DEF StaysTrue, Proven!BlocksAssumption
      <3>4. BlockIndex[a] <= BlockIndex[c]
        BY <2>2, <3>1, <3>3
      <3>5. BlockIndex[a] = BlockIndex[c]
        BY <2>2, <3>1, <3>3, <3>4
      <3>. QED
        BY <3>3, <3>5 DEF VInv, Proven!IInv, Proven!UniqueHeights
    <2>. QED
      BY <2>1, <2>2
  <1>. QED
    BY <1>1, VInvariance, PTL

LEMMA LinkedInit == Init => Linked!Init
  BY DEF Init, Consumer!Init, Consumer!NoDoc, Consumer!NoIndex, Linked!Init,
         Linked!Official!Init, Linked!Official!NoDoc, Linked!Official!NoIndex

\* A block the consumer records was accepted, and its parent was there before it.
LEMMA LinkedStep == VInv /\ VInv' /\ [Next]_vars => [Linked!Next]_(Linked!vars)
  <1>. SUFFICES ASSUME VInv, VInv', [Next]_vars
                PROVE  Linked!Next \/ UNCHANGED Linked!vars
    OBVIOUS
  <1>. USE DEF Proven!Official!NoDoc, Proven!Official!NoIndex,
               Proven!Official!ConfirmedDoc, Proven!Official!IdsOf, Linked!Official!NoDoc,
               Linked!Official!NoIndex,
               Linked!Official!ConfirmedDoc, Linked!Official!IdsOf
  <1>1. ASSUME NEW t \in TxId, Proven!Official!Submit(t)
        PROVE  Linked!Next
    BY <1>1 DEF Proven!Official!Submit, Linked!Official!Submit, Linked!Next
  <1>2. ASSUME NEW t \in TxId, NEW b \in Block, Proven!Official!Confirm(b, t)
        PROVE  Linked!Next
    BY <1>2 DEF Proven!Official!Confirm, Linked!Official!Confirm, Linked!Next
  <1>3. ASSUME NEW b \in Block, Proven!Official!Record(b)
        PROVE  Linked!Next
    <2>1. b \notin blocks /\ blocks' = blocks \cup {b} /\ b # Genesis
      BY <1>3 DEF Proven!Official!Record, VInv, Gate
    <2>2. b \in accepted'
      BY <2>1 DEF VInv, Gate, Proven!IInv, Proven!OnlyPublished
    <2>3. BlockParent[b] \in blocks' /\ BlockIndex[b] = BlockIndex[BlockParent[b]] + 1
      BY <2>2 DEF VInv, Gate, StaysTrue
    <2>4. BlockParent[b] # b
      BY <2>3, Assumptions DEF Proven!BlocksAssumption
    <2>5. Linked!Extend(b)
      BY <1>3, <2>1, <2>3, <2>4
         DEF Linked!Extend, Proven!Official!Record, Linked!Official!Record
    <2>. QED
      BY <2>5 DEF Linked!Next
  <1>4. CASE [Proven!Next]_(Proven!vars)
    <2>1. Proven!Official!Next \/ UNCHANGED Proven!Official!vars
      BY <1>4, Proven!RefinementStep, Assumptions DEF VInv
    <2>. QED
      BY <1>1, <1>2, <1>3, <2>1 DEF Proven!Official!Next, Proven!Official!vars, Linked!vars
  <1>5. CASE UNCHANGED consumerVars
    BY <1>5 DEF consumerVars, Linked!vars
  <1>. QED
    BY <1>4, <1>5, StepKinds DEF VInv, Proven!IInv

\* With the validation in front, the record grows at its end, block on block, although
\* the consumer looks at no previous_hash and the answers are old when they are used.
THEOREM LinkedChainRefinement == Spec => ImplementsLinkedChain
  BY LinkedInit, LinkedStep, VInvariance, PTL
     DEF Spec, ImplementsLinkedChain, Linked!Spec
=============================================================================
