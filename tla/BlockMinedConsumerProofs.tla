---------------------- MODULE BlockMinedConsumerProofs ----------------------
(***************************************************************************)
(* Proofs about BlockMinedConsumer, for every set of processes, every tree *)
(* of blocks and every bound: the type invariant, the three invariants of  *)
(* the runs with several processes, and the implementation of the abstract *)
(* record OfficialChain.                                                   *)
(*                                                                         *)
(* The inductive invariant IInv ties the position of every handler to what *)
(* the collections must already hold at that position.                     *)
(*                                                                         *)
(* GapsExplained needs more, and one consumer: M3 publishes a block after  *)
(* its parent, and with one consumer the queue keeps them in that order    *)
(* through every redelivery (ParentsAhead).                                *)
(***************************************************************************)
EXTENDS BlockMinedConsumer, SequenceTheorems, TLAPS

\* The unique index: one stored block per height.
UniqueHeights ==
    \A a, b \in blocks : BlockIndex[a] = BlockIndex[b] => a = b

\* Everything a handler, the broker or the collection holds was published.
OnlyPublished ==
    /\ blocks \subseteq published
    /\ Range(queue) \subseteq published
    /\ \A p \in Proc : handler[p].block # NoBlock => handler[p].block \in published

\* A message is out at a process only while its handler works on that block.
OutAtHandler ==
    \A p \in Proc : unacked[p] # NoBlock => handler[p].block = unacked[p]

\* A handler confirms after it stored, and acks a collision only when there is one,
\* or when the block is stored already.
HandlerStored ==
    /\ \A p \in Proc :
        /\ handler[p].pc = "confirm" => handler[p].block \in blocks /\ handler[p].next >= 1
        /\ handler[p].pc = "ack" => HeightTaken(handler[p].block) \/ handler[p].block \in raced
    /\ raced \subseteq blocks

\* No entry the loop has passed is pending.
PassedEntries ==
    \A p \in Proc : handler[p].pc = "confirm" =>
        \A i \in DOMAIN BlockTxs[handler[p].block] :
            /\ i < handler[p].next
            /\ BlockTxs[handler[p].block][i] \in TxId
            => transactions[BlockTxs[handler[p].block][i]].status # "PENDING"

IInv ==
    /\ TypeOK
    /\ UniqueHeights
    /\ OnlyPublished
    /\ OutAtHandler
    /\ HandlerStored
    /\ PassedEntries
    /\ ConfirmedInChain
    /\ NoSilentLoss
    /\ NoForgottenConfirmation

-----------------------------------------------------------------------------
(* Type correctness.                                                       *)

\* What a queue holds after a publish, a requeue and a delivery.
LEMMA RangeAround ==
    ASSUME NEW S, NEW q \in Seq(S), NEW x \in S
    PROVE  /\ Range(q \o <<x>>) = Range(q) \cup {x}
           /\ Range(<<x>> \o q) = {x} \cup Range(q)
  <1>. DEFINE one == <<x>>
  <1>1. one \in Seq(S) /\ Range(one) = {x}
    BY DEF Range
  <1>. HIDE DEF one
  <1>2. Range(q \o one) = Range(q) \cup Range(one) /\ Range(one \o q) = Range(one) \cup Range(q)
    BY <1>1, RangeConcatenation
  <1>. QED
    BY <1>1, <1>2 DEF one

LEMMA RangeAppend ==
    ASSUME NEW S, NEW q \in Seq(S), NEW x \in S
    PROVE  Append(q, x) \in Seq(S) /\ Range(Append(q, x)) = Range(q) \cup {x}
  <1>1. Append(q, x) \in Seq(S)
    OBVIOUS
  <1>2. Append(q, x) = q \o <<x>>
    BY AppendIsConcat
  <1>3. Range(q \o <<x>>) = Range(q) \cup {x}
    BY RangeAround
  <1>. QED
    BY <1>1, <1>2, <1>3, Zenon

LEMMA RangePush ==
    ASSUME NEW S, NEW q \in Seq(S), NEW x \in S
    PROVE  <<x>> \o q \in Seq(S) /\ Range(<<x>> \o q) = Range(q) \cup {x}
  <1>1. <<x>> \o q \in Seq(S)
    OBVIOUS
  <1>2. Range(<<x>> \o q) = {x} \cup Range(q)
    BY RangeAround
  <1>. QED
    BY <1>1, <1>2

LEMMA RangeTail ==
    ASSUME NEW S, NEW q \in Seq(S), q # <<>>
    PROVE  /\ Head(q) \in S /\ Tail(q) \in Seq(S)
           /\ Range(q) = Range(Tail(q)) \cup {Head(q)}
  <1>. DEFINE first == Head(q)
              rest == Tail(q)
  <1>1. first \in S /\ rest \in Seq(S) /\ q = <<first>> \o rest
    OBVIOUS
  <1>. HIDE DEF first, rest
  <1>2. Range(<<first>> \o rest) = {first} \cup Range(rest)
    BY <1>1, RangeAround
  <1>3. first \in S /\ rest \in Seq(S) /\ Range(q) = Range(rest) \cup {first}
    BY <1>1, <1>2, Zenon
  <1>. QED
    BY <1>3 DEF first, rest

LEMMA TypeInit == Init => TypeOK
  BY BlocksAssumption, BoundsAssumption
     DEF Init, TypeOK, Doc, Idle, Handler

\* The documents a request inserts and a block confirms.
LEMMA PostedType ==
    \A t \in TxId : Posted[t] \in Doc /\ Posted[t].status # "ABSENT" /\ Posted[t] # NoDoc
  BY BlocksAssumption DEF Doc, PostedDoc, NoDoc

LEMMA IndexType == \A b \in Block : BlockIndex[b] \in Nat /\ ConfirmedDoc(BlockIndex[b]) \in Doc
  BY BlocksAssumption DEF ConfirmedDoc, Doc, PostedDoc

\* What requeuing does, whether or not a message is out.
LEMMA RequeueEffect ==
    ASSUME TypeOK, NEW p \in Proc, Requeue(p)
    PROVE  /\ queue' \in Seq(Block)
           /\ unacked' = [unacked EXCEPT ![p] = NoBlock]
           /\ unacked' \in [Proc -> Block \cup {NoBlock}]
           /\ Range(queue') = Range(queue) \cup ({unacked[p]} \ {NoBlock})
  <1>1. CASE unacked[p] = NoBlock
    BY <1>1 DEF Requeue, TypeOK
  <1>2. CASE unacked[p] # NoBlock
    <2>1. unacked[p] \in Block /\ queue \in Seq(Block) /\ queue' = <<unacked[p]>> \o queue
      BY <1>2 DEF Requeue, TypeOK
    <2>2. queue' \in Seq(Block) /\ Range(queue') = Range(queue) \cup {unacked[p]}
      BY <2>1, RangePush
    <2>. QED
      BY <1>2, <2>2 DEF Requeue, TypeOK
  <1>. QED
    BY <1>1, <1>2

\* The update of one entry keeps documents documents, and only ever confirms.
LEMMA ConfirmEntryEffect ==
    ASSUME TypeOK, NEW b \in Block, NEW n \in Nat, ConfirmEntry(b, n)
    PROVE  /\ transactions' \in [TxId -> Doc]
           /\ \A t \in TxId : \/ transactions'[t] = transactions[t]
                              \/ /\ t = BlockTxs[b][n]
                                 /\ transactions[t] # NoDoc
                                 /\ transactions'[t] = ConfirmedDoc(BlockIndex[b])
           /\ BlockTxs[b][n] \in TxId => transactions'[BlockTxs[b][n]].status # "PENDING"
  <1>. DEFINE t == BlockTxs[b][n]
  <1>1. CASE t \in TxId /\ transactions[t] # NoDoc
    <2>1. transactions' = [transactions EXCEPT ![t] = ConfirmedDoc(BlockIndex[b])]
      BY <1>1 DEF ConfirmEntry
    <2>2. ConfirmedDoc(BlockIndex[b]).status # "PENDING"
      BY DEF ConfirmedDoc
    <2>. QED
      BY <1>1, <2>1, <2>2, IndexType DEF TypeOK
  <1>2. CASE ~(t \in TxId /\ transactions[t] # NoDoc)
    BY <1>2 DEF ConfirmEntry, TypeOK, NoDoc
  <1>. QED
    BY <1>1, <1>2

LEMMA TypeStep == TypeOK /\ [Next]_vars => TypeOK'
  <1>. SUFFICES ASSUME TypeOK, [Next]_vars
                PROVE  TypeOK'
    OBVIOUS
  <1>. USE BlocksAssumption, BoundsAssumption
  <1>1. ASSUME NEW t \in TxId, Submit(t)
        PROVE  TypeOK'
    BY <1>1, PostedType DEF Submit, TypeOK, brokerVars, historyVars
  <1>2. ASSUME NEW b \in Block, Publish(b)
        PROVE  TypeOK'
    BY <1>2, RangeAppend DEF Publish, TypeOK, dbVars
  <1>3. ASSUME NEW p \in Proc, Deliver(p)
        PROVE  TypeOK'
    <2>1. Head(queue) \in Block /\ Tail(queue) \in Seq(Block)
      BY <1>3, RangeTail DEF Deliver, TypeOK
    <2>2. At("persist", Head(queue), 0) \in Handler
      BY <2>1 DEF At, Handler
    <2>. QED
      BY <1>3, <2>1, <2>2 DEF Deliver, TypeOK, dbVars, historyVars, At
  <1>4. ASSUME NEW p \in Proc, LoseConnection(p)
        PROVE  TypeOK'
    <2>1. Requeue(p)
      BY <1>4 DEF LoseConnection
    <2>. QED
      BY <1>4, <2>1, RequeueEffect DEF LoseConnection, TypeOK, dbVars, historyVars
  <1>5. ASSUME NEW p \in Proc, Crash(p)
        PROVE  TypeOK'
    <2>1. Requeue(p) /\ Down \in Handler /\ Down.pc = "down" /\ Down.block = NoBlock
      BY <1>5 DEF Crash, Down, Handler
    <2>. QED
      BY <1>5, <2>1, RequeueEffect DEF Crash, TypeOK, dbVars, historyVars
  <1>6. ASSUME NEW p \in Proc, Restart(p)
        PROVE  TypeOK'
    BY <1>6 DEF Restart, TypeOK, Idle, Handler, dbVars, brokerVars, historyVars
  <1>12. ASSUME NEW p \in Proc, StartFails(p)
        PROVE  TypeOK'
    BY <1>12 DEF StartFails, TypeOK, Dead, Handler, dbVars, brokerVars, historyVars
  <1>7. ASSUME NEW p \in Proc, Persist(p) \/ InsertBlock(p)
        PROVE  TypeOK'
    <2>. DEFINE Places == {At("ack", handler[p].block, 0), At("confirm", handler[p].block, 1),
                           At("insert", handler[p].block, 0)}
    <2>1. handler[p].block \in Block
      BY <1>7 DEF Persist, InsertBlock, TypeOK, Handler
    <2>2. \A h \in Places : h \in Handler /\ h.pc \notin {"idle", "down", "dead"} /\ h.block \in Block
      BY <2>1 DEF At, Handler
    <2>3. \E h \in Places : handler' = [handler EXCEPT ![p] = h]
      BY <1>7 DEF Persist, InsertBlock, Store, Collide, RaceLost
    <2>4. /\ handler' \in [Proc -> Handler]
          /\ \A q \in Proc : (handler'[q].block = NoBlock) <=> (handler'[q].pc \in {"idle", "down", "dead"})
      BY <2>2, <2>3, BlocksAssumption DEF TypeOK
    <2>5. blocks' \subseteq Block /\ raced' \subseteq Block
      BY <1>7, <2>1 DEF Persist, InsertBlock, Store, Collide, RaceLost, TypeOK, dbVars, historyVars
    <2>. QED
      BY <1>7, <2>4, <2>5 DEF Persist, InsertBlock, TypeOK, dbVars, brokerVars, historyVars
  <1>8. ASSUME NEW p \in Proc, ConfirmNext(p)
        PROVE  TypeOK'
    <2>1. handler[p].block \in Block /\ handler[p].next \in Nat /\ handler[p].pc = "confirm"
      BY <1>8 DEF ConfirmNext, Confirming, TypeOK, Handler
    <2>2. ConfirmEntry(handler[p].block, handler[p].next)
      BY <1>8 DEF ConfirmNext
    <2>3. transactions' \in [TxId -> Doc]
      BY <2>1, <2>2, ConfirmEntryEffect
    <2>4. handler' = [handler EXCEPT ![p] = At("confirm", handler[p].block, handler[p].next + 1)]
      BY <1>8 DEF ConfirmNext
    <2>5. /\ At("confirm", handler[p].block, handler[p].next + 1) \in Handler
          /\ At("confirm", handler[p].block, handler[p].next + 1).pc = "confirm"
          /\ At("confirm", handler[p].block, handler[p].next + 1).block \in Block
      BY <2>1 DEF At, Handler
    <2>6. /\ handler' \in [Proc -> Handler]
          /\ \A q \in Proc : (handler'[q].block = NoBlock) <=> (handler'[q].pc \in {"idle", "down", "dead"})
      BY <2>4, <2>5 DEF TypeOK
    <2>. QED
      BY <1>8, <2>3, <2>6 DEF ConfirmNext, TypeOK, brokerVars, historyVars
  <1>9. ASSUME NEW p \in Proc, DbFailure(p)
        PROVE  TypeOK'
    <2>1. handler[p].block \in Block /\ handler[p].next \in Nat
      BY <1>9 DEF DbFailure, Confirming, TypeOK, Handler
    <2>2. transactions' \in [TxId -> Doc]
      BY <1>9, <2>1, ConfirmEntryEffect DEF DbFailure, TypeOK, dbVars
    <2>3. blocks' \subseteq Block
      BY <1>9, <2>1 DEF DbFailure, TypeOK, dbVars
    <2>. QED
      BY <1>9, <2>1, <2>2, <2>3 DEF DbFailure, TypeOK, Idle, Handler
  <1>10. ASSUME NEW p \in Proc, Ack(p)
        PROVE  TypeOK'
    BY <1>10 DEF Ack, TypeOK, Idle, Handler, dbVars, historyVars
  <1>11. CASE UNCHANGED vars
    BY <1>11 DEF vars, TypeOK
  <1>. QED
    BY <1>1, <1>2, <1>3, <1>4, <1>5, <1>6, <1>7, <1>8, <1>9, <1>10, <1>11, <1>12
       DEF Next, ConsumerStep, BrokerStep, ProcessStep

\* Every variable keeps the shape the code gives it, for any number of processes.
THEOREM TypeCorrect == Spec => []TypeOK
  BY TypeInit, TypeStep, PTL DEF Spec
-----------------------------------------------------------------------------
(* What a step does to each collection and to each handler.                *)

\* A step stores at most the block of one handler, at a height that was free.
LEMMA BlocksEffect ==
    ASSUME TypeOK, [Next]_vars
    PROVE  \/ blocks' = blocks
           \/ \E p \in Proc : /\ handler[p].pc = "insert"
                              /\ ~HeightTaken(handler[p].block)
                              /\ blocks' = blocks \cup {handler[p].block}
  <1>1. ASSUME NEW p \in Proc, Persist(p) \/ InsertBlock(p) \/ DbFailure(p)
        PROVE  \/ blocks' = blocks
               \/ /\ handler[p].pc = "insert"
                  /\ ~HeightTaken(handler[p].block)
                  /\ blocks' = blocks \cup {handler[p].block}
    BY <1>1 DEF Persist, InsertBlock, Store, Collide, RaceLost, DbFailure, dbVars
  <1>. QED
    BY <1>1 DEF Next, vars, ConsumerStep, BrokerStep, ProcessStep, Submit, Publish, Deliver,
                LoseConnection, Crash, Restart, StartFails, ConfirmNext, Ack, dbVars

\* A step leaves a document as it is, inserts it as posted when no published block
\* lists it, or confirms it as the next entry of a handler's block.
LEMMA DocsEffect ==
    ASSUME TypeOK, [Next]_vars, NEW t \in TxId
    PROVE  \/ transactions'[t] = transactions[t]
           \/ /\ transactions[t] = NoDoc
              /\ \A b \in published : t \notin IdsOf(b)
              /\ transactions'[t] = Posted[t]
           \/ \E p \in Proc : /\ Confirming(p)
                              /\ t = BlockTxs[handler[p].block][handler[p].next]
                              /\ transactions[t] # NoDoc
                              /\ transactions'[t] = ConfirmedDoc(BlockIndex[handler[p].block])
  <1>1. ASSUME NEW u \in TxId, Submit(u)
        PROVE  \/ transactions'[t] = transactions[t]
               \/ /\ transactions[t] = NoDoc
                  /\ \A b \in published : t \notin IdsOf(b)
                  /\ transactions'[t] = Posted[t]
    BY <1>1 DEF Submit, TypeOK
  <1>2. ASSUME NEW p \in Proc, ConfirmNext(p) \/ DbFailure(p)
        PROVE  \/ transactions' = transactions
               \/ /\ Confirming(p) /\ handler[p].block \in Block /\ handler[p].next \in Nat
                  /\ ConfirmEntry(handler[p].block, handler[p].next)
    BY <1>2 DEF ConfirmNext, DbFailure, Confirming, TypeOK, Handler, dbVars
  <1>3. ASSUME NEW p \in Proc, ConfirmNext(p) \/ DbFailure(p)
        PROVE  \/ transactions'[t] = transactions[t]
               \/ /\ Confirming(p)
                  /\ t = BlockTxs[handler[p].block][handler[p].next]
                  /\ transactions[t] # NoDoc
                  /\ transactions'[t] = ConfirmedDoc(BlockIndex[handler[p].block])
    BY <1>2, <1>3, ConfirmEntryEffect
  <1>4. ASSUME NEW p \in Proc,
               Persist(p) \/ InsertBlock(p) \/ Ack(p) \/ BrokerStep(p) \/ ProcessStep(p)
        PROVE  transactions' = transactions
    BY <1>4 DEF Persist, InsertBlock, Ack, BrokerStep, ProcessStep, Deliver, LoseConnection,
                Crash, Restart, StartFails, dbVars
  <1>5. ASSUME NEW b \in Block, Publish(b)
        PROVE  transactions' = transactions
    BY <1>5 DEF Publish, dbVars
  <1>. QED
    BY <1>1, <1>3, <1>4, <1>5 DEF Next, ConsumerStep, vars

\* The places a step can move a handler to, with what holds there.
LEMMA HandlerEffect ==
    ASSUME TypeOK, [Next]_vars, NEW p \in Proc
    PROVE  \/ handler'[p] = handler[p]
           \/ handler'[p] \in {Idle, Down, Dead}
           \/ /\ queue # <<>>
              /\ handler'[p] = At("persist", Head(queue), 0)
           \/ /\ handler[p].pc = "persist"
              /\ handler'[p] = At("insert", handler[p].block, 0)
           \/ /\ handler[p].pc = "insert"
              /\ HeightTaken(handler[p].block) \/ handler[p].block \in raced'
              /\ handler'[p] = At("ack", handler[p].block, 0)
           \/ /\ handler[p].pc \in {"persist", "insert"}
              /\ handler[p].block \in blocks'
              /\ handler'[p] = At("confirm", handler[p].block, 1)
           \/ /\ Confirming(p)
              /\ ConfirmEntry(handler[p].block, handler[p].next)
              /\ handler'[p] = At("confirm", handler[p].block, handler[p].next + 1)
  <1>1. CASE \E q \in Proc : Persist(q)
    BY <1>1 DEF Persist, TypeOK, dbVars
  <1>2. CASE \E q \in Proc : InsertBlock(q)
    BY <1>2 DEF InsertBlock, Store, Collide, RaceLost, TypeOK
  <1>3. CASE \E q \in Proc : ConfirmNext(q)
    BY <1>3 DEF ConfirmNext, TypeOK
  <1>4. CASE \E q \in Proc : DbFailure(q) \/ Ack(q) \/ Crash(q) \/ Restart(q) \/ StartFails(q)
    BY <1>4 DEF DbFailure, Ack, Crash, Restart, StartFails, TypeOK
  <1>5. CASE \E q \in Proc : Deliver(q)
    BY <1>5 DEF Deliver, TypeOK
  <1>6. CASE \/ \E t \in TxId : Submit(t)
             \/ \E b \in Block : Publish(b)
             \/ \E q \in Proc : LoseConnection(q)
             \/ UNCHANGED vars
    BY <1>6 DEF Submit, Publish, LoseConnection, vars
  <1>. QED
    BY <1>1, <1>2, <1>3, <1>4, <1>5, <1>6 DEF Next, ConsumerStep, BrokerStep, ProcessStep

\* A block is noted as raced only once it is stored.
LEMMA RacedEffect ==
    ASSUME TypeOK, [Next]_vars
    PROVE  raced' \subseteq raced \cup blocks /\ raced \subseteq raced'
  <1>1. ASSUME NEW p \in Proc, InsertBlock(p)
        PROVE  raced' \subseteq raced \cup blocks /\ raced \subseteq raced'
    BY <1>1 DEF InsertBlock, Store, Collide, RaceLost
  <1>. QED
    BY <1>1
       DEF Next, vars, ConsumerStep, BrokerStep, ProcessStep, Submit, Publish, Deliver,
           LoseConnection, Crash, Restart, StartFails, Persist, ConfirmNext, DbFailure, Ack,
           historyVars

LEMMA HandlerTypes ==
    ASSUME TypeOK, NEW p \in Proc
    PROVE  /\ handler[p].next \in Nat
           /\ handler[p].pc \in {"persist", "insert", "confirm", "ack"} => handler[p].block \in Block
  BY DEF TypeOK, Handler

LEMMA Fields ==
    /\ Idle.pc = "idle" /\ Idle.block = NoBlock
    /\ Down.pc = "down" /\ Down.block = NoBlock
    /\ Dead.pc = "dead" /\ Dead.block = NoBlock
    /\ \A pc, b, n : At(pc, b, n).pc = pc /\ At(pc, b, n).block = b /\ At(pc, b, n).next = n
  BY DEF Idle, Down, Dead, At

\* A message in flight stays so, is rejected, or is acked by the handler of its block.
LEMMA InFlightEffect ==
    ASSUME TypeOK, OutAtHandler, [Next]_vars, NEW b \in Block, InFlight(b)
    PROVE  InFlight(b)' \/ b \in dropped' \/ \E p \in Proc : Ack(p) /\ handler[p].block = b
  <1>1. CASE \E c \in Block : Publish(c)
    <2>1. PICK c \in Block : queue' = Append(queue, c) /\ queue \in Seq(Block)
      BY <1>1 DEF Publish, TypeOK
    <2>2. Range(queue') = Range(queue) \cup {c}
      BY <2>1, RangeAppend
    <2>. QED
      BY <1>1, <2>2 DEF Publish, InFlight
  <1>2. CASE \E p \in Proc : Deliver(p)
    <2>1. PICK p \in Proc : Deliver(p)
      BY <1>2
    <2>2. Range(queue) = Range(queue') \cup {Head(queue)} /\ Head(queue) \in Block
      BY <2>1, RangeTail DEF Deliver, TypeOK
    <2>3. unacked'[p] = Head(queue) /\ \A q \in Proc : unacked[q] # NoBlock => unacked'[q] = unacked[q]
      BY <2>1 DEF Deliver, TypeOK
    <2>. QED
      BY <2>2, <2>3, BlocksAssumption DEF InFlight
  <1>3. CASE \E p \in Proc : LoseConnection(p) \/ Crash(p)
    <2>1. PICK p \in Proc : Requeue(p)
      BY <1>3 DEF LoseConnection, Crash
    <2>. QED
      BY <2>1, RequeueEffect, BlocksAssumption DEF InFlight, TypeOK
  <1>4. CASE \E p \in Proc : DbFailure(p)
    <2>1. PICK p \in Proc : DbFailure(p)
      BY <1>4
    <2>2. unacked[p] = b => b \in dropped'
      BY <2>1, BlocksAssumption DEF DbFailure, OutAtHandler
    <2>3. queue' = queue /\ \A q \in Proc \ {p} : unacked'[q] = unacked[q]
      BY <2>1 DEF DbFailure, TypeOK
    <2>. QED
      BY <2>2, <2>3 DEF InFlight
  <1>5. CASE \E p \in Proc : Ack(p)
    <2>1. PICK p \in Proc : Ack(p)
      BY <1>5
    <2>2. queue' = queue /\ \A q \in Proc \ {p} : unacked'[q] = unacked[q]
      BY <2>1 DEF Ack, TypeOK
    <2>. QED
      BY <2>1, <2>2, BlocksAssumption DEF InFlight, OutAtHandler
  <1>6. CASE UNCHANGED <<queue, unacked>>
    BY <1>6 DEF InFlight
  <1>. QED
    BY <1>1, <1>2, <1>3, <1>4, <1>5, <1>6
       DEF Next, ConsumerStep, BrokerStep, ProcessStep, Submit, Persist, InsertBlock,
           ConfirmNext, Restart, StartFails,
           brokerVars, vars
-----------------------------------------------------------------------------
(* The inductive invariant, one part at a time.                            *)

LEMMA InvInit == Init => IInv
  <1>. SUFFICES ASSUME Init
                PROVE  IInv
    OBVIOUS
  <1>1. TypeOK
    BY TypeInit
  <1>2. UniqueHeights /\ OnlyPublished /\ OutAtHandler /\ HandlerStored /\ PassedEntries
    BY DEF Init, Idle, UniqueHeights, OnlyPublished, OutAtHandler, HandlerStored,
           PassedEntries, Range
  <1>3. ConfirmedInChain /\ NoSilentLoss /\ NoForgottenConfirmation
    BY DEF Init, NoDoc, ConfirmedInChain, NoSilentLoss, NoForgottenConfirmation
  <1>. QED
    BY <1>1, <1>2, <1>3 DEF IInv

LEMMA UniqueHeightsStep ==
    ASSUME TypeOK, UniqueHeights, [Next]_vars
    PROVE  UniqueHeights'
  BY BlocksEffect DEF UniqueHeights, HeightTaken

\* A height that is taken stays taken, and the block it refuses stays out.
LEMMA HeightTakenStep ==
    ASSUME TypeOK, [Next]_vars, NEW b, HeightTaken(b)
    PROVE  HeightTaken(b)'
  BY BlocksEffect DEF HeightTaken

LEMMA OnlyPublishedStep ==
    ASSUME TypeOK, OnlyPublished, OutAtHandler, [Next]_vars
    PROVE  OnlyPublished'
  <1>1. published \subseteq published'
    BY DEF Next, vars, ConsumerStep, BrokerStep, ProcessStep, Submit, Publish, Deliver,
           LoseConnection, Crash, Restart, StartFails, Persist, InsertBlock, ConfirmNext, DbFailure, Ack, historyVars
  <1>2. blocks' \subseteq published'
    BY <1>1, BlocksEffect, HandlerTypes, BlocksAssumption DEF OnlyPublished
  <1>3. Range(queue') \subseteq published'
    <2>1. CASE \E b \in Block : Publish(b)
      <3>1. PICK c \in Block : /\ queue' = Append(queue, c) /\ queue \in Seq(Block)
                               /\ c \in published'
        BY <2>1 DEF Publish, TypeOK
      <3>2. Range(queue') = Range(queue) \cup {c}
        BY <3>1, RangeAppend
      <3>. QED
        BY <1>1, <3>1, <3>2 DEF OnlyPublished
    <2>2. CASE \E p \in Proc : Deliver(p)
      BY <1>1, <2>2, RangeTail DEF Deliver, TypeOK, OnlyPublished
    <2>3. CASE \E p \in Proc : LoseConnection(p) \/ Crash(p)
      <3>1. PICK p \in Proc : Requeue(p)
        BY <2>3 DEF LoseConnection, Crash
      <3>2. unacked[p] # NoBlock => unacked[p] \in published
        BY <3>1 DEF OnlyPublished, OutAtHandler
      <3>. QED
        BY <1>1, <3>1, <3>2, RequeueEffect DEF OnlyPublished
    <2>4. CASE queue' = queue
      BY <1>1, <2>4 DEF OnlyPublished
    <2>. QED
      BY <2>1, <2>2, <2>3, <2>4
         DEF Next, vars, ConsumerStep, BrokerStep, ProcessStep, Submit, Restart, StartFails, Persist,
             InsertBlock, ConfirmNext, DbFailure, Ack, brokerVars
  <1>4. ASSUME NEW p \in Proc, handler'[p].block # NoBlock
        PROVE  handler'[p].block \in published'
    <2>1. queue # <<>> => Head(queue) \in published
      BY RangeTail DEF OnlyPublished, TypeOK
    <2>3. handler[p].block # NoBlock => handler[p].block \in published
      BY DEF OnlyPublished
    <2>4. \/ handler'[p].block \in {handler[p].block, NoBlock}
          \/ queue # <<>> /\ handler'[p].block = Head(queue)
      BY HandlerEffect, Fields
    <2>. QED
      BY <1>1, <1>4, <2>1, <2>3, <2>4
  <1>. QED
    BY <1>2, <1>3, <1>4 DEF OnlyPublished

LEMMA OutAtHandlerStep ==
    ASSUME TypeOK, OutAtHandler, [Next]_vars
    PROVE  OutAtHandler'
  <1>1. CASE \E p \in Proc : LoseConnection(p) \/ Crash(p)
    BY <1>1, RequeueEffect DEF LoseConnection, Crash, OutAtHandler, TypeOK
  <1>2. CASE \E p \in Proc : Deliver(p)
    BY <1>2 DEF Deliver, OutAtHandler, TypeOK, At
  <1>3. CASE \E p \in Proc : Restart(p) \/ StartFails(p)
    BY <1>3 DEF Restart, StartFails, OutAtHandler, TypeOK, brokerVars
  <1>4. CASE \E p \in Proc : Ack(p) \/ DbFailure(p)
    BY <1>4 DEF Ack, DbFailure, OutAtHandler, TypeOK
  <1>5. CASE \E p \in Proc : Persist(p) \/ InsertBlock(p)
    BY <1>5 DEF Persist, InsertBlock, Store, Collide, RaceLost, At, OutAtHandler, TypeOK,
                brokerVars
  <1>6. CASE \E p \in Proc : ConfirmNext(p)
    BY <1>6 DEF ConfirmNext, At, OutAtHandler, TypeOK, brokerVars
  <1>7. CASE UNCHANGED <<handler, unacked>>
    BY <1>7 DEF OutAtHandler
  <1>. QED
    BY <1>1, <1>2, <1>3, <1>4, <1>5, <1>6, <1>7
       DEF Next, vars, ConsumerStep, BrokerStep, ProcessStep, Submit, Publish, brokerVars

LEMMA HandlerStoredStep ==
    ASSUME TypeOK, HandlerStored, [Next]_vars
    PROVE  HandlerStored'
  <1>1. blocks \subseteq blocks' /\ raced \subseteq raced' /\ raced' \subseteq blocks'
    BY BlocksEffect, RacedEffect DEF HandlerStored
  <1>2. SUFFICES ASSUME NEW p \in Proc
                 PROVE  /\ handler'[p].pc = "confirm" =>
                               handler'[p].block \in blocks' /\ handler'[p].next >= 1
                        /\ handler'[p].pc = "ack" =>
                               \/ \E c \in blocks' \ {handler'[p].block} :
                                      BlockIndex[c] = BlockIndex[handler'[p].block]
                               \/ handler'[p].block \in raced'
    BY <1>1 DEF HandlerStored, HeightTaken
  <1>3. handler[p].next \in Nat
    BY HandlerTypes
  <1>4. CASE handler'[p] = handler[p]
    BY <1>1, <1>4 DEF HandlerStored, HeightTaken
  <1>5. CASE /\ HeightTaken(handler[p].block) \/ handler[p].block \in raced'
             /\ handler'[p] = At("ack", handler[p].block, 0)
    BY <1>1, <1>5 DEF HeightTaken, At
  <1>6. CASE /\ handler[p].block \in blocks'
             /\ handler'[p] = At("confirm", handler[p].block, 1)
    BY <1>6 DEF At
  <1>7. CASE /\ Confirming(p)
             /\ handler'[p] = At("confirm", handler[p].block, handler[p].next + 1)
    BY <1>1, <1>3, <1>7 DEF At, Confirming, HandlerStored
  <1>8. CASE \/ queue # <<>> /\ handler'[p] = At("persist", Head(queue), 0)
             \/ handler'[p] = At("insert", handler[p].block, 0)
             \/ handler'[p] \in {Idle, Down, Dead}
    <2>1. handler'[p].pc \in {"idle", "down", "dead", "persist", "insert"}
      BY <1>8, Fields
    <2>. QED
      BY <2>1
  <1>. QED
    BY <1>4, <1>5, <1>6, <1>7, <1>8, HandlerEffect

\* A document that is not pending never becomes pending once a published block lists it.
LEMMA SettledStep ==
    ASSUME TypeOK, [Next]_vars, NEW b \in published, NEW t \in TxId, t \in IdsOf(b),
           transactions[t].status # "PENDING"
    PROVE  transactions'[t].status # "PENDING"
  <1>1. transactions'[t] = transactions[t] \/ \E i : transactions'[t] = ConfirmedDoc(i)
    BY DocsEffect
  <1>2. \A i : ConfirmedDoc(i).status # "PENDING"
    BY DEF ConfirmedDoc
  <1>. QED
    BY <1>1, <1>2

LEMMA PassedEntriesStep ==
    ASSUME TypeOK, OnlyPublished, PassedEntries, [Next]_vars
    PROVE  PassedEntries'
  <1>. SUFFICES ASSUME NEW p \in Proc, handler'[p].pc = "confirm",
                       NEW i \in DOMAIN BlockTxs[handler'[p].block],
                       i < handler'[p].next,
                       BlockTxs[handler'[p].block][i] \in TxId
                PROVE  transactions'[BlockTxs[handler'[p].block][i]].status # "PENDING"
    BY DEF PassedEntries
  <1>. DEFINE b == handler[p].block
              t == BlockTxs[b][i]
  <1>1. CASE handler'[p] = handler[p]
    <2>1. b \in published /\ t \in IdsOf(b)
      BY <1>1, BlocksAssumption DEF OnlyPublished, TypeOK, IdsOf
    <2>2. transactions[t].status # "PENDING"
      BY <1>1 DEF PassedEntries
    <2>. QED
      BY <1>1, <2>1, <2>2, SettledStep
  <1>2. CASE /\ handler[p].pc \in {"persist", "insert"}
             /\ handler'[p] = At("confirm", b, 1)
    <2>1. b \in Block
      BY <1>2 DEF TypeOK, Handler
    <2>2. i >= 1
      BY <1>2, <2>1, BlocksAssumption DEF At
    <2>. QED
      BY <1>2, <2>1, <2>2, BlocksAssumption DEF At
  <1>3. CASE /\ Confirming(p)
             /\ ConfirmEntry(b, handler[p].next)
             /\ handler'[p] = At("confirm", b, handler[p].next + 1)
    <2>1. b \in Block /\ b \in published /\ handler[p].next \in Nat /\ i \in Nat
      BY <1>3, BlocksAssumption DEF Confirming, TypeOK, Handler, OnlyPublished, At
    <2>2. CASE i < handler[p].next
      <3>1. transactions[t].status # "PENDING" /\ t \in IdsOf(b) /\ t \in TxId
        BY <1>3, <2>2, BlocksAssumption DEF PassedEntries, Confirming, At, IdsOf
      <3>. QED
        BY <1>3, <2>1, <3>1, SettledStep DEF At
    <2>3. CASE i = handler[p].next
      BY <1>3, <2>1, <2>3, ConfirmEntryEffect DEF At
    <2>. QED
      BY <1>3, <2>1, <2>2, <2>3 DEF At
  <1>4. CASE handler'[p].pc \in {"idle", "down", "dead", "persist", "insert", "ack"}
    BY <1>4
  <1>. QED
    BY <1>1, <1>2, <1>3, <1>4, HandlerEffect, Fields

\* ConfirmedInChain: a confirmation comes from a handler whose block is stored.
LEMMA ConfirmedInChainStep ==
    ASSUME TypeOK, HandlerStored, ConfirmedInChain, [Next]_vars
    PROVE  ConfirmedInChain'
  <1>. SUFFICES ASSUME NEW t \in TxId, transactions'[t].status = "CONFIRMED",
                       transactions'[t] # Posted[t]
                PROVE  \E b \in blocks' :
                           t \in IdsOf(b) /\ BlockIndex[b] = transactions'[t].block_index
    BY DEF ConfirmedInChain
  <1>1. blocks \subseteq blocks'
    BY BlocksEffect
  <1>2. CASE transactions'[t] = transactions[t]
    BY <1>1, <1>2 DEF ConfirmedInChain
  <1>3. CASE \E p \in Proc : /\ Confirming(p)
                             /\ t = BlockTxs[handler[p].block][handler[p].next]
                             /\ transactions'[t] = ConfirmedDoc(BlockIndex[handler[p].block])
    <2>1. PICK p \in Proc : /\ Confirming(p)
                            /\ t = BlockTxs[handler[p].block][handler[p].next]
                            /\ transactions'[t] = ConfirmedDoc(BlockIndex[handler[p].block])
      BY <1>3
    <2>2. /\ handler[p].block \in blocks /\ handler[p].block \in Block
          /\ handler[p].next \in 1..Len(BlockTxs[handler[p].block])
      BY <2>1, HandlerTypes DEF Confirming, HandlerStored
    <2>3. t \in IdsOf(handler[p].block)
      BY <2>1, <2>2, BlocksAssumption DEF IdsOf
    <2>4. transactions'[t].block_index = BlockIndex[handler[p].block]
      BY <2>1 DEF ConfirmedDoc
    <2>. QED
      BY <1>1, <2>2, <2>3, <2>4
  <1>. QED
    BY <1>2, <1>3, DocsEffect

\* NoSilentLoss: the ack comes when the block is stored or refused.
LEMMA NoSilentLossStep ==
    ASSUME TypeOK, OutAtHandler, HandlerStored, NoSilentLoss, [Next]_vars
    PROVE  NoSilentLoss'
  <1>. SUFFICES ASSUME NEW b \in published'
                PROVE  InFlight(b)' \/ b \in blocks' \/ HeightTaken(b)' \/ b \in dropped'
    BY DEF NoSilentLoss
  <1>1. dropped \subseteq dropped' /\ blocks \subseteq blocks'
    BY BlocksEffect
       DEF Next, vars, ConsumerStep, BrokerStep, ProcessStep, Submit, Publish, Deliver,
           LoseConnection, Crash, Restart, StartFails, Persist, InsertBlock, ConfirmNext, DbFailure, Ack, historyVars
  <1>2. CASE b \in published
    <2>1. CASE InFlight(b)
      <3>1. ASSUME NEW p \in Proc, Ack(p), handler[p].block = b
            PROVE  b \in blocks \/ HeightTaken(b)
        BY <3>1 DEF Ack, HandlerStored
      <3>2. b \in Block
        BY <1>2 DEF TypeOK
      <3>. QED
        BY <1>1, <2>1, <3>1, <3>2, InFlightEffect, HeightTakenStep
    <2>2. CASE b \in blocks \/ HeightTaken(b) \/ b \in dropped
      BY <1>1, <2>2, HeightTakenStep
    <2>. QED
      BY <1>2, <2>1, <2>2 DEF NoSilentLoss
  <1>3. CASE b \notin published
    <2>1. PICK c \in Block : Publish(c)
      BY <1>3 DEF Next, vars, ConsumerStep, BrokerStep, ProcessStep, Submit, Deliver,
                  LoseConnection, Crash, Restart, StartFails, Persist, InsertBlock, ConfirmNext, DbFailure, Ack,
                  historyVars
    <2>2. b = c /\ queue' = Append(queue, b) /\ queue \in Seq(Block)
      BY <1>3, <2>1 DEF Publish, TypeOK
    <2>3. b \in Block /\ Range(queue') = Range(queue) \cup {b}
      BY <2>1, <2>2, RangeAppend
    <2>. QED
      BY <2>3 DEF InFlight
  <1>. QED
    BY <1>2, <1>3

\* NoForgottenConfirmation: a block enters the collection while its message is in
\* flight, and the message leaves only when the loop has passed every entry.
LEMMA NoForgottenConfirmationStep ==
    ASSUME TypeOK, UniqueHeights, OnlyPublished, OutAtHandler, HandlerStored, PassedEntries,
           NoSilentLoss, NoForgottenConfirmation, [Next]_vars
    PROVE  NoForgottenConfirmation'
  <1>. SUFFICES ASSUME NEW b \in blocks', NEW t \in IdsOf(b) \cap TxId,
                       transactions'[t].status = "PENDING"
                PROVE  InFlight(b)' \/ b \in dropped' \cup raced'
    BY DEF NoForgottenConfirmation
  <1>1. b \in published /\ b \in Block
    BY BlocksEffect, HandlerTypes, BlocksAssumption DEF OnlyPublished, TypeOK
  <1>2. transactions[t].status = "PENDING"
    BY <1>1, SettledStep
  <1>3. InFlight(b) \/ b \in dropped \cup raced
    <2>1. CASE b \in blocks
      BY <1>2, <2>1 DEF NoForgottenConfirmation
    <2>2. CASE b \notin blocks
      <3>1. ~HeightTaken(b)
        BY <2>2, BlocksEffect
      <3>. QED
        BY <1>1, <2>2, <3>1 DEF NoSilentLoss
    <2>. QED
      BY <2>1, <2>2
  <1>4. ASSUME NEW p \in Proc, Ack(p), handler[p].block = b, b \notin raced
        PROVE  FALSE
    <2>1. blocks' = blocks
      BY <1>4 DEF Ack, dbVars
    <2>2. ~HeightTaken(b)
      BY <2>1 DEF UniqueHeights, HeightTaken
    <2>3. handler[p].pc = "confirm" /\ handler[p].next > Len(BlockTxs[b])
      <3>1. handler[p].pc = "confirm" /\ ~(handler[p].next <= Len(BlockTxs[b]))
        BY <1>4, <2>2 DEF Ack, Busy, Confirming, HandlerStored
      <3>. QED
        BY <1>1, <3>1, HandlerTypes, BlocksAssumption
    <2>4. PICK i \in DOMAIN BlockTxs[b] : t = BlockTxs[b][i]
      BY DEF IdsOf
    <2>5. i < handler[p].next
      BY <1>1, <2>3, <2>4, HandlerTypes, BlocksAssumption
    <2>. QED
      BY <1>2, <1>4, <2>3, <2>4, <2>5 DEF PassedEntries
  <1>5. dropped \subseteq dropped' /\ raced \subseteq raced'
    BY RacedEffect
       DEF Next, vars, ConsumerStep, BrokerStep, ProcessStep, Submit, Publish, Deliver,
           LoseConnection, Crash, Restart, StartFails, Persist, InsertBlock, ConfirmNext, DbFailure, Ack, historyVars
  <1>. QED
    BY <1>1, <1>3, <1>4, <1>5, InFlightEffect

LEMMA InvStep == IInv /\ [Next]_vars => IInv'
  BY TypeStep, UniqueHeightsStep, OnlyPublishedStep, OutAtHandlerStep, HandlerStoredStep,
     PassedEntriesStep, ConfirmedInChainStep, NoSilentLossStep, NoForgottenConfirmationStep
     DEF IInv

\* The inductive invariant holds in every state of the consumers.
THEOREM Invariance == Spec => []IInv
  BY InvInit, InvStep, PTL DEF Spec

-----------------------------------------------------------------------------
(* The properties of the runs.                                             *)

\* A transaction shown as CONFIRMED at a height is in the stored block of that height,
\* unless it was posted so, whatever crashes, lost connections, redeliveries and forks the consumers meet.
THEOREM ConfirmedInChainAlways == Spec => []ConfirmedInChain
  BY Invariance, PTL DEF IInv

\* No published block vanishes without the broker, the collection or a rejection
\* accounting for it.
THEOREM NoSilentLossAlways == Spec => []NoSilentLoss
  BY Invariance, PTL DEF IInv

\* While a transaction of a stored block is pending, the message of the block is
\* still to come (again) or was rejected.
THEOREM NoForgottenConfirmationAlways == Spec => []NoForgottenConfirmation
  BY Invariance, PTL DEF IInv

-----------------------------------------------------------------------------
(* One consumer: the order of the queue is the order of the chain.         *)

\* What NoSilentLoss promises of a block in the end: it is stored, its message was
\* rejected, or its height is another block's.
Settled(b) == b \in blocks \cup dropped \/ HeightTaken(b)

\* Settled once the step is taken.
SettledNext(b) ==
    b \in blocks' \cup dropped' \/ \E c \in blocks' \ {b} : BlockIndex[c] = BlockIndex[b]

\* When a handler works on a block, its parent is settled.
ParentSettled ==
    \A p \in Proc : handler[p].block # NoBlock => Settled(BlockParent[handler[p].block])

\* The parent of a waiting block is settled, waits further ahead, or is out at a process.
ParentsAhead ==
    \A i \in DOMAIN queue :
        \/ Settled(BlockParent[queue[i]])
        \/ \E j \in 1..(i - 1) : queue[j] = BlockParent[queue[i]]
        \/ \E p \in Proc : unacked[p] = BlockParent[queue[i]]

GapsInv == IInv /\ ParentSettled /\ ParentsAhead /\ GapsExplained

LEMMA SettledForGood ==
    ASSUME TypeOK, [Next]_vars, NEW b, Settled(b)
    PROVE  SettledNext(b)
  <1>1. dropped \subseteq dropped'
    BY DEF Next, vars, ConsumerStep, BrokerStep, ProcessStep, Submit, Publish, Deliver,
           LoseConnection, Crash, Restart, StartFails, Persist, InsertBlock, ConfirmNext, DbFailure, Ack, historyVars
  <1>. QED
    BY <1>1, BlocksEffect, HeightTakenStep DEF Settled, SettledNext, HeightTaken

LEMMA ParentType == \A b \in Block : BlockParent[b] \in Block /\ BlockParent[b] # NoBlock
  BY BlocksAssumption

\* The handler takes the head of the queue when nothing is out: nothing is ahead of it.
LEMMA ParentSettledStep ==
    ASSUME \A p, q \in Proc : p = q, TypeOK, ParentSettled, ParentsAhead, [Next]_vars
    PROVE  ParentSettled'
  <1>. SUFFICES ASSUME NEW p \in Proc, handler'[p].block # NoBlock
                PROVE  SettledNext(BlockParent[handler'[p].block])
    BY DEF ParentSettled, Settled, SettledNext, HeightTaken
  <1>1. CASE \E q \in Proc : Deliver(q)
    <2>1. Deliver(p)
      BY <1>1
    <2>2. handler'[p].block = Head(queue) /\ queue # <<>> /\ unacked[p] = NoBlock
      BY <2>1 DEF Deliver, TypeOK, At
    <2>3. Head(queue) = queue[1] /\ 1 \in DOMAIN queue /\ queue[1] \in Block
      BY <2>2 DEF TypeOK
    <2>4. ~\E q \in Proc : unacked[q] = BlockParent[queue[1]]
      BY <2>2, <2>3, ParentType
    <2>5. ~\E j \in 1..(1 - 1) : queue[j] = BlockParent[queue[1]]
      OBVIOUS
    <2>6. Settled(BlockParent[queue[1]])
      BY <2>3, <2>4, <2>5 DEF ParentsAhead
    <2>. QED
      BY <2>2, <2>3, <2>6, SettledForGood
  <1>2. CASE ~\E q \in Proc : Deliver(q)
    <2>1. handler'[p].block = handler[p].block
      <3>1. ASSUME NEW q \in Proc,
                   Persist(q) \/ InsertBlock(q) \/ ConfirmNext(q) \/ LoseConnection(q)
            PROVE  handler'[p].block = handler[p].block
        BY <3>1 DEF Persist, InsertBlock, Store, Collide, RaceLost, ConfirmNext,
                    LoseConnection, TypeOK, At
      <3>2. ASSUME NEW q \in Proc,
                   DbFailure(q) \/ Ack(q) \/ Crash(q) \/ Restart(q) \/ StartFails(q)
            PROVE  FALSE
        <4>1. q = p
          OBVIOUS
        <4>2. handler'[p] \in {Idle, Down, Dead}
          BY <3>2, <4>1 DEF DbFailure, Ack, Crash, Restart, StartFails, TypeOK
        <4>. QED
          BY <4>2, Fields
      <3>3. CASE UNCHANGED handler
        BY <3>3
      <3>. QED
        BY <1>2, <3>1, <3>2, <3>3
           DEF Next, vars, ConsumerStep, BrokerStep, ProcessStep, Submit, Publish
    <2>2. Settled(BlockParent[handler[p].block])
      BY <2>1 DEF ParentSettled
    <2>. QED
      BY <2>1, <2>2, SettledForGood
  <1>. QED
    BY <1>1, <1>2

\* A message leaves its place at a process as a settled block, or for the head of the queue.
LEMMA OutStep ==
    ASSUME TypeOK, OutAtHandler, HandlerStored, [Next]_vars, NEW p \in Proc,
           unacked[p] # NoBlock
    PROVE  \/ unacked'[p] = unacked[p]
           \/ SettledNext(unacked[p])
           \/ queue' = <<unacked[p]>> \o queue
  <1>1. unacked[p] \in Block /\ handler[p].block = unacked[p]
    BY DEF TypeOK, OutAtHandler
  <1>2. ASSUME NEW q \in Proc, Deliver(q)
        PROVE  unacked'[p] = unacked[p]
    BY <1>2 DEF Deliver, TypeOK
  <1>3. ASSUME NEW q \in Proc, LoseConnection(q) \/ Crash(q)
        PROVE  unacked'[p] = unacked[p] \/ queue' = <<unacked[p]>> \o queue
    BY <1>3 DEF LoseConnection, Crash, Requeue, TypeOK
  <1>4. ASSUME NEW q \in Proc, DbFailure(q)
        PROVE  unacked'[p] = unacked[p] \/ SettledNext(unacked[p])
    <2>1. CASE q # p
      BY <1>4, <2>1 DEF DbFailure, TypeOK
    <2>2. CASE q = p
      <3>1. unacked[p] \in dropped'
        BY <1>1, <1>4, <2>2 DEF DbFailure
      <3>. QED
        BY <3>1 DEF SettledNext
    <2>. QED
      BY <2>1, <2>2
  <1>5. ASSUME NEW q \in Proc, Ack(q)
        PROVE  unacked'[p] = unacked[p] \/ SettledNext(unacked[p])
    <2>1. CASE q # p
      BY <1>5, <2>1 DEF Ack, TypeOK
    <2>2. CASE q = p
      <3>1. Settled(unacked[p])
        BY <1>1, <1>5, <2>2 DEF Ack, HandlerStored, Settled
      <3>. QED
        BY <3>1, SettledForGood
    <2>. QED
      BY <2>1, <2>2
  <1>6. CASE UNCHANGED unacked
    BY <1>6
  <1>. QED
    BY <1>2, <1>3, <1>4, <1>5, <1>6
       DEF Next, vars, ConsumerStep, BrokerStep, ProcessStep, Submit, Publish, Persist,
           InsertBlock, ConfirmNext, Restart, StartFails, brokerVars

\* The four things a step does to the queue.
LEMMA QueueEffect ==
    ASSUME TypeOK, [Next]_vars
    PROVE  \/ queue' = queue
           \/ /\ \E b \in Block : Publish(b) /\ queue' = Append(queue, b)
              /\ unacked' = unacked
           \/ \E p \in Proc : /\ Deliver(p) /\ queue # <<>> /\ queue' = Tail(queue)
                              /\ unacked'[p] = Head(queue)
           \/ \E p \in Proc : unacked[p] \in Block /\ queue' = <<unacked[p]>> \o queue
  <1>1. ASSUME NEW p \in Proc, Deliver(p)
        PROVE  queue # <<>> /\ queue' = Tail(queue) /\ unacked'[p] = Head(queue)
    BY <1>1 DEF Deliver, TypeOK
  <1>2. ASSUME NEW p \in Proc, LoseConnection(p) \/ Crash(p)
        PROVE  queue' = queue \/ (unacked[p] \in Block /\ queue' = <<unacked[p]>> \o queue)
    BY <1>2 DEF LoseConnection, Crash, Requeue, TypeOK
  <1>3. ASSUME NEW b \in Block, Publish(b)
        PROVE  queue' = Append(queue, b) /\ unacked' = unacked
    BY <1>3 DEF Publish
  <1>4. ASSUME NEW p \in Proc, ConsumerStep(p) \/ Restart(p) \/ StartFails(p)
        PROVE  queue' = queue
    BY <1>4 DEF ConsumerStep, Persist, InsertBlock, ConfirmNext, DbFailure, Ack, Restart,
                StartFails, brokerVars
  <1>5. ASSUME NEW t \in TxId, Submit(t)
        PROVE  queue' = queue
    BY <1>5 DEF Submit, brokerVars
  <1>. QED
    BY <1>1, <1>2, <1>3, <1>4, <1>5 DEF Next, vars, BrokerStep, ProcessStep

\* What was waiting behind its parent still does, or the parent went to a process, or
\* came back to the head of the queue, or is settled.
LEMMA ParentsAheadStep ==
    ASSUME \A p, q \in Proc : p = q, TypeOK, OutAtHandler, HandlerStored, NoSilentLoss,
           ParentSettled, ParentsAhead, [Next]_vars
    PROVE  ParentsAhead'
  <1>. DEFINE Ahead(q, i, a) == \E j \in 1..(i - 1) : q[j] = a
              Out(a) == \E p \in Proc : unacked[p] = a
              OutNext(a) == \E p \in Proc : unacked'[p] = a
              Owed(i, a) == SettledNext(a) \/ Ahead(queue', i, a) \/ OutNext(a)
  <1>. SUFFICES ASSUME NEW i \in DOMAIN queue'
                PROVE  Owed(i, BlockParent[queue'[i]])
    BY DEF ParentsAhead, Settled, SettledNext, HeightTaken
  <1>0. queue \in Seq(Block) /\ queue' \in Seq(Block) /\ Len(queue) \in Nat
    BY TypeStep DEF TypeOK
  <1>1. ASSUME NEW a, a # NoBlock, Out(a)
        PROVE  SettledNext(a) \/ OutNext(a) \/ queue' = <<a>> \o queue
    BY <1>1, OutStep
  <1>2. \A k \in DOMAIN queue : /\ BlockParent[queue[k]] # NoBlock
                                /\ \/ SettledNext(BlockParent[queue[k]])
                                   \/ Ahead(queue, k, BlockParent[queue[k]])
                                   \/ Out(BlockParent[queue[k]])
    BY <1>0, SettledForGood, ParentType DEF ParentsAhead
  <1>3. CASE queue' = queue
    <2>1. i \in DOMAIN queue /\ queue'[i] = queue[i]
      BY <1>3
    <2>2. \A a : queue' # <<a>> \o queue
      BY <1>0, <1>3
    <2>. QED
      BY <1>1, <1>2, <1>3, <2>1, <2>2
  <1>4. CASE \E b \in Block : Publish(b) /\ queue' = Append(queue, b) /\ unacked' = unacked
    <2>1. PICK b \in Block : Publish(b) /\ queue' = Append(queue, b) /\ unacked' = unacked
      BY <1>4
    <2>2. \A j \in 1..Len(queue) : queue'[j] = queue[j]
      BY <1>0, <2>1
    <2>3. CASE i \in 1..Len(queue)
      <3>1. i \in DOMAIN queue /\ queue'[i] = queue[i]
        BY <1>0, <2>2, <2>3
      <3>2. \A a : Ahead(queue, i, a) => Ahead(queue', i, a)
        BY <1>0, <2>2, <2>3
      <3>. QED
        BY <1>2, <2>1, <3>1, <3>2
    <2>4. CASE i \notin 1..Len(queue)
      <3>1. i = Len(queue) + 1 /\ queue'[i] = b
        BY <1>0, <2>1, <2>4
      <3>2. BlockParent[b] \in published
        BY <2>1 DEF Publish
      <3>3. InFlight(BlockParent[b]) \/ Settled(BlockParent[b])
        BY <3>2 DEF NoSilentLoss, Settled
      <3>4. ASSUME BlockParent[b] \in Range(queue)
            PROVE  Ahead(queue', i, BlockParent[b])
        <4>1. PICK j \in 1..Len(queue) : queue[j] = BlockParent[b]
          BY <1>0, <3>4 DEF Range
        <4>. QED
          BY <1>0, <2>2, <3>1, <4>1
      <3>. QED
        BY <2>1, <3>1, <3>3, <3>4, SettledForGood DEF InFlight
    <2>. QED
      BY <2>3, <2>4
  <1>5. CASE \E p \in Proc : /\ Deliver(p) /\ queue # <<>> /\ queue' = Tail(queue)
                             /\ unacked'[p] = Head(queue)
    <2>1. PICK p \in Proc : /\ Deliver(p) /\ queue # <<>> /\ queue' = Tail(queue)
                            /\ unacked'[p] = Head(queue)
      BY <1>5
    <2>2. /\ i + 1 \in DOMAIN queue /\ queue'[i] = queue[i + 1]
          /\ \A j \in 1..i : j # 1 => j - 1 \in 1..(i - 1) /\ queue[j] = queue'[j - 1]
          /\ Head(queue) = queue[1]
      BY <1>0, <2>1
    <2>3. ASSUME NEW a, Ahead(queue, i + 1, a)
          PROVE  Ahead(queue', i, a) \/ OutNext(a)
      <3>1. PICK j \in 1..i : queue[j] = a
        BY <1>0, <2>3
      <3>2. CASE j = 1
        BY <2>1, <2>2, <3>1, <3>2
      <3>3. CASE j # 1
        BY <2>2, <3>1, <3>3
      <3>. QED
        BY <3>2, <3>3
    <2>4. \A a : a # NoBlock => ~Out(a)
      BY <2>1 DEF Deliver
    <2>. QED
      BY <1>2, <2>2, <2>3, <2>4
  <1>6. CASE \E p \in Proc : unacked[p] \in Block /\ queue' = <<unacked[p]>> \o queue
    <2>1. PICK p \in Proc : unacked[p] \in Block /\ queue' = <<unacked[p]>> \o queue
      BY <1>6
    <2>2. /\ queue'[1] = unacked[p]
          /\ i = 1 \/ (i - 1 \in DOMAIN queue /\ queue'[i] = queue[i - 1])
          /\ \A j \in DOMAIN queue : queue'[j + 1] = queue[j]
      BY <1>0, <2>1
    <2>3. CASE i = 1
      <3>1. handler[p].block = unacked[p] /\ handler[p].block # NoBlock
        BY <2>1, BlocksAssumption DEF OutAtHandler
      <3>2. SettledNext(BlockParent[queue'[i]])
        BY <2>2, <2>3, <3>1, SettledForGood DEF ParentSettled
      <3>. QED
        BY <3>2
    <2>4. CASE i # 1
      <3>1. i - 1 \in DOMAIN queue /\ queue'[i] = queue[i - 1] /\ i \in Nat /\ i > 1
        BY <1>0, <2>2, <2>4
      <3>2. ASSUME NEW a, Ahead(queue, i - 1, a)
            PROVE  Ahead(queue', i, a)
        <4>1. PICK j \in 1..(i - 2) : queue[j] = a
          BY <3>1, <3>2
        <4>2. j \in DOMAIN queue /\ j + 1 \in 1..(i - 1)
          BY <1>0, <3>1, <4>1
        <4>. QED
          BY <2>2, <4>1, <4>2
      <3>3. ASSUME NEW a, Out(a)
            PROVE  Ahead(queue', i, a)
        <4>1. a = unacked[p] /\ 1 \in 1..(i - 1)
          BY <3>1, <3>3
        <4>. QED
          BY <2>2, <4>1
      <3>4. LET a == BlockParent[queue[i - 1]]
            IN  SettledNext(a) \/ Ahead(queue, i - 1, a) \/ Out(a)
        BY <1>2, <3>1
      <3>5. SettledNext(BlockParent[queue[i - 1]]) \/ Ahead(queue', i, BlockParent[queue[i - 1]])
        BY <3>2, <3>3, <3>4
      <3>. QED
        BY <3>1, <3>5
    <2>. QED
      BY <2>3, <2>4
  <1>. QED
    BY <1>3, <1>4, <1>5, <1>6, QueueEffect

LEMMA GapsExplainedStep ==
    ASSUME TypeOK, ParentSettled, GapsExplained, [Next]_vars
    PROVE  GapsExplained'
  <1>. SUFFICES ASSUME NEW b \in blocks', b # Genesis
                PROVE  SettledNext(BlockParent[b])
    BY DEF GapsExplained, SettledNext, HeightTaken
  <1>1. b \in blocks \/ \E p \in Proc : handler[p].block = b /\ handler[p].pc = "insert"
    BY BlocksEffect
  <1>2. Settled(BlockParent[b])
    BY <1>1, HandlerTypes, BlocksAssumption DEF GapsExplained, Settled, ParentSettled
  <1>. QED
    BY <1>2, SettledForGood

LEMMA GapsInit == Init => GapsInv
  BY InvInit DEF Init, Idle, GapsInv, ParentSettled, ParentsAhead, GapsExplained

\* With one consumer a block is stored only after its parent was stored, refused at its
\* height, or rejected: redeliveries and restarts do not change the order of the queue.
THEOREM GapsExplainedAlways ==
    ASSUME \A p, q \in Proc : p = q
    PROVE  Spec => []GapsExplained
  <1>1. GapsInv /\ [Next]_vars => GapsInv'
    BY InvStep, ParentSettledStep, ParentsAheadStep, GapsExplainedStep DEF GapsInv, IInv
  <1>. QED
    BY GapsInit, <1>1, PTL DEF Spec, GapsInv

-----------------------------------------------------------------------------
(* The consumer implements the record of the chain.                        *)

LEMMA RecordStep ==
    ASSUME NEW b \in Block, ~HeightTaken(b), blocks' = blocks \cup {b}, UNCHANGED transactions
    PROVE  Official!Next \/ UNCHANGED Official!vars
  <1>1. CASE b \in blocks
    BY <1>1 DEF Official!vars
  <1>2. CASE b \notin blocks
    BY <1>2 DEF HeightTaken, Official!Next, Official!Record
  <1>. QED
    BY <1>1, <1>2

LEMMA ConfirmStep ==
    ASSUME TypeOK, HandlerStored, NEW p \in Proc, Confirming(p),
           ConfirmEntry(handler[p].block, handler[p].next), UNCHANGED blocks
    PROVE  Official!Next \/ UNCHANGED Official!vars
  <1>. DEFINE b == handler[p].block
              t == BlockTxs[b][handler[p].next]
  <1>1. /\ b \in blocks /\ b \in Block
        /\ handler[p].next \in 1..Len(BlockTxs[b])
    BY HandlerTypes DEF Confirming, HandlerStored
  <1>2. CASE t \in TxId /\ transactions[t] # NoDoc
    <2>1. t \in Official!IdsOf(b)
      BY <1>1, <1>2, BlocksAssumption DEF Official!IdsOf
    <2>2. Official!Confirm(b, t)
      BY <1>1, <1>2, <2>1
         DEF ConfirmEntry, Official!Confirm, ConfirmedDoc, Official!ConfirmedDoc, NoDoc,
             Official!NoDoc, NoIndex, Official!NoIndex
    <2>. QED
      BY <1>1, <1>2, <2>2 DEF Official!Next
  <1>3. CASE ~(t \in TxId /\ transactions[t] # NoDoc)
    BY <1>3 DEF ConfirmEntry, Official!vars
  <1>. QED
    BY <1>2, <1>3

LEMMA RefinementStep == IInv /\ [Next]_vars => [Official!Next]_(Official!vars)
  <1>. SUFFICES ASSUME TypeOK, HandlerStored, [Next]_vars
                PROVE  Official!Next \/ UNCHANGED Official!vars
    BY DEF IInv
  <1>1. ASSUME NEW t \in TxId, Submit(t)
        PROVE  Official!Next
    <2>1. Official!Submit(t)
      BY <1>1 DEF Submit, Official!Submit, NoDoc, Official!NoDoc, NoIndex, Official!NoIndex
    <2>. QED
      BY <2>1 DEF Official!Next
  <1>2. ASSUME NEW p \in Proc, InsertBlock(p)
        PROVE  Official!Next \/ UNCHANGED Official!vars
    BY <1>2, HandlerTypes, RecordStep
       DEF InsertBlock, Store, Collide, RaceLost, Official!vars
  <1>3. ASSUME NEW p \in Proc, ConfirmNext(p)
        PROVE  Official!Next \/ UNCHANGED Official!vars
    BY <1>3, ConfirmStep DEF ConfirmNext
  <1>4. ASSUME NEW p \in Proc, DbFailure(p)
        PROVE  Official!Next \/ UNCHANGED Official!vars
    BY <1>4, HandlerTypes, RecordStep, ConfirmStep DEF DbFailure, dbVars, Official!vars
  <1>5. CASE UNCHANGED dbVars
    BY <1>5 DEF dbVars, Official!vars
  <1>. QED
    BY <1>1, <1>2, <1>3, <1>4, <1>5
       DEF Next, vars, ConsumerStep, BrokerStep, ProcessStep, Publish, Deliver, LoseConnection,
           Crash, Restart, StartFails, Persist, Ack, dbVars

LEMMA RefinementInit == Init => Official!Init
  BY DEF Init, Official!Init, NoDoc, Official!NoDoc, NoIndex, Official!NoIndex

\* Every behaviour of the consumers, seen through the two collections, is a behaviour
\* of the append-only record with one block per height, where only a
\* block of the record confirms a transfer and none goes back.
THEOREM Refinement == Spec => ImplementsOfficialChain
  BY RefinementInit, RefinementStep, Invariance, PTL
     DEF Spec, ImplementsOfficialChain, Official!Spec
=============================================================================
