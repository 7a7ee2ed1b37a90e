------------------------- MODULE BlockMinedConsumer -------------------------
(***************************************************************************)
(* The block.mined consumer (src/src/workers/block_mined_consumer.py): the *)
(* task of every API process that takes the blocks the mining service (M3) *)
(* publishes from a durable RabbitMQ queue, stores each in the blocks      *)
(* collection and marks its local transactions CONFIRMED.                  *)
(*                                                                         *)
(* The handler is synchronous up to the await of the ack, so inside one    *)
(* process nothing of the event loop runs between its database calls; but  *)
(* the process may die between two of them, the broker may take a message  *)
(* back at any time, and every process works on the same two collections.  *)
(*                                                                         *)
(* A block is its hash (an element of Block); BlockIndex, BlockParent and  *)
(* BlockTxs give the content that this hash fixes.                         *)
(***************************************************************************)
EXTENDS Documents, Sequences, Functions

CONSTANTS
    Proc,          \* API processes, each with one consumer
    Block,         \* hashes of the blocks M3 can mine, Genesis included
    Genesis,       \* the hash of block 0, stored before the consumer starts
    NoBlock,       \* no message
    BlockIndex,    \* [Block -> Nat]: field "index"
    BlockParent,   \* [Block -> Block]: field "previous_hash"
    BlockTxs,      \* [Block -> Seq]: ids of the list "transactions"
    TxId,          \* ids that the local transaction documents can have
    Posted,        \* [TxId -> PostedDoc]: status and block_index of each request
    ForeignId,     \* ids of transactions that have no local document
    NoId,          \* a transaction of a block with no id
    MaxQueue,      \* bound: messages waiting in the queue
    MaxCrashes,    \* bound: crashes and lost connections
    MaxFailures    \* bound: database calls that raise

ASSUME BlocksAssumption ==
    /\ Genesis \in Block
    /\ NoBlock \notin Block
    /\ BlockIndex \in [Block -> Nat]
    /\ BlockParent \in [Block -> Block]
    /\ BlockTxs \in [Block -> Seq(TxId \cup ForeignId \cup {NoId})]
    /\ NoId \notin TxId
    /\ Posted \in [TxId -> PostedDoc]

ASSUME BoundsAssumption ==
    MaxQueue \in Nat /\ MaxCrashes \in Nat /\ MaxFailures \in Nat

VARIABLES
    blocks,        \* the blocks collection
    transactions,  \* the transactions collection, by _id
    queue,         \* the durable queue of block.mined
    unacked,       \* the message the broker has out at a process (prefetch 1)
    handler,       \* _handle_message of a process, between its steps
    published,     \* every block M3 has published (history)
    dropped,       \* blocks of a message rejected without requeue (history)
    raced,         \* blocks acked as a collision with themselves (history)
    crashes,       \* crashes and lost connections so far
    failures       \* failed database calls so far

dbVars == <<blocks, transactions>>
brokerVars == <<queue, unacked>>
historyVars == <<published, dropped, raced>>
vars == <<blocks, transactions, queue, unacked, handler, published, dropped, raced,
          crashes, failures>>

\* The ids a block lists; a transaction without id is skipped by the consumer.
IdsOf(b) == {BlockTxs[b][i] : i \in DOMAIN BlockTxs[b]} \ {NoId}

Idle == [pc |-> "idle", block |-> NoBlock, next |-> 0]
Down == [pc |-> "down", block |-> NoBlock, next |-> 0]
Dead == [pc |-> "dead", block |-> NoBlock, next |-> 0]
At(pc, b, n) == [pc |-> pc, block |-> b, next |-> n]
Handler == [pc : {"idle", "down", "dead", "persist", "insert", "confirm", "ack"},
            block : Block \cup {NoBlock}, next : Nat]

\* Entries of the block's list that confirm_block_transactions has still to visit.
Confirming(p) == handler[p].pc = "confirm" /\ handler[p].next <= Len(BlockTxs[handler[p].block])

\* The process is inside the synchronous part: its event loop runs nothing else.
Busy(p) == handler[p].pc \in {"persist", "insert"} \/ Confirming(p)

Init ==
    /\ blocks = {Genesis}
    /\ transactions = [t \in TxId |-> NoDoc]
    /\ queue = <<>>
    /\ unacked = [p \in Proc |-> NoBlock]
    /\ handler = [p \in Proc |-> Idle]
    /\ published = {Genesis}
    /\ dropped = {}
    /\ raced = {}
    /\ crashes = 0
    /\ failures = 0

-----------------------------------------------------------------------------
(* The environment: the transfer endpoint, the mining service, the broker. *)

\* create_transfer inserts a document under a fresh ObjectId, which no block lists yet,
\* with the status and the block_index of the body of the request.
Submit(t) ==
    /\ transactions[t] = NoDoc
    /\ \A b \in published : t \notin IdsOf(b)
    /\ transactions' = [transactions EXCEPT ![t] = Posted[t]]
    /\ UNCHANGED <<blocks, brokerVars, handler, historyVars, crashes, failures>>

\* M3 mines on a block it has published and takes its transactions from the
\* local mempool; it may publish a block again (a retry of its own publisher).
Publish(b) ==
    /\ b # Genesis
    /\ BlockParent[b] \in published
    /\ \A t \in IdsOf(b) \cap TxId : transactions[t] # NoDoc
    /\ Len(queue) < MaxQueue
    /\ queue' = Append(queue, b)
    /\ published' = published \cup {b}
    /\ UNCHANGED <<dbVars, unacked, handler, dropped, raced, crashes, failures>>

\* Mutant: the consumer subscribes with no_ack, the broker forgets what it delivers.
DeliverNoAck(p) ==
    /\ handler[p].pc = "idle"
    /\ queue # <<>>
    /\ queue' = Tail(queue)
    /\ handler' = [handler EXCEPT ![p] = At("persist", Head(queue), 0)]
    /\ UNCHANGED <<dbVars, unacked, historyVars, crashes, failures>>

\* The broker hands the head of the queue to a process that owes it no ack.
Deliver(p) ==
    /\ handler[p].pc = "idle"
    /\ unacked[p] = NoBlock
    /\ queue # <<>>
    /\ unacked' = [unacked EXCEPT ![p] = Head(queue)]
    /\ queue' = Tail(queue)
    /\ handler' = [handler EXCEPT ![p] = At("persist", Head(queue), 0)]
    /\ UNCHANGED <<dbVars, historyVars, crashes, failures>>

\* The broker takes a message back when its connection or its process is gone:
\* it returns to the place it was taken from, the head of the queue.
Requeue(p) ==
    /\ queue' = IF unacked[p] = NoBlock THEN queue ELSE <<unacked[p]>> \o queue
    /\ unacked' = [unacked EXCEPT ![p] = NoBlock]

\* The connection is lost (a missed heartbeat, a broker restart); connect_robust
\* reconnects, and the handler that was running goes on.
LoseConnection(p) ==
    /\ crashes < MaxCrashes
    /\ unacked[p] # NoBlock
    /\ Requeue(p)
    /\ crashes' = crashes + 1
    /\ UNCHANGED <<dbVars, handler, historyVars, failures>>

\* The process dies: what its handler was doing is gone, what it wrote is not.
Crash(p) ==
    /\ crashes < MaxCrashes
    /\ handler[p].pc # "down"
    /\ Requeue(p)
    /\ handler' = [handler EXCEPT ![p] = Down]
    /\ crashes' = crashes + 1
    /\ UNCHANGED <<dbVars, historyVars, failures>>

\* The container restarts and the lifespan starts the consumer again.
Restart(p) ==
    /\ handler[p].pc = "down"
    /\ handler' = [handler EXCEPT ![p] = Idle]
    /\ UNCHANGED <<dbVars, brokerVars, historyVars, crashes, failures>>

\* ensure_indexes raises at the start: it is outside the loop that retries, so the
\* task ends while the API goes on, until the process is restarted.
StartFails(p) ==
    /\ failures < MaxFailures
    /\ handler[p].pc = "down"
    /\ handler' = [handler EXCEPT ![p] = Dead]
    /\ failures' = failures + 1
    /\ UNCHANGED <<dbVars, brokerVars, historyVars, crashes>>

-----------------------------------------------------------------------------
(* _handle_message: persist_block, confirm_block_transactions, ack or nack. *)

\* Mutant: no unique index on blocks.index.
HeightNeverTaken(b) == FALSE

\* Another block holds the height of b: the unique index on blocks.index refuses it.
HeightTaken(b) == \E c \in blocks \ {b} : BlockIndex[c] = BlockIndex[b]

\* Mutant: the confirmation upserts, as persist_block does, so a transaction that this
\* node has no document of gets one.
ConfirmEntryUpserting(b, n) ==
    LET t == BlockTxs[b][n] IN
    transactions' =
        IF t = NoId
        THEN transactions
        ELSE [u \in DOMAIN transactions \cup {t} |->
                 IF u = t THEN ConfirmedDoc(BlockIndex[b]) ELSE transactions[u]]

\* The update by _id of the n-th transaction of b; it matches nothing when the
\* entry has no id, and when no local document has that id.
ConfirmEntry(b, n) ==
    LET t == BlockTxs[b][n] IN
    transactions' =
        IF t \in TxId /\ transactions[t] # NoDoc
        THEN [transactions EXCEPT ![t] = ConfirmedDoc(BlockIndex[b])]
        ELSE transactions

\* Mutant: insert_one instead of the upsert, so a redelivered block is a collision.
PersistByInsert(p) ==
    /\ handler[p].pc = "persist"
    /\ handler' = [handler EXCEPT ![p] =
                      At(IF handler[p].block \in blocks THEN "ack" ELSE "insert",
                         handler[p].block, 0)]
    /\ UNCHANGED <<dbVars, brokerVars, historyVars, crashes, failures>>

\* persist_block, first half of the upsert: the server looks for the hash.  When it
\* is there, $setOnInsert changes nothing and the confirmations follow.
Persist(p) ==
    LET b == handler[p].block IN
    /\ handler[p].pc = "persist"
    /\ handler' = [handler EXCEPT ![p] = IF b \in blocks THEN At("confirm", b, 1)
                                                        ELSE At("insert", b, 0)]
    /\ UNCHANGED <<dbVars, brokerVars, historyVars, crashes, failures>>

\* The block goes in: the indexes on index and hash accept it.
Store(p) ==
    LET b == handler[p].block IN
    /\ ~HeightTaken(b)
    /\ b \notin blocks
    /\ blocks' = blocks \cup {b}
    /\ handler' = [handler EXCEPT ![p] = At("confirm", b, 1)]
    /\ UNCHANGED raced

\* Mutant: persist_block swallows the DuplicateKeyError and the confirmations follow.
CollideSwallowed(p) ==
    LET b == handler[p].block IN
    /\ HeightTaken(b)
    /\ handler' = [handler EXCEPT ![p] = At("confirm", b, 1)]
    /\ UNCHANGED <<blocks, raced>>

\* DuplicateKeyError ("colision de consenso"): another block has the height.  The
\* confirmations are skipped and the ack of the except branch follows.
Collide(p) ==
    LET b == handler[p].block IN
    /\ HeightTaken(b)
    /\ handler' = [handler EXCEPT ![p] = At("ack", b, 0)]
    /\ UNCHANGED <<blocks, raced>>

\* Another process stored the same block since the first half of the upsert: the
\* server repeats the upsert, or reports the index on the height, which the code
\* takes for a collision of consensus.
RaceLost(p) ==
    LET b == handler[p].block IN
    /\ b \in blocks
    /\ \/ /\ handler' = [handler EXCEPT ![p] = At("confirm", b, 1)]
          /\ UNCHANGED raced
       \/ /\ handler' = [handler EXCEPT ![p] = At("ack", b, 0)]
          /\ raced' = raced \cup {b}
    /\ UNCHANGED blocks

\* persist_block, second half of the upsert: the insert.
InsertBlock(p) ==
    /\ handler[p].pc = "insert"
    /\ Store(p) \/ Collide(p) \/ RaceLost(p)
    /\ UNCHANGED <<transactions, brokerVars, published, dropped, crashes, failures>>

\* Mutant: a transaction without id ends the loop (break for continue).
ConfirmUntilNoId(p) ==
    LET b == handler[p].block
        n == handler[p].next
    IN
    /\ Confirming(p)
    /\ ConfirmEntry(b, n)
    /\ LET next == IF BlockTxs[b][n] = NoId THEN Len(BlockTxs[b]) + 1 ELSE n + 1 IN
       handler' = [handler EXCEPT ![p] = At("confirm", b, next)]
    /\ UNCHANGED <<blocks, brokerVars, historyVars, crashes, failures>>

\* One turn of the loop of confirm_block_transactions.
ConfirmNext(p) ==
    LET b == handler[p].block
        n == handler[p].next
    IN
    /\ Confirming(p)
    /\ ConfirmEntry(b, n)
    /\ handler' = [handler EXCEPT ![p] = At("confirm", b, n + 1)]
    /\ UNCHANGED <<blocks, brokerVars, historyVars, crashes, failures>>

\* Mutant: any exception is taken for a collision, acked and not rejected.
DbFailureAsCollision(p) ==
    /\ failures < MaxFailures
    /\ Busy(p)
    /\ unacked' = [unacked EXCEPT ![p] = NoBlock]
    /\ handler' = [handler EXCEPT ![p] = Idle]
    /\ failures' = failures + 1
    /\ UNCHANGED <<dbVars, queue, historyVars, crashes>>

\* A database call raises, before or after the server applied it: the except
\* branch rejects the message without requeue, and the queue has no dead letter.
DbFailure(p) ==
    LET b == handler[p].block IN
    /\ failures < MaxFailures
    /\ \/ /\ handler[p].pc \in {"persist", "insert"}
          /\ UNCHANGED dbVars
       \/ /\ handler[p].pc = "insert"
          /\ ~HeightTaken(b)
          /\ blocks' = blocks \cup {b}
          /\ UNCHANGED transactions
       \/ /\ Confirming(p)
          /\ ConfirmEntry(b, handler[p].next) \/ UNCHANGED transactions
          /\ UNCHANGED blocks
    /\ dropped' = IF unacked[p] = NoBlock THEN dropped ELSE dropped \cup {b}
    /\ unacked' = [unacked EXCEPT ![p] = NoBlock]
    /\ handler' = [handler EXCEPT ![p] = Idle]
    /\ failures' = failures + 1
    /\ UNCHANGED <<queue, published, raced, crashes>>

\* Mutant: the collision branch returns without an ack.
AckUnlessCollision(p) ==
    /\ handler[p].pc \in {"confirm", "ack"}
    /\ ~Busy(p)
    /\ unacked' = IF handler[p].pc = "ack" THEN unacked ELSE [unacked EXCEPT ![p] = NoBlock]
    /\ handler' = [handler EXCEPT ![p] = Idle]
    /\ UNCHANGED <<dbVars, queue, historyVars, crashes, failures>>

\* await message.ack(), of the normal path and of the collision.  When the broker
\* has already taken the message back the ack is an error and changes nothing.
Ack(p) ==
    /\ handler[p].pc \in {"confirm", "ack"}
    /\ ~Busy(p)
    /\ unacked' = [unacked EXCEPT ![p] = NoBlock]
    /\ handler' = [handler EXCEPT ![p] = Idle]
    /\ UNCHANGED <<dbVars, queue, historyVars, crashes, failures>>

-----------------------------------------------------------------------------
ConsumerStep(p) ==
    Persist(p) \/ InsertBlock(p) \/ ConfirmNext(p) \/ DbFailure(p) \/ Ack(p)

BrokerStep(p) == Deliver(p) \/ LoseConnection(p)

ProcessStep(p) == Crash(p) \/ Restart(p) \/ StartFails(p)

Next ==
    \/ \E t \in TxId : Submit(t)
    \/ \E b \in Block : Publish(b)
    \/ \E p \in Proc : ConsumerStep(p) \/ BrokerStep(p) \/ ProcessStep(p)

Spec == Init /\ [][Next]_vars

\* The event loop runs a handler to its ack, the broker delivers what it has to
\* a free consumer, and the container is restarted.
FairSpec ==
    /\ Spec
    /\ \A p \in Proc :
        WF_vars(Persist(p) \/ InsertBlock(p) \/ ConfirmNext(p) \/ Ack(p))
        /\ WF_vars(Deliver(p)) /\ WF_vars(Restart(p))

-----------------------------------------------------------------------------
TypeOK ==
    /\ blocks \subseteq Block
    /\ transactions \in [TxId -> Doc]
    /\ queue \in Seq(Block)
    /\ unacked \in [Proc -> Block \cup {NoBlock}]
    /\ handler \in [Proc -> Handler]
    /\ \A p \in Proc : (handler[p].block = NoBlock) <=> (handler[p].pc \in {"idle", "down", "dead"})
    /\ published \subseteq Block
    /\ dropped \subseteq Block
    /\ raced \subseteq Block
    /\ crashes \in 0..MaxCrashes
    /\ failures \in 0..MaxFailures

\* The broker still owes some process the message of block b.
InFlight(b) == b \in Range(queue) \/ \E p \in Proc : unacked[p] = b

\* A transaction the mempool shows CONFIRMED is in the stored block of the height it
\* names, unless its request asked for just that document: no transfer posted as pending
\* is confirmed but by the record (block_mined_consumer.py: the persist comes before the
\* confirms, and a collision confirms nothing).
ConfirmedInChain ==
    \A t \in TxId : transactions[t].status = "CONFIRMED" /\ transactions[t] # Posted[t] =>
        \E b \in blocks : t \in IdsOf(b) /\ BlockIndex[b] = transactions[t].block_index

\* No published block vanishes: it is on its way, stored, refused by the block that
\* has its height, or was rejected after a failed call (the ack comes last).
NoSilentLoss ==
    \A b \in published : InFlight(b) \/ b \in blocks \/ HeightTaken(b) \/ b \in dropped

\* No stored block leaves a transaction pending for good: while one is pending the
\* message of the block comes again, unless it was rejected, or acked as a collision
\* with its own copy.  This is what makes the redelivery of a block that is already
\* stored confirm its transactions again.
NoForgottenConfirmation ==
    \A b \in blocks : \A t \in IdsOf(b) \cap TxId :
        transactions[t].status = "PENDING" => InFlight(b) \/ b \in dropped \cup raced

\* With one consumer the record is a chain up to what it knowingly skipped: a stored
\* block extends a stored block, one refused at its height, or one whose message was
\* rejected (prefetch_count 1 keeps the order of the queue).
GapsExplained ==
    \A b \in blocks \ {Genesis} :
        LET a == BlockParent[b] IN a \in blocks \cup dropped \/ HeightTaken(a)

\* The record is a chain: a stored block extends a stored block ("registro oficial de la
\* cadena", block_mined_consumer.py:4; "el previous_hash de cada bloque debe coincidir con
\* el hash del bloque anterior", docs/CHAIN_INTEGRITY_HANDOFF.md:25).  persist_block does
\* not look at previous_hash, so a fork breaks it.
StoredBlocksLinked == \A b \in blocks \ {Genesis} : BlockParent[b] \in blocks

\* The consumer implements the abstract record of the chain.
Official == INSTANCE OfficialChain WITH chain <- blocks, mempool <- transactions
ImplementsOfficialChain == Official!Spec

\* No consumer of any process runs: each task ended at its start.
AllDead == \A p \in Proc : handler[p].pc = "dead"

\* Every published block is decided in the end: stored, refused or rejected, unless
\* the consumers are gone for want of their index.
EventuallyDecided ==
    \A b \in Block :
        b \in published ~> b \in blocks \/ HeightTaken(b) \/ b \in dropped \/ AllDead

\* Every transaction of a stored block is confirmed in the end, unless the message
\* of the block was rejected.
EventuallyConfirmed ==
    \A b \in Block : \A t \in TxId :
        (b \in blocks /\ t \in IdsOf(b))
            ~> (transactions[t].status # "PENDING" \/ b \in dropped \/ AllDead)
=============================================================================
