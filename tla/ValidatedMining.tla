-------------------------- MODULE ValidatedMining --------------------------
(***************************************************************************)
(* POST /block/validate (src/src/services/block_validation_service.py) in  *)
(* front of the block.mined consumer: the mining service (M3) asks the API *)
(* whether a block is the next one of the chain and publishes it only if   *)
(* the answer was yes.                                                     *)
(*                                                                         *)
(* The answer is made of two queries, and it is old by the time M3 uses    *)
(* it: M3 may publish an accepted block late, twice, or after another      *)
(* accepted block has taken its height.  Within one process a validation   *)
(* and a message never interleave (the event loop, see Ledger); between    *)
(* processes they do.                                                      *)
(***************************************************************************)
EXTENDS Integers, Sequences, FiniteSets

CONSTANTS
    Proc, Block, Genesis, NoBlock, BlockIndex, BlockParent, BlockTxs, TxId, Posted, ForeignId, NoId,
    MaxQueue, MaxCrashes, MaxFailures,
    Sound          \* blocks with all fields in their form, whose hash is that of their content

ASSUME SoundAssumption ==
    /\ Genesis \in Sound /\ Sound \subseteq Block
    /\ BlockIndex[Genesis] = 0

VARIABLES
    blocks, transactions, queue, unacked, handler,   \* see BlockMinedConsumer
    published, dropped, raced, crashes, failures,
    check,         \* validate_block_integrity of a process, between its two queries
    accepted       \* blocks M3 was told are valid

Consumer == INSTANCE BlockMinedConsumer

ASSUME ConsumerAssumption == Consumer!BlocksAssumption /\ Consumer!BoundsAssumption

checkVars == <<check, accepted>>
vars == <<blocks, transactions, queue, unacked, handler, published, dropped, raced,
          crashes, failures, check, accepted>>

NoCheck == [pc |-> "idle", block |-> NoBlock]
Checking(p) == check[p].pc # "idle"

Init ==
    /\ Consumer!Init
    /\ check = [p \in Proc |-> NoCheck]
    /\ accepted = {}

-----------------------------------------------------------------------------
(* validate_block_integrity. *)

Answer(p) == check' = [check EXCEPT ![p] = NoCheck]

\* Mutant: the hash is not recomputed.
ReceiveUnhashed(p, b) ==
    /\ ~Checking(p) /\ handler[p].pc # "down" /\ ~Consumer!Busy(p)
    /\ check' = [check EXCEPT ![p] = [pc |-> "height", block |-> b]]
    /\ UNCHANGED accepted

\* The structure and the recomputed hash, before the database is asked.
Receive(p, b) ==
    /\ ~Checking(p) /\ handler[p].pc # "down" /\ ~Consumer!Busy(p)
    /\ IF b \in Sound
       THEN check' = [check EXCEPT ![p] = [pc |-> "height", block |-> b]]
       ELSE Answer(p)
    /\ UNCHANGED accepted

\* First query of _is_next_expected_block: is the height taken?
FindHeight(p) ==
    LET b == check[p].block IN
    /\ check[p].pc = "height"
    /\ IF \E c \in blocks : BlockIndex[c] = BlockIndex[b]
       THEN Answer(p)
       ELSE check' = [check EXCEPT ![p].pc = "last"]
    /\ UNCHANGED accepted

IsLast(c) == c \in blocks /\ \A d \in blocks : BlockIndex[d] <= BlockIndex[c]

\* Mutant: previous_hash is not compared.
ExtendsByHeight(b) == \E c \in blocks : IsLast(c) /\ BlockIndex[b] = BlockIndex[c] + 1

\* Mutant: index is not compared.
ExtendsByHash(b) == \E c \in blocks : IsLast(c) /\ BlockParent[b] = c

\* b is the successor of the last block.
ExtendsLast(b) ==
    \E c \in blocks :
        IsLast(c) /\ BlockIndex[b] = BlockIndex[c] + 1 /\ BlockParent[b] = c

\* Second query, of the last block; with an empty collection only Genesis would do.
FindLast(p) ==
    LET b == check[p].block
        valid == IF blocks = {} THEN b = Genesis ELSE ExtendsLast(b)
    IN
    /\ check[p].pc = "last"
    /\ accepted' = IF valid THEN accepted \cup {b} ELSE accepted
    /\ Answer(p)

\* A query raises: a 500, which accepts nothing.
FailCheck(p) ==
    /\ failures < MaxFailures
    /\ Checking(p)
    /\ Answer(p)
    /\ failures' = failures + 1
    /\ UNCHANGED accepted

consumerVars == <<blocks, transactions, queue, unacked, handler, published, dropped, raced,
                  crashes>>

Validate(p) ==
    \/ /\ (\E b \in Block : Receive(p, b)) \/ FindHeight(p) \/ FindLast(p)
       /\ UNCHANGED <<consumerVars, failures>>
    \/ FailCheck(p) /\ UNCHANGED consumerVars

-----------------------------------------------------------------------------
(* The rest of the system. *)

\* M3 publishes what was accepted, when it likes and as often as it likes.
Publish(b) ==
    /\ b \in accepted
    /\ Consumer!Publish(b)
    /\ UNCHANGED checkVars

HandleMessage(p) ==
    /\ ~Checking(p)
    /\ Consumer!ConsumerStep(p) \/ Consumer!Deliver(p)
    /\ UNCHANGED checkVars

LoseConnection(p) == Consumer!LoseConnection(p) /\ UNCHANGED checkVars

\* The process dies with the request it was answering.
Crash(p) ==
    /\ Consumer!Crash(p)
    /\ Answer(p)
    /\ UNCHANGED accepted

Restart(p) ==
    /\ Consumer!Restart(p) \/ Consumer!StartFails(p)
    /\ UNCHANGED checkVars

Next ==
    \/ \E t \in TxId : Consumer!Submit(t) /\ UNCHANGED checkVars
    \/ \E b \in Block : Publish(b)
    \/ \E p \in Proc : Validate(p) \/ HandleMessage(p)
    \/ \E p \in Proc : LoseConnection(p) \/ Crash(p) \/ Restart(p)

Spec == Init /\ [][Next]_vars

-----------------------------------------------------------------------------
\* With the validation in front, the consumer's record is a chain without gaps that grows
\* at its end, although the consumer itself looks at no previous_hash and M3 may act on
\* an answer long after it was given.
Linked == INSTANCE LinkedChain WITH chain <- blocks, mempool <- transactions
ImplementsLinkedChain == Linked!Spec

\* An accepted block that the record refuses lost its height to a block with the same
\* parent, never to a longer branch: the miner has one block to make again.
LosesToSiblingOnly ==
    \A b \in published \ blocks : \A c \in blocks :
        BlockIndex[c] = BlockIndex[b] => BlockParent[c] = BlockParent[b]

\* validate_chain_integrity finds nothing in a record that POST /block/validate let in:
\* hashes that are those of the content, and each previous_hash that of the document
\* before it in the order of index.
AuditPasses ==
    \A b \in blocks :
        /\ b \in Sound
        /\ \A c \in blocks :
              BlockIndex[c] < BlockIndex[b]
                  /\ (\A d \in blocks : BlockIndex[d] <= BlockIndex[c] \/ BlockIndex[d] >= BlockIndex[b])
              => BlockParent[b] = c
=============================================================================
