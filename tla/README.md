# UFROCoin, module 2 (blockchain and transactions): TLA+ models, checks and proofs

This directory is a verification development of the service in `src/` (paths in this text
are those of the repository with its root at `src/`, so the Python package is
`src/src/`). It holds TLA+ modules translated from the source, TLC
configurations that check them on small instances, and theorems that TLAPS proves for
every value of the constants.

    cd tla
    tlc -workers 4 -config ledger_single.cfg MCLedger      # any run of PROJECT.json
    tlapm LedgerProofs.tla                                 # any *Proofs module

`PROJECT.json` lists the components, runs, mutants, hazards and theorems, and maps each
definition to the lines it translates.

## 1. The system

A FastAPI service over MongoDB and RabbitMQ. It owns the mempool and the official record of
the chain; blocks are mined elsewhere (the mining service, "M3"), wallets live elsewhere.

| part | state | operations |
|---|---|---|
| block.mined consumer (`workers/block_mined_consumer.py`) | `blocks`, `transactions`; a durable queue | store a block (upsert by hash), confirm its local transactions, ack / nack |
| wallet.credit.issued consumer (`workers/genesis_credit_consumer.py`) | `transactions` (off-chain credits); a durable queue | write a credit (upsert by `credit_id`), ack / nack |
| transfers (`services/transaction_service.py`) | `transactions` | balance check and insert; publish `transaction.created`; pending list, detail |
| external wallets (`services/external_wallet_service.py`) | none | HTTP question "does this wallet exist" |
| start (`api/startup.py`, `core/database.py`, `services/genesis_service.py`) | indexes, `chain_metadata`, block 0 | create indexes, create Genesis once, announce it, start both consumers |
| publisher (`core/rabbitmq_publisher.py`) | two process globals: connection, channel | publish with one retry |
| checkpoints (`services/checkpoint_service.py`, `utils/merkle_utils.py`) | `checkpoints` | generate, list, fast validation, bisection |
| validation (`services/block_validation_service.py`, `utils/hash_utils.py`) | none | validate the chain, validate a candidate block |
| history (`services/history_service.py`) | none | movements of a wallet, two queries |
| block queries (`services/block_service.py`) | none | pages of the chain, last block, look-ups, statistics |

How the parts interact:

* They share three MongoDB collections. There are no transactions of the database; what
  holds concurrent writers apart are unique indexes: `blocks.index`, `blocks.hash`,
  `checkpoints.(from_block, to_block)`, `transactions.credit_id`.
* The lifespan runs both consumers as tasks of the event loop that serves the requests.
  Both message handlers and the `async def` endpoints call pymongo synchronously, without
  an `await` between their database calls: inside one process they exclude each other. The
  one `def` endpoint with a race to lose (`GET` of the wallet history) runs in a thread of the pool and
  excludes nothing. Several processes exclude nothing either.
* The consumers acknowledge after their work (`prefetch_count=1`), so a message whose
  process or connection is lost comes again. A handler that raises rejects the message
  without requeue, and no queue has a dead-letter exchange.
* `docker-compose.yml` starts one API container. It also starts `worker` with
  `python -m src.workers.genesis_credit_consumer`, a module without an entry point, which
  ends at once. The models take the number of processes as a constant, because the unique
  indexes and the docs ("entornos con multiples llamadas concurrentes",
  `docs/CHECKPOINT_HANDOFF.md:362`) are written for more than one, and because a
  redeployment has two for a while. Where the result depends on it, this text says so.

What makes it hard: a block is stored and its transactions are confirmed in several writes;
a redelivery may race the handler that is still at work; the balance is three queries
before an insert; a start can die between any two of its calls; checkpoints name ranges of
a collection that grows. `PROJECT.json` lists these hazards by line.

What makes each part correct:

* **block.mined**: nothing is confirmed that is not in the record; no block vanishes
  without a trace; no stored block leaves a transaction pending without a cause; every
  published block is decided.
* **credits**: exactly once.
* **transfers**: no wallet sends more than it owns; the mempool limit holds. The first is
  true only while the requests leave the field `status` to the service (run `ledger_status`).
* **Genesis**: one block 0, and metadata that is true and finally written.
* **checkpoints and validation**: one checkpoint per range, no false alarm on an untouched
  chain but for a block that came in late, and a stated scope of what an edit can and cannot
  get past.
* **candidate blocks**: what `POST /block/validate` accepts stays acceptable until somebody
  takes its height, so a mining service that asks first builds a linked chain.
* **queries of several calls** (history, pages, statistics, detail): complete, and never in
  contradiction with a chain that grows between the calls.
* **publisher**: the two globals belong together, a stale connection costs nothing, an event
  arrives twice at most, a call ends.

## 2. The modules

```
Documents              the fields of a transaction document that change
OfficialChain          abstract: the record of the chain and the mempool
  LinkedChain          abstract: the same, every block on top of the one before
BlockMinedConsumer     the consumer of blocks; implements OfficialChain
ValidatedMining        POST /block/validate in front of it; implements LinkedChain
CreditBook             abstract: a credit is written once
WalletCreditConsumer   the consumer of credits; implements CreditBook
TransferService        create_transfer and calculate_balance
Ledger                 API processes: TransferService + BlockMinedConsumer + CreditBook
Genesis                lifespan: indexes, Genesis block, metadata
ChainStore             content of the blocks, the full validation
Checkpoints            extends ChainStore: generation, fast validation, bisection
History                the two queries of a wallet's history
ChainQueries           extends History: pages, statistics, detail, over OfficialChain
EventBus               abstract: what publish_event promises
Publisher              connection, channel, retry; implements EventBus
MC*                    instances for TLC
*Proofs                theorems
```

**BlockMinedConsumer** (core). A block is its hash; `BlockIndex`, `BlockParent`, `BlockTxs`
are what the hash fixes. `handler[p]` is `_handle_message` of process p between two calls:

| action | code |
|---|---|
| `Persist`, `InsertBlock` (`Store`, `Collide`, `RaceLost`) | `persist_block`: the upsert finds the hash, or goes on to insert it |
| `ConfirmNext` | one turn of `confirm_block_transactions` |
| `Ack` | `await message.ack()`, of the normal and of the collision path |
| `DbFailure` | any other exception and the `nack(requeue=False)` after it |
| `StartFails` | `ensure_indexes` raises outside the retry loop |
| `Deliver`, `Requeue`, `LoseConnection`, `Crash`, `Restart` | broker and process |
| `Submit`, `Publish` | the transfer endpoint and M3, as the consumer sees them |

Two decisions need a word. MongoDB's upsert is two steps, since another process may insert
the same hash between its search and its insert; the server then repeats the upsert, or
reports the index on `index`, which `_is_duplicate_key_error` cannot tell from a collision
(`RaceLost`, recorded in `raced`). A message without ack returns to the head of its queue,
where RabbitMQ puts it back if it can. The nack after an exception is part of the same
action: nothing that matters lies between them but a crash, after which the message comes
again, as after a `Crash` just before.

A transfer enters the collection as its request has it: the model `Transaction` takes `status`
and `block_index` from the body (`models/transaction.py:24`, `:26`), so `Submit` inserts
`Posted[t]`, any document but an absent one. `PENDING` and no block are only the defaults.

**ValidatedMining** puts `validate_block_integrity` in front: `Receive` (structure and
recomputed hash, the set `Sound`), `FindHeight` and `FindLast` (the two queries of
`_is_next_expected_block`). The mining service publishes only accepted blocks, but late,
again, in any order, and while other processes answer and store. That it asks before it publishes
is an **assumption**: nothing in the repository says so and nothing enforces it.
Run `consumer_fork` is the system without it.

**WalletCreditConsumer** keeps the number of documents of each credit, because each one is
money; the unique index is a state variable that `Start` sets, because only this task
creates it.

What a queue holds is its `Range`, of the community module Functions.

**TransferService** has one action per remote or database call of `create_transfer`, with
`call[p].balance` the local variable the three queries fill. The sums of the balance are
`SumFunctionOnSet` over the blocks, the entries of a block, the credits and the pending
transfers. Amounts are integers, in millionths of a coin. `DecimalsPrinted` is the test on
`str(amount)` by what `str` prints: a float under 0.0001 has an exponent, so 0.00001 has no
point and no decimals. `Insert` stores `Posted[t]`: what the body says of status and block. A
document that is `CONFIRMED` with no block is what the service takes for an off-chain credit,
whoever wrote it, so `CreditsTotal` is what the credit consumer issued and what clients posted
that way (`PostedAsCredit`); its sender is charged for it in no term of the balance.

**Ledger** instantiates TransferService, BlockMinedConsumer and CreditBook over the same
variables. `LoopFreeForMessages` and `LoopFreeForRequests` are the event loop: in one
process a request and a message never interleave. The credits are CreditBook rather than
the whole consumer: the theorem `CreditBookRefinement` is what allows that. `Holdings` is
what a wallet really owns; `ChargedOnce` is what the record must be like for it to be covered:
the consumer stores a block whose parent it refused, so a transfer mined on both branches can
be in two stored blocks, and the service then charges it twice (`NoOverdraft` without
`ChargedOnce` is violated in the instance of `ledger_single`). `Wallets` are the wallets the
balance can be trusted for: they send only TRANSFERs (other types are not asked for a balance,
`transaction_service.py:82`), got no negative credit (the credit consumer looks at no sign),
post no status of their own, and nobody posted a document to them as a credit. `TransfersCovered`
is `NoOverdraft` without the last two conditions, which the code does not enforce.

**Genesis** takes a start through `initialize_database` and each call of
`create_genesis_if_needed`; every Genesis block built has a hash of its own. `Crash` is also
an exception, which nothing in the lifespan catches. `Mine` is the consumer of a process
that is up: it stores any free height, so a start may find gaps, forks and late blocks
(`late`). `UpHasGenesis` justifies the initial state of BlockMinedConsumer.

**ChainStore** and **Checkpoints**: the documents are a partial function by height. SHA-256 has
no collisions, so a digest is the record of what it hashes, of a block as of two nodes of a
Merkle tree. The tree is built level by level: `NextLevel` repeats the last node of an odd
level, `ComputeMerkleRoot` is the loop. `Store` is the consumer: any free height, in any order,
the block the network agreed on or one of `Stray`, the forks and wrong blocks M3 may publish.
`Edit` changes one field of a stored document, the case the validation exists for
(`docs/CHAIN_INTEGRITY_HANDOFF.md`, cases 2 and 3): `Change` its content, link or hash,
`Renumber` its `index`, which is hashed too and moves the document in every cursor. `late`
records the heights that were stored under a higher one, or renumbered. `Half` is one pass of
the bisection, `Candidate` its loop, `FirstCorrupted` the bisection with its fallback. The two
loops are recursive functions, since the proofs cannot use recursive operators.

**ChainQueries** has one action per query of `get_chain`, `get_chain_stats` and
`get_transaction_by_id`; the history comes from **History**. The writer is OfficialChain, which
BlockMinedConsumer implements, instead of the consumer itself: it promises neither order nor
links, so the clients read a record with gaps, forks and blocks that come in below the last
one. `TxId` are the documents of the collection, transfers as they were posted and off-chain
credits, which the detail and the history answer too. A *walk* is a client that fetches page
after page. Only the history can be overtaken by the consumer of its own process (it runs in the pool);
the others are overtaken by the other process of a redeployment, and a walk by anybody.

**Publisher**: `is_closed` is what the client believes, `live` what the broker has; they
differ after an outage nobody noticed. There are no publisher confirms, so a write on a lost
connection may return or raise.

Left out of every model: logging, wording, JSON, HTTP status codes, projections.

## 3. What is checked

Two workers are enough for each; the longest, `validated_mining`, takes two to three minutes.
Every property has a mutant, an operator next to the definition it changes, that TLC shows
violates it.

| run | instance | states | shows |
|---|---|---|---|
| `consumer_replicas` | 2 processes, g <- a1 <- a2 and g <- b1, 2 local transactions posted with a height and as confirmed, queue of 2, 1 crash or lost connection, 1 failed call | 595k | `ConfirmedInChain`, `NoSilentLoss`, `NoForgottenConfirmation`, refinement of OfficialChain |
| `consumer_single` | 1 process, two branches of 2 blocks, 2 crashes, 1 failure, fairness | 124k | `GapsExplained`, `EventuallyDecided`, `EventuallyConfirmed` |
| `validated_mining` | 2 processes, a tree of 6 blocks (two siblings, a wrong height, a wrong hash), queue of 1, 1 crash, 1 failure | 1147k | `LosesToSiblingOnly`, `AuditPasses`, refinement of LinkedChain |
| `credits` | 2 processes, 2 credits, queue of 2, 2 crashes, 1 failure, fairness | 53k | `CreditedOnce`, `NoCreditLost`, refinement of CreditBook, `EventuallyCredited` |
| `ledger_single` | 1 process, 6 requests of 3 wallets, 4 blocks with a fork, 1 foreign transfer, 1 credit, requests with a height or as a credit, limit 2, 1 crash, 1 failure | 265k | `NoOverdraft`, `BalanceSound`, `PendingLimitRespected`, `NothingUndone` |
| `genesis` | 3 processes, 2 deaths, blocks of heights 1 and 2 in any order, a fork, fairness | 455k | `OneGenesis`, `UpHasGenesis`, `MetadataTruthful`, `AnnouncedIsStored`, `EventuallyMarked` |
| `checkpoints` | 2 processes, heights 0..3 in any order, a fork with a wrong hash, frequencies 2 and 3, 1 edit | 627k | `OneCheckpointPerRange`, `RangesOfAFrequencyTile`, `NoFalseAlarm`, `ChainCommits`, `CheckpointPinsHistory`, `BisectionFindsFirst` |
| `queries` | 7 blocks of heights 0..4 in any order, 2 transfers, 1 credit, 1 foreign transaction, pages of 2 | 191k | `HistoryComplete`, `WalkComplete`, `StatsOrdered`, `DetailResolves` |
| `publisher` | 3 events, 3 outages, fairness | 10k | `ChannelOfConnection`, `StaleConnectionSurvived`, refinement of EventBus, `EventuallyEnds` |
| `consumer_fork` | as `consumer_single` | violated | `StoredBlocksLinked` |
| `audit_gap` | 1 process, no edit | violated | `CoversItsRange` |
| `ledger_status` | as `ledger_single`, 3 requests, one posted as `CONFIRMED`, nothing failing | violated | `TransfersCovered` |

The three violations are disagreements between the code and what the repository says of it;
`PROJECT.json` quotes the lines:

* `consumer_fork`: a block whose parent lost the fork is stored, since the consumer does not look at
  `previous_hash`. `GapsExplained` says how far this goes: the parent was refused by the
  block of its height, or its message was rejected.
* `audit_gap`: with a height missing, ranges are cut by position, so a checkpoint does not
  hash the range it names, and is a false alarm when the block comes late. `NoFalseAlarm` says
  that this is the only way to one.
* `ledger_status`: a transfer posted as `CONFIRMED` is stored so, no term of the balance charges
  its sender for it, and the check of the next transfer finds the balance untouched.
  `NoOverdraft` says what the check is worth for wallets that leave the field alone.

### Bounds

* *Two processes and one message twice* are what each race of the consumer needs: one handler
  loses its message while it works, the other gets it. One crash or lost connection and one
  failure meet every pair of steps; `consumer_single` has two crashes for the redelivery of a
  redelivery. `a1` has an entry without id between two with one, `b1` lists a transaction twice,
  the branches share transactions, `a2` lists one unknown to this node. With two processes `t1`
  is posted with a height and `t2` as `CONFIRMED`; the liveness run has the default status,
  since `EventuallyConfirmed` asks little of a transfer that was posted as confirmed.
* *validated_mining*: both siblings of height 1 are accepted before either is stored, and `a2`
  is asked for before and after; `s2` has the height of `a2` and the wrong parent, `u1` a hash
  that is not its own. A queue of one is enough, since accepted blocks wait at M3 and may be
  published again.
* *ledger_single*: a credit of 3 and transfers of 2, 2 and 0.00001, with 0.5 sent back, are
  enough to overdraw by one check too few, or by a block stored between two reads; `h`, which
  this node has no document of, pays 2 more on one branch of the fork; `t1` is on both branches,
  so both a record that charges it twice and one that does not are reached; limit 2 for the 10
  of the code. `t3` is posted with height 9, `t4`, which is no TRANSFER, as a credit of carol to
  herself. `t5` has three decimals, `t6` is 0.00001. With one process the pending limit is met
  at its boundary and never raced. `ledger_status` posts `t2` as `CONFIRMED`.
* *genesis*: three processes let two of them lose the same race; two deaths reach the gap
  between insert and metadata twice; with heights 1 and 2 a start can find {0, 2} and a block 1
  that came late.
* *checkpoints*: four heights with frequencies 2 and 3 give an even tree, an odd tree and a
  remainder, for calls that overlap; a missing height shifts every group after it. The one edit
  is of any field; on top of the stray block of height 2, whose hash is not its own, it gives what
  takes two edits of an original: another content with its right hash, or two bad blocks in
  one range. The theorems are for any number of edits and stray blocks.
* *queries*: a read changes nothing another read sees, so one client is at work at a time
  (`Quiet`). Pages of 2 end in the middle of a page and at its end while the record grows to 5
  blocks, at its end, into a gap or under a page that was fetched. `t2` is posted with height 1,
  where no block lists it.
* *publisher*: an outage before, in and after the first attempt; 8 connections are more than
  three events and three outages open.
* History variables (`published`, `dropped`, `raced`, `issued`, `accepted`, `outcome`, `lost`,
  ...) record what happened and guard nothing but the bounds and, for `accepted`, the mining
  service.

### Fairness

Weak fairness of: the steps of a handler (the event loop runs what it started), `Deliver`
(the broker delivers to a free consumer), `Restart` and `Start` (a container that ends is started
again), the lifespan, and the calls of pika, which return or raise within its timeouts.
Failures, crashes and the environment have none: `EventuallyEnds` holds of a broker that never
comes back. Liveness excludes the
state `AllDead`: every consumer ended for good because `ensure_indexes` raised, which the
code allows (`block_mined_consumer.py:140`) and only a restart of the process heals.

`CHECK_DEADLOCK FALSE` is used where the instance really ends: all consumers dead and the
queue full, every process up and the chain at its bound, all events published.

## 4. What is proved

The theorems hold for every value of the constants that satisfies the named assumptions of
the modules: Genesis is a block of height 0, heights are natural numbers, a block's list is a
sequence of ids, the values for "none" are no members, the bounds are natural numbers.

| module | theorems | condition |
|---|---|---|
| `BlockMinedConsumerProofs` | `TypeCorrect`, `ConfirmedInChainAlways`, `NoSilentLossAlways`, `NoForgottenConfirmationAlways`, `Refinement` (OfficialChain) | |
| | `GapsExplainedAlways` | one consumer |
| `ValidatedMiningProofs` | `LinkedChainRefinement`, `LosesToSiblingOnlyAlways`, `AuditPassesAlways` | |
| `LedgerProofs` | `NothingUndoneAlways`, `BalanceSoundAlways` | |
| | `PendingLimitAlways`, `NoOverdraftAlways` | one process |
| `WalletCreditConsumerProofs` | `CreditedOnceAlways`, `NoCreditLostAlways`, `CreditBookRefinement` | |
| `GenesisProofs` | `OneGenesisAlways`, `UpHasGenesisAlways`, `MetadataTruthfulAlways`, `AnnouncedIsStoredAlways` | |
| `CheckpointsProofs` | `ChainCommitsAlways`, `OneCheckpointPerRangeAlways`, `RangesOfAFrequencyTileAlways`, `NoFalseAlarmAlways`, `CheckpointPinsHistoryAlways`, `BisectionFindsFirstAlways` | |
| `ChainQueriesProofs` | `HistoryCompleteAlways`, `WalkCompleteAlways`, `StatsOrderedAlways`, `DetailResolvesAlways` | |
| `PublisherProofs` | `ChannelOfConnectionAlways`, `StaleConnectionAlwaysSurvived`, `EventBusRefinement` | |

The condition is a hypothesis of the theorem: *one process or consumer* is the deployment of
`docker-compose.yml`. With two, both can count or sum before either inserts, and a block can be
stored while the other process still holds the message of its parent. Nothing more is assumed of
the single process: it may crash and start again.

What else a property depends on is part of its statement, with a state or a constant that says
when it applies, and no behaviour is cut away for it:

* `NoOverdraft` and `BalanceSound` are about `Wallets`, the first while `ChargedOnce`.
* `ConfirmedInChain` excepts a document that is just what its request posted.
* `RangesOfAFrequencyTile` is about ranges up to whose ends every height is stored and came in
  its turn (`Steady`), `NoFalseAlarm` about ranges no block was stored late in. Without that both
  are violated: a range is cut by position, so one cut while a height was missing overlaps those
  cut later and is reported when the block comes. `MetadataTruthful` has `Steady` for its count.
* `ChainCommits` and `CheckpointPinsHistory` vouch for blocks from the first of the collection
  on, and only while block 0 is there is that the whole chain: nothing tells a validation what
  came before the first document.

None of the invariants is inductive as it stands; each module strengthens them.

**BlockMinedConsumerProofs**: `IInv` adds why a handler may do what it is about to do.

* `UniqueHeights`: the record has one block per height, so a block that finds its height
  taken by another is not stored itself, and storing one refuses no stored one;
* `OnlyPublished`: blocks stored, queued or worked on were published. `Submit` takes an id
  no published block lists, hence a new document is pending under no stored block;
* `OutAtHandler`: the message a process owes an ack for is that of its handler, so an ack or
  a reject settles that block and no other;
* `HandlerStored`: a handler that confirms works on a stored block (`ConfirmEntry` never
  confirms a transaction that is not in the record), and one that acks a collision has one;
* `PassedEntries`: no entry the loop has passed is pending, so the ack at its end leaves
  nothing pending behind, whatever other handlers did meanwhile.

`GapsInv`, for one consumer, adds the order of the queue: `ParentSettled` (the parent of the
block at work was stored, refused at its height, or rejected) and `ParentsAhead` (the parent of a
waiting block is settled, waits ahead of it, or is at work). A redelivery goes to the head and
keeps that order.

**ValidatedMiningProofs** has that invariant of the consumer for nothing, since every step of the
composition is one of the consumer or leaves its collections alone; it adds `Gate`: an answer
never gets old. The parent of an accepted block is stored and one lower, and stored blocks
stay; what is published was accepted. A step that stores a block then finds its parent, and its
height free, which makes it the successor of the last one.

**LedgerProofs** does the same for the API process: for the consumer a request is a `Submit`,
which needs that its id is new (`CallsApart`) and in no published block (`ListedKnown`).
`DocEffect` lists all that can happen to a document, from which `NothingUndone` follows. For
the limit, `RoomCounted` says that a request that has counted still has room; that the API is one process
is assumed, and needed: two of them can count before either inserts.

The three invariants about money stand on each other. `AmountsInv`: what has passed
`CheckAmount` is positive, and so is every stored transfer. `BooksInv` adds that the books are
finite and that an absent document has no status of its own; under it, for a wallet of
`Wallets`, no document counts as a credit that the credit consumer did not write, so
`CalculateBalance` and `Holdings` differ in one term only, the pending transfers against the
outstanding ones, and every outstanding one is pending (`ConfirmedInChain`, since it was posted
as pending), so the balance is never too high. `OverdraftInv` adds `ReadsHold`: what a request
has summed up so far is not above what those terms are now. Blocks and pending transfers do not
change under the request, since the event loop is its own, and credits only grow. The community
module sums a set in the order CHOOSE finds its elements; that the order does not matter, and
what one element more adds, is proved in the lemmas on `SumFunctionOnSet`, by a smallest
counterexample among the subsets (`SmallestSet`).

**WalletCreditConsumerProofs**: the index exists before any handler works (`IndexedFirst`), an
ack comes after the document (`HandlerWritten`), and a message is out only at the handler
that works on it (`OutAtHandler`).

**GenesisProofs**: a start past `initialize_database` left the unique index (`IndexFirst`), so
there is one block 0 (`UniqueGenesis`), and it is stored before any other (`GenesisFirst`): the
consumer that stores blocks is that of a process that is up. A start knows of the collection only
what stays true while others write (`StartKnows`): that its block is stored, a count that is
not too high, and not too low for a height up to which every block came in its turn.

**CheckpointsProofs** has three parts.

* `ChainInv` is the collection: a document has the fields of a block and says the height it is
  stored at (`Shaped`), whoever stored, changed or renumbered it. `ChainCommits` goes down from
  the block with the agreed hash (`HashPinsBelow`): a digest is its content, so a valid
  hash fixes the index, the payload and the link, and the link fixes the hash of the document
  before it, whose index is in that hash too, so that none is missing between. The `Original`
  chain is a recursive function, and that it satisfies its equation is proved by induction first
  (`OriginalIs`).
* `CheckpointInv` is the generator. Every range at work and every checkpoint ends at a height
  that was stored, and is a group of its frequency if each height up to there came in its turn
  (`Placed`): position and height then agree. While nothing was edited and no block came late in
  it (`OnTime`), it holds the hashes that are stored (`GoodRange`, `GoodCheckpoint`). So the
  groups tile, and a false alarm has a late block. For `CheckpointPinsHistory`: the last leaf of
  a tree is reached from its root by the right children (`RightEdge`), and a leaf is no pair of
  nodes, so equal roots mean equal last hashes, even of lists of different length
  (`RootCommitsToLast`), and from there the links pin what is below.
* `BisectionFindsFirst` rests on an invariant of the loop instead: every block before the rows
  still searched has a valid hash (`HalfStep`: the half that is left behind is intact, so by
  `RootCommits` all its hashes are valid). The block that is left is the first bad one, or it is
  valid, and then the scan is the answer.

The inductions (over heights, levels and passes) are by a least number, `LeastNumber` and `Climb`,
which take a set where the library's induction takes a predicate.

**ChainQueriesProofs**: `ServiceInv` is the record the clients read: one block per height
(`Grown`), and a document that is absent, as it was posted, or confirmed by a stored block that
lists it (`DocsListed`). Then one invariant for each client says what
it holds and what the reads to come must still find. `HistoryInv`: a movement known at the
start is found by one of the queries (`Findable`), then by the rows or the blocks, since
blocks are read last. `WalkInv`: what a client has still to fetch is in its next page or after
it, because a block that comes in only pushes the others on (`Rank`), and a height that repeats
or goes back leaves one behind that is not fetched (`Missing`). `StatsInv`: each figure is
bounded by what the next query can only find more of. `DetailInv`: what the collection did not
have when it was asked is listed by a stored block.

**PublisherProofs**: `CopiesSoFar` counts the copies an event can have in each attempt;
`FreshSecond` says that without an outage during the call the second attempt opens a connection
that works.

## 5. What is only checked, what is left out, and the limits

* Only model-checked: liveness (`EventuallyDecided`, `EventuallyConfirmed`,
  `EventuallyCredited`, `EventuallyMarked`, `EventuallyEnds`), since fairness and ENABLED are
  beyond the prover. Every invariant and action property of a passing run is a theorem.
* `NoOverdraft` is true of one API process. With two on one database, both can read the balance
  before either inserts: the check needs a transaction or a conditional write before the service
  is scaled. Put `Proc = {p1, p2}` in `ledger_single.cfg` to see it.
* The pending limit has the same race between its count and the insert. Neither is exercised
  with two processes, which would only show it failing.
* A request chooses `status` and `block_index` of its document (`models/transaction.py:24`,
  `:26`; the router hands on the whole body). `ledger_status` shows what that does to the sender's
  balance; the receiver of a document posted as a credit may spend it. A transfer posted with a
  `block_index` that no stored block lists is in neither query of a history.
* The limit of two decimals (`docs/feature-us-18-security-limits.md:10`,
  `api/transaction_router.py:30`) is not kept for amounts below 0.0001 that `str` prints without
  a point: 1e-05 passes `CheckAmount`, in the code as in the model, and `t6` of `ledger_single`
  is stored. No property states the limit. Amounts of 10^16 and more and the rounding of
  sums of floats are out of scope: amounts are integers.
* A history lists a transaction twice, as PENDING and as CONFIRMED, while its block is stored and
  its document is not yet confirmed (for good when the message was rejected in between):
  `test/test_history_service.py:384` expects one row of a mined transaction, from a collection
  where it is already confirmed. `HistoryComplete` says that none is missing; that rows do not
  repeat is no property.
* A history looks for `from` and `to` only (`history_service.py:12`, `:34`), the balance also for
  `from_address` and `to_address`, so a transaction that has only these, as an entry of the Genesis
  block may, is in the balance and in no history.
* An off-chain credit is answered as CONFIRMED with no height (`genesis_credit_consumer.py:40`),
  although `models/transaction.py:86` and `api/transaction_router.py:134` tie `null` to a pending
  transaction.
* `validate_fast` compares stored hashes only, `validate_chain_integrity` trusts the last hash.
  `CheckpointPinsHistory` and `ChainCommits` state what each is worth, and what both are
  together.
* `docs/CHAIN_INTEGRITY_HANDOFF.md:238` expects `hash_valid=True` after an edit of
  `previous_hash`; the hash covers that field (`block_validation_service.py:172`), so the log
  says `False`.
* The validation of a candidate compares hashes in lower case and reads the collection named
  `blocks`; the consumer stores a hash as it comes, in the collection the configuration names.
  The models have one spelling and one collection.
* The detail of a transaction is looked for in the blocks under `id` and `_id`, the consumer
  also accepts `transaction_id`; the model has one name.
* `generate_checkpoints` counts any exception of an insert as a skipped range
  (`checkpoint_service.py:167`); the count is not modelled, that the range is left out is.
* A request of the transfer endpoint that the client repeats is a new request with a new id: the
  API has no idempotency key, and both transfers are kept.
* A transaction of a stored block stays listed as pending until it is confirmed; that a miner
  does not put it into a second block is left to M3.
* A graceful shutdown cancels the consumers at an `await`: to the models a `Crash` there. If a
  consumer ended with an exception, its `await` raises in the shutdown (`startup.py:33`) and the
  connections are closed by the end of the process.
* A message that is no JSON or has no `data` is rejected without a write, as a `DbFailure`
  before its first call is; it is no action of its own.
* Not modelled: the internal token (a comparison without state), the wiring of the application,
  the routers' mapping to responses, the shapes of requests and responses, the HTTP call behind
  `check_wallet_exist` and its timeout (its answer is nondeterministic), look-ups of one query,
  the order and direction of the rows of a history, `get_transaction_history` (no route).

## 6. Plan

Done, in this order: the core consumer with its abstract record and its proofs; credits;
transfers and their composition; Genesis; validation and checkpoints; history; publisher with
EventBus; candidate blocks with LinkedChain; pages, statistics and details; proofs about
credits, candidate blocks, Genesis, publisher and Ledger; sums of amounts, balance and
overdrafts; gaps of the record; queries; validation and checkpoints.

Left, by what it would add:

1. A run for the two disagreements of section 5 that have none, the decimals of small amounts and
   the rows listed twice.
2. Ledger with the whole credit consumer in the place of CreditBook: a larger instance, no new
   behaviour.
