------------------------------ MODULE Genesis ------------------------------
(***************************************************************************)
(* The start of the API processes (lifespan in src/src/api/startup.py):    *)
(* initialize_database, then GenesisService.create_genesis_if_needed, then *)
(* the consumers.  Several processes may start together on an empty        *)
(* database, and one may die between any two calls; a call that raises     *)
(* ends the process too, because nothing in the lifespan catches it.       *)
(*                                                                         *)
(* A block is its height and its hash.  Every Genesis block that a start   *)
(* builds has a hash of its own (its timestamp and tx_id are fresh).       *)
(***************************************************************************)
EXTENDS Integers, FiniteSets

CONSTANTS
    Proc,          \* API processes
    GenesisHash,   \* [1..MaxBuilds -> hash]: of the Genesis blocks built, one after the other
    MinedHash,     \* hashes of the blocks the mining service publishes
    MinedIndex,    \* [MinedHash -> 1..MaxHeight]: their heights, forks included
    NoHash,
    MaxHeight,     \* bound: height of the chain
    MaxBuilds,     \* bound: Genesis blocks built
    MaxCrashes     \* bound: deaths of a process

GenesisHashes == {GenesisHash[i] : i \in 1..MaxBuilds}

ASSUME GenesisAssumption ==
    /\ MaxHeight \in Nat /\ MaxBuilds \in Nat /\ MaxCrashes \in Nat
    /\ NoHash \notin GenesisHashes \cup MinedHash
    /\ GenesisHashes \cap MinedHash = {}
    /\ MinedIndex \in [MinedHash -> 1..MaxHeight]
    /\ \A i, j \in 1..MaxBuilds : GenesisHash[i] = GenesisHash[j] => i = j

VARIABLES
    blocks,        \* the blocks collection
    indexed,       \* its unique index on "index" exists
    metadata,      \* the document of chain_metadata, or NoMetadata
    boot,          \* the lifespan of a process, with its local variables
    events,        \* hashes announced by genesis.created (history)
    built,         \* Genesis blocks built so far (history)
    late,          \* heights stored when a higher one was there already (history)
    crashes        \* deaths so far

vars == <<blocks, indexed, metadata, boot, events, built, late, crashes>>

BlockDoc(i, h) == [index |-> i, hash |-> h]
NoMetadata == [genesis_created |-> FALSE, last_block_index |-> 0,
               last_block_hash |-> NoHash, total_blocks |-> 0]
ChainMetadata(i, h, n) == [genesis_created |-> TRUE, last_block_index |-> i,
                           last_block_hash |-> h, total_blocks |-> n]

Off == [pc |-> "down", block |-> BlockDoc(0, NoHash), total |-> 0]
At(pc, b, n) == [pc |-> pc, block |-> b, total |-> n]
Nothing == BlockDoc(0, NoHash)

Init ==
    /\ blocks = {}
    /\ indexed = FALSE
    /\ metadata = NoMetadata
    /\ boot = [p \in Proc |-> Off]
    /\ events = {}
    /\ built = 0
    /\ late = {}
    /\ crashes = 0

Goto(p, pc, b, n) == boot' = [boot EXCEPT ![p] = At(pc, b, n)]

\* The lifespan reaches its yield: the process serves and its consumers run.
Up(p) == Goto(p, "up", Nothing, 0)

Heights == {b.index : b \in blocks}

\* get_last_block: the first of the blocks in descending order of index.
IsLast(b) == b \in blocks /\ \A c \in blocks : c.index <= b.index

-----------------------------------------------------------------------------
Start(p) ==
    /\ boot[p].pc = "down"
    /\ Goto(p, "indexes", Nothing, 0)
    /\ UNCHANGED <<blocks, indexed, metadata, events, built, late, crashes>>

\* Mutant: the index on the height is not unique.
InitializeWithoutIndex(p) ==
    /\ boot[p].pc = "indexes"
    /\ Goto(p, "metadata", Nothing, 0)
    /\ UNCHANGED <<blocks, indexed, metadata, events, built, late, crashes>>

\* initialize_database: the indexes exist before anything is written.
InitializeDatabase(p) ==
    /\ boot[p].pc = "indexes"
    /\ indexed' = TRUE
    /\ Goto(p, "metadata", Nothing, 0)
    /\ UNCHANGED <<blocks, metadata, events, built, late, crashes>>

ReadMetadata(p) ==
    /\ boot[p].pc = "metadata"
    /\ IF metadata.genesis_created THEN Up(p) ELSE Goto(p, "last", Nothing, 0)
    /\ UNCHANGED <<blocks, indexed, metadata, events, built, late, crashes>>

\* build_genesis_transaction and build_genesis_block.
BuildGenesis(p) ==
    /\ built < MaxBuilds
    /\ built' = built + 1
    /\ Goto(p, "insert", BlockDoc(0, GenesisHash[built + 1]), 0)

\* Mutant: a start that finds blocks returns, leaving the metadata as it is.
ReadLastNoSync(p) ==
    /\ boot[p].pc = "last"
    /\ IF blocks # {} THEN Up(p) /\ UNCHANGED built
       ELSE BuildGenesis(p)
    /\ UNCHANGED <<blocks, indexed, metadata, events, late, crashes>>

\* Mutant: the metadata is written before the block.
ReadLastMarking(p) ==
    /\ boot[p].pc = "last"
    /\ blocks = {}
    /\ BuildGenesis(p)
    /\ metadata' = ChainMetadata(0, GenesisHash[built + 1], 1)
    /\ UNCHANGED <<blocks, indexed, events, late, crashes>>

\* get_last_block, and with an empty chain the building of a Genesis block.
ReadLast(p) ==
    /\ boot[p].pc = "last"
    /\ IF blocks # {}
       THEN /\ \E b \in blocks : IsLast(b) /\ Goto(p, "count", b, 0)
            /\ UNCHANGED built
       ELSE BuildGenesis(p)
    /\ UNCHANGED <<blocks, indexed, metadata, events, late, crashes>>

\* _sync_metadata_from_existing_chain: count_documents, then the write.
CountBlocks(p) ==
    /\ boot[p].pc = "count"
    /\ Goto(p, "sync", boot[p].block, Cardinality(blocks))
    /\ UNCHANGED <<blocks, indexed, metadata, events, built, late, crashes>>

\* Mutant: the height of the last block for the number of blocks.
SyncMetadataOffByOne(p) ==
    LET b == boot[p].block IN
    /\ boot[p].pc = "sync"
    /\ metadata' = ChainMetadata(b.index, b.hash, b.index)
    /\ Up(p)
    /\ UNCHANGED <<blocks, indexed, events, built, late, crashes>>

SyncMetadata(p) ==
    LET b == boot[p].block IN
    /\ boot[p].pc = "sync"
    /\ metadata' = ChainMetadata(b.index, b.hash, boot[p].total)
    /\ Up(p)
    /\ UNCHANGED <<blocks, indexed, events, built, late, crashes>>

\* Mutant: the DuplicateKeyError is swallowed and the start goes on.
InsertGenesisSwallowed(p) ==
    LET b == boot[p].block IN
    /\ boot[p].pc = "insert"
    /\ blocks' = IF indexed /\ 0 \in Heights THEN blocks ELSE blocks \cup {b}
    /\ Goto(p, "write", b, 0)
    /\ UNCHANGED <<indexed, metadata, events, built, late, crashes>>

\* create_genesis_block.  A DuplicateKeyError means that another process was first:
\* this start is over, without metadata and without an event.
InsertGenesis(p) ==
    LET b == boot[p].block IN
    /\ boot[p].pc = "insert"
    /\ IF indexed /\ 0 \in Heights
       THEN Up(p) /\ UNCHANGED blocks
       ELSE Goto(p, "write", b, 0) /\ blocks' = blocks \cup {b}
    /\ UNCHANGED <<indexed, metadata, events, built, late, crashes>>

WriteMetadata(p) ==
    LET b == boot[p].block IN
    /\ boot[p].pc = "write"
    /\ metadata' = ChainMetadata(b.index, b.hash, 1)
    /\ Goto(p, "publish", b, 0)
    /\ UNCHANGED <<blocks, indexed, events, built, late, crashes>>

\* genesis.created: a broker that cannot be reached is logged and forgotten.
PublishGenesis(p) ==
    /\ boot[p].pc = "publish"
    /\ events' \in {events, events \cup {boot[p].block.hash}}
    /\ Up(p)
    /\ UNCHANGED <<blocks, indexed, metadata, built, late, crashes>>

\* The process dies, or a database call raises and the lifespan with it.
Crash(p) ==
    /\ crashes < MaxCrashes
    /\ boot[p].pc # "down"
    /\ boot' = [boot EXCEPT ![p] = Off]
    /\ crashes' = crashes + 1
    /\ UNCHANGED <<blocks, indexed, metadata, events, built, late>>

\* The block.mined consumer of a running process stores a block at a height that is free,
\* whatever heights there are below and above it.
Mine(p) ==
    /\ boot[p].pc = "up"
    /\ \E h \in MinedHash :
        LET i == MinedIndex[h] IN
        /\ i \notin Heights
        /\ blocks' = blocks \cup {BlockDoc(i, h)}
        /\ late' = IF \E b \in blocks : b.index > i THEN late \cup {i} ELSE late
    /\ UNCHANGED <<indexed, metadata, boot, events, built, crashes>>

-----------------------------------------------------------------------------
Lifespan(p) ==
    \/ InitializeDatabase(p) \/ ReadMetadata(p) \/ ReadLast(p)
    \/ CountBlocks(p) \/ SyncMetadata(p)
    \/ InsertGenesis(p) \/ WriteMetadata(p) \/ PublishGenesis(p)

Next == \E p \in Proc : Start(p) \/ Lifespan(p) \/ Crash(p) \/ Mine(p)

\* A container that died is started again and its lifespan runs to its yield.
Spec ==
    /\ Init
    /\ [][Next]_vars
    /\ \A p \in Proc : WF_vars(Start(p)) /\ WF_vars(Lifespan(p))

-----------------------------------------------------------------------------
TypeOK ==
    LET hashes == GenesisHashes \cup MinedHash IN
    /\ blocks \subseteq [index : 0..MaxHeight, hash : hashes]
    /\ indexed \in BOOLEAN
    /\ metadata \in [genesis_created : BOOLEAN, last_block_index : 0..MaxHeight,
                     last_block_hash : hashes \cup {NoHash}, total_blocks : Nat]
    /\ boot \in [Proc -> [pc : {"down", "indexes", "metadata", "last", "count", "sync",
                                "insert", "write", "publish", "up"},
                          block : [index : 0..MaxHeight, hash : hashes \cup {NoHash}],
                          total : Nat]]
    /\ events \subseteq GenesisHashes
    /\ built \in 0..MaxBuilds
    /\ late \subseteq 1..MaxHeight
    /\ crashes \in 0..MaxCrashes

\* However many processes start on an empty database, one Genesis block is stored
\* (genesis_service.py:55: "Genesis block ya existe; omitiendo recreacion").
OneGenesis == Cardinality({b \in blocks : b.index = 0}) <= 1

\* A process that serves and consumes has its Genesis block in the database: what
\* BlockMinedConsumer takes as its initial state.
UpHasGenesis == \A p \in Proc : boot[p].pc = "up" => 0 \in Heights

\* Every height up to i is stored, and none came after a higher one.
Steady(i) == \A j \in 0..i : j \in Heights /\ j \notin late

\* The metadata that ends every later start names a block that is stored.  It counts no block
\* that is not there, and of those up to the named one it misses none that was stored in
\* order: what the consumer stores between the two queries of the sync is counted, not lost.
MetadataTruthful ==
    metadata.genesis_created =>
        /\ BlockDoc(metadata.last_block_index, metadata.last_block_hash) \in blocks
        /\ metadata.total_blocks <= Cardinality(blocks)
        /\ Steady(metadata.last_block_index) => metadata.last_block_index < metadata.total_blocks

\* genesis.created announces the block that is in the chain, never one that lost the
\* race for height 0.
AnnouncedIsStored == \A h \in events : BlockDoc(0, h) \in blocks

\* Whatever dies between the insert and the metadata, some later start repairs it.
EventuallyMarked == <>[](metadata.genesis_created)
=============================================================================
