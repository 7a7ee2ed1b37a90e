--------------------------- MODULE GenesisProofs ---------------------------
(***************************************************************************)
(* Proofs about Genesis, for every number of processes that start          *)
(* together, every height and every number of deaths: one Genesis block,   *)
(* in the database before any process serves, announced only if it is      *)
(* stored, and metadata that never lies.                                   *)
(*                                                                         *)
(* The heart of the inductive invariant is that Genesis is the first block *)
(* that is stored (GenesisFirst) and that a start knows of a stored block  *)
(* and of a count only what stays true while other processes store blocks, *)
(* above, below and next to it (StartKnows).                               *)
(***************************************************************************)
EXTENDS Genesis, FiniteSetTheorems, TLAPS

\* A start that got past initialize_database left the unique index behind.
IndexFirst == \A p \in Proc : boot[p].pc \notin {"down", "indexes"} => indexed

\* Before any other block Genesis is stored.
GenesisFirst == blocks # {} => 0 \in Heights

UniqueGenesis == \A a, b \in blocks : a.index = 0 /\ b.index = 0 => a = b

\* What the local variables of a start say of the collection.
StartKnows ==
    \A p \in Proc :
        LET b == boot[p].block IN
        /\ boot[p].pc \in {"insert", "write", "publish"} =>
              b.hash \in GenesisHashes /\ b.index = 0
        /\ boot[p].pc \in {"count", "sync", "write", "publish"} => b \in blocks
        /\ boot[p].pc = "sync" =>
              /\ boot[p].total <= Cardinality(blocks)
              /\ Steady(b.index) => b.index < boot[p].total

IInv ==
    /\ TypeOK
    /\ IsFiniteSet(blocks)
    /\ IndexFirst
    /\ GenesisFirst
    /\ UniqueGenesis
    /\ StartKnows
    /\ UpHasGenesis
    /\ MetadataTruthful
    /\ AnnouncedIsStored

-----------------------------------------------------------------------------
(* Heights and numbers of blocks. *)

\* Up to a stored block with no gap below it there are at least as many blocks as heights.
LEMMA EnoughBlocks ==
    ASSUME TypeOK, IsFiniteSet(blocks), NEW b \in blocks, \A i \in 0..b.index : i \in Heights
    PROVE  Cardinality(blocks) \in Nat /\ b.index + 1 <= Cardinality(blocks)
  <1>1. b.index \in Nat /\ \A c \in blocks : c.index \in Nat
    BY GenesisAssumption DEF TypeOK
  <1>2. IsFiniteSet(0..b.index) /\ Cardinality(0..b.index) = b.index + 1
    BY <1>1, FS_Interval
  <1>. DEFINE low == {c \in blocks : c.index <= b.index}
              f == [c \in low |-> c.index]
  <1>3. f \in Surjection(low, 0..b.index)
    BY <1>1 DEF Surjection, Heights
  <1>4. IsFiniteSet(low) /\ Cardinality(low) <= Cardinality(blocks)
    BY FS_Subset
  <1>5. Cardinality(0..b.index) <= Cardinality(low)
    BY <1>3, <1>4, FS_Surjection
  <1>6. Cardinality(low) \in Nat /\ Cardinality(blocks) \in Nat
    BY <1>4, FS_CardinalityType
  <1>. QED
    BY <1>1, <1>2, <1>4, <1>5, <1>6

\* A step stores one block at most: a Genesis block when there is none, or another one when
\* there is; only this one can come late, below a block that is stored.
LEMMA BlocksEffect ==
    ASSUME TypeOK, IndexFirst, StartKnows, [Next]_vars
    PROVE  \/ blocks' = blocks /\ late' = late
           \/ /\ \E h \in GenesisHashes : 0 \notin Heights /\ blocks' = blocks \cup {BlockDoc(0, h)}
              /\ late' = late
           \/ \E h \in MinedHash :
                 /\ MinedIndex[h] \notin Heights
                 /\ blocks' = blocks \cup {BlockDoc(MinedIndex[h], h)}
                 /\ late' = IF \E b \in blocks : b.index > MinedIndex[h]
                            THEN late \cup {MinedIndex[h]} ELSE late
                 /\ \E p \in Proc : boot[p].pc = "up"
  <1>1. ASSUME NEW p \in Proc, InsertGenesis(p)
        PROVE  /\ late' = late
               /\ \/ blocks' = blocks
                  \/ \E h \in GenesisHashes : 0 \notin Heights /\ blocks' = blocks \cup {BlockDoc(0, h)}
    <2>1. indexed /\ boot[p].block.hash \in GenesisHashes /\ boot[p].block.index = 0
      BY <1>1 DEF InsertGenesis, IndexFirst, StartKnows
    <2>2. boot[p].block = BlockDoc(0, boot[p].block.hash)
      BY <2>1 DEF TypeOK, BlockDoc
    <2>3. CASE 0 \in Heights
      BY <1>1, <2>1, <2>3 DEF InsertGenesis
    <2>4. CASE 0 \notin Heights
      BY <1>1, <2>1, <2>2, <2>4 DEF InsertGenesis
    <2>. QED
      BY <2>3, <2>4
  <1>2. ASSUME NEW p \in Proc, Mine(p)
        PROVE  /\ boot[p].pc = "up"
               /\ \E h \in MinedHash :
                     /\ MinedIndex[h] \notin Heights
                     /\ blocks' = blocks \cup {BlockDoc(MinedIndex[h], h)}
                     /\ late' = IF \E b \in blocks : b.index > MinedIndex[h]
                                THEN late \cup {MinedIndex[h]} ELSE late
    BY <1>2 DEF Mine
  <1>. QED
    BY <1>1, <1>2
       DEF Next, Lifespan, Start, InitializeDatabase, ReadMetadata, ReadLast, CountBlocks,
           SyncMetadata, WriteMetadata, PublishGenesis, Crash, vars

\* What a start knows stays true: blocks and heights are never taken away.
LEMMA BlocksStay ==
    ASSUME TypeOK, IsFiniteSet(blocks), IndexFirst, StartKnows, [Next]_vars
    PROVE  /\ blocks \subseteq blocks' /\ Heights \subseteq Heights'
           /\ IsFiniteSet(blocks')
           /\ Cardinality(blocks) \in Nat /\ Cardinality(blocks') \in Nat
           /\ Cardinality(blocks) <= Cardinality(blocks')
  <1>1. blocks \subseteq blocks' /\ IsFiniteSet(blocks')
    BY BlocksEffect, FS_AddElement
  <1>2. Heights \subseteq Heights'
    BY <1>1 DEF Heights
  <1>. QED
    BY <1>1, <1>2, FS_Subset, FS_CardinalityType

-----------------------------------------------------------------------------
(* The parts of the inductive invariant about the collection. *)

LEMMA GenesisFirstStep ==
    ASSUME TypeOK, IsFiniteSet(blocks), IndexFirst, StartKnows, UpHasGenesis, GenesisFirst,
           [Next]_vars
    PROVE  GenesisFirst'
  <1>1. CASE blocks # {}
    BY <1>1, BlocksStay DEF GenesisFirst
  <1>2. ASSUME NEW h \in GenesisHashes, blocks' = blocks \cup {BlockDoc(0, h)}
        PROVE  GenesisFirst'
    BY <1>2 DEF GenesisFirst, Heights, BlockDoc
  <1>3. ASSUME NEW p \in Proc, boot[p].pc = "up"
        PROVE  blocks # {}
    BY <1>3 DEF UpHasGenesis, Heights
  <1>4. CASE blocks' = blocks
    BY <1>4 DEF GenesisFirst, Heights
  <1>. QED
    BY <1>1, <1>2, <1>3, <1>4, BlocksEffect

\* Steady in the next state, of an i of this state or of that one.
SteadyNext(i) == \A j \in 0..i : j \in Heights' /\ j \notin late'

\* A height that is steady was so before: nothing stored below a stored block is on time.
LEMMA SteadyBefore ==
    ASSUME TypeOK, IndexFirst, GenesisFirst, StartKnows, [Next]_vars, NEW b \in blocks,
           SteadyNext(b.index)
    PROVE  Steady(b.index)
  <1>. SUFFICES ASSUME NEW j \in 0..b.index
                PROVE  j \in Heights /\ j \notin late
    BY DEF Steady
  <1>1. j \in Heights' /\ j \notin late' /\ b.index \in Nat
    BY GenesisAssumption DEF SteadyNext, TypeOK
  <1>2. CASE blocks' = blocks /\ late' = late
    BY <1>1, <1>2 DEF Heights
  <1>3. ASSUME NEW h \in GenesisHashes, 0 \notin Heights, blocks' = blocks \cup {BlockDoc(0, h)},
               late' = late
        PROVE  j \in Heights /\ j \notin late
    BY <1>3 DEF GenesisFirst
  <1>4. ASSUME NEW h \in MinedHash, blocks' = blocks \cup {BlockDoc(MinedIndex[h], h)},
               late' = IF \E c \in blocks : c.index > MinedIndex[h]
                       THEN late \cup {MinedIndex[h]} ELSE late
        PROVE  j \in Heights /\ j \notin late
    <2>. DEFINE i == MinedIndex[h]
    <2>1. i \in Nat /\ j \notin late
      BY <1>1, <1>4, GenesisAssumption
    <2>2. CASE j = i
      <3>1. ~(b.index > i)
        BY <1>1, <1>4, <2>2
      <3>2. j = b.index
        BY <1>1, <2>1, <2>2, <3>1
      <3>. QED
        BY <2>1, <3>2 DEF Heights
    <2>3. CASE j # i
      BY <1>1, <1>4, <2>1, <2>3 DEF Heights, BlockDoc
    <2>. QED
      BY <2>2, <2>3
  <1>. QED
    BY <1>2, <1>3, <1>4, BlocksEffect

LEMMA UniqueGenesisStep ==
    ASSUME TypeOK, IndexFirst, StartKnows, UniqueGenesis, [Next]_vars
    PROVE  UniqueGenesis'
  <1>1. ASSUME NEW h \in GenesisHashes, 0 \notin Heights, blocks' = blocks \cup {BlockDoc(0, h)}
        PROVE  UniqueGenesis'
    BY <1>1 DEF UniqueGenesis, Heights
  <1>2. ASSUME NEW h \in MinedHash, blocks' = blocks \cup {BlockDoc(MinedIndex[h], h)}
        PROVE  UniqueGenesis'
    <2>1. BlockDoc(MinedIndex[h], h).index # 0
      BY GenesisAssumption DEF BlockDoc
    <2>. QED
      BY <1>2, <2>1 DEF UniqueGenesis
  <1>. QED
    BY <1>1, <1>2, BlocksEffect DEF UniqueGenesis

-----------------------------------------------------------------------------
(* Types, and the lifespan of a process. *)

\* The type of a lifespan (boot) and of its document (metadata), named for the proofs.
Hashes == GenesisHashes \cup MinedHash
BootOf == [pc : {"down", "indexes", "metadata", "last", "count", "sync", "insert", "write",
                 "publish", "up"},
           block : [index : 0..MaxHeight, hash : Hashes \cup {NoHash}],
           total : Nat]

LEMMA BootType ==
    ASSUME TypeOK, IsFiniteSet(blocks), [Next]_vars
    PROVE  boot' \in [Proc -> BootOf]
  <1>1. boot \in [Proc -> BootOf] /\ Nothing \in [index : 0..MaxHeight, hash : Hashes \cup {NoHash}]
    BY GenesisAssumption DEF TypeOK, BootOf, Hashes, Nothing, BlockDoc
  <1>2. Cardinality(blocks) \in Nat
    BY FS_CardinalityType
  <1>3. ASSUME NEW p \in Proc, Start(p) \/ InitializeDatabase(p) \/ ReadMetadata(p)
                               \/ SyncMetadata(p) \/ PublishGenesis(p)
        PROVE  boot' \in [Proc -> BootOf]
    <2>1. PICK pc \in {"indexes", "metadata", "last", "up"} : Goto(p, pc, Nothing, 0)
      BY <1>3, Zenon
         DEF Start, InitializeDatabase, ReadMetadata, SyncMetadata, PublishGenesis, Up
    <2>. QED
      BY <1>1, <2>1 DEF Goto, At, BootOf
  <1>4. ASSUME NEW p \in Proc, ReadLast(p)
        PROVE  boot' \in [Proc -> BootOf]
    <2>1. CASE blocks # {}
      <3>1. PICK b \in blocks : Goto(p, "count", b, 0)
        BY <1>4, <2>1 DEF ReadLast
      <3>. QED
        BY <1>1, <3>1 DEF Goto, At, BootOf, TypeOK, Hashes
    <2>2. CASE blocks = {}
      <3>1. built + 1 \in 1..MaxBuilds /\ Goto(p, "insert", BlockDoc(0, GenesisHash[built + 1]), 0)
        BY <1>4, <2>2, GenesisAssumption DEF ReadLast, BuildGenesis, TypeOK
      <3>2. BlockDoc(0, GenesisHash[built + 1]) \in [index : 0..MaxHeight, hash : Hashes \cup {NoHash}]
        BY <3>1, GenesisAssumption DEF BlockDoc, Hashes, GenesisHashes
      <3>. QED
        BY <1>1, <3>1, <3>2 DEF Goto, At, BootOf
    <2>. QED
      BY <2>1, <2>2
  <1>5. ASSUME NEW p \in Proc, CountBlocks(p) \/ WriteMetadata(p)
        PROVE  boot' \in [Proc -> BootOf]
    BY <1>1, <1>2, <1>5 DEF CountBlocks, WriteMetadata, Goto, At, BootOf
  <1>6. ASSUME NEW p \in Proc, InsertGenesis(p)
        PROVE  boot' \in [Proc -> BootOf]
    <2>1. Up(p) \/ Goto(p, "write", boot[p].block, 0)
      BY <1>6, Zenon DEF InsertGenesis
    <2>. QED
      BY <1>1, <2>1 DEF Up, Goto, At, BootOf
  <1>7. ASSUME NEW p \in Proc, Crash(p)
        PROVE  boot' \in [Proc -> BootOf]
    BY <1>1, <1>7 DEF Crash, Off, Nothing, BootOf
  <1>. QED
    BY <1>1, <1>3, <1>4, <1>5, <1>6, <1>7 DEF Next, Lifespan, Mine, vars

LEMMA MetadataType ==
    ASSUME TypeOK, [Next]_vars
    PROVE  metadata' \in [genesis_created : BOOLEAN, last_block_index : 0..MaxHeight,
                          last_block_hash : Hashes \cup {NoHash}, total_blocks : Nat]
  <1>1. ASSUME NEW p \in Proc, SyncMetadata(p) \/ WriteMetadata(p)
        PROVE  metadata' \in [genesis_created : BOOLEAN, last_block_index : 0..MaxHeight,
                              last_block_hash : Hashes \cup {NoHash}, total_blocks : Nat]
    <2>1. PICK n \in Nat : metadata' = ChainMetadata(boot[p].block.index, boot[p].block.hash, n)
      BY <1>1 DEF SyncMetadata, WriteMetadata, TypeOK
    <2>2. boot[p].block.index \in 0..MaxHeight /\ boot[p].block.hash \in Hashes \cup {NoHash}
      BY <1>1 DEF TypeOK, Hashes
    <2>. QED
      BY <2>1, <2>2 DEF ChainMetadata
  <1>. QED
    BY <1>1
       DEF TypeOK, Hashes, Next, Lifespan, Start, InitializeDatabase, ReadMetadata, ReadLast,
           CountBlocks, InsertGenesis, PublishGenesis, Crash, Mine, vars

LEMMA TypeStep ==
    ASSUME TypeOK, IsFiniteSet(blocks), IndexFirst, StartKnows, [Next]_vars
    PROVE  TypeOK'
  <1>1. blocks' \subseteq [index : 0..MaxHeight, hash : Hashes]
    BY BlocksEffect, GenesisAssumption DEF TypeOK, Hashes, BlockDoc
  <1>2. indexed' \in BOOLEAN
    BY DEF TypeOK, Next, Lifespan, Start, InitializeDatabase, ReadMetadata, ReadLast,
           CountBlocks, SyncMetadata, InsertGenesis, WriteMetadata, PublishGenesis, Crash, Mine,
           vars
  <1>3. events' \subseteq GenesisHashes
    BY DEF TypeOK, StartKnows, Next, Lifespan, Start, InitializeDatabase, ReadMetadata,
           ReadLast, CountBlocks, SyncMetadata, InsertGenesis, WriteMetadata, PublishGenesis,
           Crash, Mine, vars
  <1>4. built' \in 0..MaxBuilds
    BY GenesisAssumption
       DEF TypeOK, Next, Lifespan, Start, InitializeDatabase, ReadMetadata, ReadLast,
           BuildGenesis, CountBlocks, SyncMetadata, InsertGenesis, WriteMetadata,
           PublishGenesis, Crash, Mine, vars
  <1>5. crashes' \in 0..MaxCrashes
    BY GenesisAssumption
       DEF TypeOK, Next, Lifespan, Start, InitializeDatabase, ReadMetadata, ReadLast,
           CountBlocks, SyncMetadata, InsertGenesis, WriteMetadata, PublishGenesis, Crash, Mine,
           vars
  <1>6. late' \subseteq 1..MaxHeight
    BY BlocksEffect, GenesisAssumption DEF TypeOK
  <1>. QED
    BY <1>1, <1>2, <1>3, <1>4, <1>5, <1>6, BootType, MetadataType DEF TypeOK, Hashes, BootOf

LEMMA IndexFirstStep ==
    ASSUME TypeOK, IndexFirst, [Next]_vars
    PROVE  IndexFirst'
  <1>1. ASSUME NEW p \in Proc, boot[p].pc \notin {"down", "indexes"}, UNCHANGED indexed,
               \A q \in Proc \ {p} : boot'[q] = boot[q]
        PROVE  IndexFirst'
    BY <1>1 DEF IndexFirst
  <1>2. ASSUME NEW p \in Proc,
               \/ ReadMetadata(p) \/ ReadLast(p) \/ CountBlocks(p) \/ SyncMetadata(p)
               \/ InsertGenesis(p) \/ WriteMetadata(p) \/ PublishGenesis(p)
        PROVE  IndexFirst'
    BY <1>1, <1>2
       DEF ReadMetadata, ReadLast, BuildGenesis, CountBlocks, SyncMetadata, InsertGenesis,
           WriteMetadata, PublishGenesis, Up, Goto, TypeOK
  <1>3. ASSUME NEW p \in Proc, Start(p) \/ Crash(p)
        PROVE  IndexFirst'
    BY <1>3 DEF Start, Crash, Goto, At, Off, IndexFirst, TypeOK
  <1>4. ASSUME NEW p \in Proc, InitializeDatabase(p) \/ Mine(p)
        PROVE  IndexFirst'
    BY <1>4 DEF InitializeDatabase, Mine, IndexFirst
  <1>5. CASE UNCHANGED vars
    BY <1>5 DEF vars, IndexFirst
  <1>. QED
    BY <1>2, <1>3, <1>4, <1>5 DEF Next, Lifespan

-----------------------------------------------------------------------------
(* What a start knows, and what it leaves behind. *)

LEMMA StartKnowsStep ==
    ASSUME IInv, [Next]_vars
    PROVE  StartKnows'
  <1>. SUFFICES ASSUME NEW p \in Proc
                PROVE  LET b == boot'[p].block IN
                       /\ boot'[p].pc \in {"insert", "write", "publish"} =>
                             b.hash \in GenesisHashes /\ b.index = 0
                       /\ boot'[p].pc \in {"count", "sync", "write", "publish"} => b \in blocks'
                       /\ boot'[p].pc = "sync" =>
                             /\ boot'[p].total <= Cardinality(blocks')
                             /\ SteadyNext(b.index) => b.index < boot'[p].total
    BY DEF StartKnows, Steady, SteadyNext
  <1>1. blocks \subseteq blocks' /\ Cardinality(blocks) \in Nat
        /\ Cardinality(blocks') \in Nat /\ Cardinality(blocks) <= Cardinality(blocks')
    BY BlocksStay DEF IInv
  <1>2. boot[p].block.index \in Nat
    BY GenesisAssumption DEF IInv, TypeOK
  <1>3. CASE boot'[p] = boot[p]
    <2>1. boot[p].pc = "sync" /\ SteadyNext(boot[p].block.index) => Steady(boot[p].block.index)
      BY SteadyBefore DEF IInv, StartKnows
    <2>2. boot[p].total \in Nat
      BY DEF IInv, TypeOK
    <2>. QED
      BY <1>1, <1>2, <1>3, <2>1, <2>2 DEF IInv, StartKnows
  <1>4. CASE boot'[p].pc \in {"down", "indexes", "metadata", "last", "up"}
    BY <1>4
  <1>5. CASE ReadLast(p)
    <2>1. CASE blocks # {}
      <3>1. PICK b \in blocks : boot'[p] = At("count", b, 0)
        BY <1>5, <2>1 DEF ReadLast, Goto, IInv, TypeOK
      <3>. QED
        BY <1>1, <3>1 DEF At
    <2>2. CASE blocks = {}
      <3>1. built + 1 \in 1..MaxBuilds /\ boot'[p] = At("insert", BlockDoc(0, GenesisHash[built + 1]), 0)
        BY <1>5, <2>2, GenesisAssumption DEF ReadLast, BuildGenesis, Goto, IInv, TypeOK
      <3>. QED
        BY <3>1 DEF At, BlockDoc, GenesisHashes
    <2>. QED
      BY <2>1, <2>2
  <1>6. CASE CountBlocks(p)
    <2>1. boot'[p] = At("sync", boot[p].block, Cardinality(blocks)) /\ boot[p].block \in blocks
      BY <1>6 DEF CountBlocks, Goto, IInv, TypeOK, StartKnows
    <2>2. SteadyNext(boot[p].block.index) => boot[p].block.index + 1 <= Cardinality(blocks)
      <3>1. SUFFICES ASSUME SteadyNext(boot[p].block.index)
                     PROVE  boot[p].block.index + 1 <= Cardinality(blocks)
        OBVIOUS
      <3>2. Steady(boot[p].block.index)
        BY <2>1, <3>1, SteadyBefore DEF IInv
      <3>. QED
        BY <2>1, <3>2, EnoughBlocks DEF IInv, Steady
    <2>. QED
      BY <1>1, <1>2, <2>1, <2>2 DEF At
  <1>7. CASE InsertGenesis(p)
    <2>1. \/ Goto(p, "up", Nothing, 0)
          \/ Goto(p, "write", boot[p].block, 0) /\ blocks' = blocks \cup {boot[p].block}
      BY <1>7, Zenon DEF InsertGenesis, Up
    <2>2. \/ boot'[p].pc = "up"
          \/ boot'[p] = At("write", boot[p].block, 0) /\ blocks' = blocks \cup {boot[p].block}
      BY <2>1 DEF Goto, At, IInv, TypeOK
    <2>. QED
      BY <1>7, <2>2 DEF InsertGenesis, At, IInv, StartKnows
  <1>8. CASE WriteMetadata(p)
    BY <1>1, <1>8 DEF WriteMetadata, Goto, At, IInv, TypeOK, StartKnows
  <1>9. CASE Start(p) \/ InitializeDatabase(p) \/ ReadMetadata(p) \/ SyncMetadata(p)
             \/ PublishGenesis(p) \/ Crash(p)
    <2>1. boot'[p].pc \in {"down", "indexes", "metadata", "last", "up"}
      BY <1>9
         DEF Start, InitializeDatabase, ReadMetadata, SyncMetadata, PublishGenesis, Crash, Up,
             Goto, At, Off, IInv, TypeOK
    <2>. QED
      BY <1>4, <2>1
  <1>10. CASE \E q \in Proc \ {p} : Start(q) \/ Lifespan(q) \/ Crash(q)
    <2>1. boot'[p] = boot[p]
      BY <1>10
         DEF Start, Lifespan, InitializeDatabase, ReadMetadata, ReadLast, BuildGenesis,
             CountBlocks, SyncMetadata, InsertGenesis, WriteMetadata, PublishGenesis, Crash, Up,
             Goto, IInv, TypeOK
    <2>. QED
      BY <1>3, <2>1
  <1>11. CASE UNCHANGED boot
    BY <1>3, <1>11
  <1>. QED
    BY <1>5, <1>6, <1>7, <1>8, <1>9, <1>10, <1>11 DEF Next, Lifespan, Mine, vars

LEMMA UpHasGenesisStep ==
    ASSUME IInv, [Next]_vars
    PROVE  UpHasGenesis'
  <1>. SUFFICES ASSUME NEW p \in Proc, boot'[p].pc = "up"
                PROVE  0 \in Heights'
    BY DEF UpHasGenesis
  <1>1. Heights \subseteq Heights'
    BY BlocksStay DEF IInv
  <1>2. CASE boot[p].pc = "up"
    BY <1>1, <1>2 DEF IInv, UpHasGenesis
  <1>3. CASE 0 \in Heights
    BY <1>1, <1>3
  <1>4. CASE ReadMetadata(p) \/ SyncMetadata(p) \/ PublishGenesis(p)
    <2>1. blocks # {}
      BY <1>4
         DEF ReadMetadata, SyncMetadata, PublishGenesis, Goto, At, IInv, TypeOK, StartKnows,
             MetadataTruthful
    <2>. QED
      BY <1>3, <2>1 DEF IInv, GenesisFirst
  <1>5. CASE InsertGenesis(p)
    <2>1. 0 \in Heights \/ boot'[p] = At("write", boot[p].block, 0)
      BY <1>5, Zenon DEF InsertGenesis, Goto, IInv, TypeOK
    <2>. QED
      BY <1>3, <2>1 DEF At
  <1>6. boot[p].pc # "up" => ReadMetadata(p) \/ SyncMetadata(p) \/ PublishGenesis(p) \/ InsertGenesis(p)
    BY DEF Next, Lifespan, Start, InitializeDatabase, ReadMetadata, ReadLast, BuildGenesis,
           CountBlocks, SyncMetadata, InsertGenesis, WriteMetadata, PublishGenesis, Crash, Mine,
           Up, Goto, At, Off, IInv, TypeOK, vars
  <1>. QED
    BY <1>2, <1>4, <1>5, <1>6

LEMMA MetadataTruthfulStep ==
    ASSUME IInv, [Next]_vars
    PROVE  MetadataTruthful'
  <1>1. blocks \subseteq blocks' /\ Cardinality(blocks) \in Nat
        /\ Cardinality(blocks') \in Nat /\ Cardinality(blocks) <= Cardinality(blocks')
    BY BlocksStay DEF IInv
  <1>2. CASE UNCHANGED metadata
    <2>1. metadata.total_blocks \in Nat /\ metadata.last_block_index \in Nat
      BY GenesisAssumption DEF IInv, TypeOK
    <2>2. BlockDoc(metadata.last_block_index, metadata.last_block_hash).index
            = metadata.last_block_index
      BY DEF BlockDoc
    <2>3. metadata.genesis_created /\ SteadyNext(metadata.last_block_index)
            => Steady(metadata.last_block_index)
      BY <2>2, SteadyBefore DEF IInv, MetadataTruthful
    <2>. QED
      BY <1>1, <1>2, <2>1, <2>3 DEF IInv, MetadataTruthful, BlockDoc, Steady, SteadyNext
  <1>3. ASSUME NEW p \in Proc, SyncMetadata(p) \/ WriteMetadata(p)
        PROVE  MetadataTruthful'
    <2>. DEFINE b == boot[p].block
    <2>1. b \in blocks /\ b.index \in Nat /\ BlockDoc(b.index, b.hash) = b
      BY <1>3, GenesisAssumption
         DEF SyncMetadata, WriteMetadata, IInv, StartKnows, TypeOK, BlockDoc
    <2>2. SteadyNext(b.index) => Steady(b.index)
      BY <2>1, SteadyBefore DEF IInv
    <2>3. PICK n \in Nat : /\ metadata' = ChainMetadata(b.index, b.hash, n)
                           /\ n <= Cardinality(blocks)
                           /\ Steady(b.index) => b.index < n
      <3>1. CASE SyncMetadata(p)
        BY <3>1 DEF SyncMetadata, IInv, StartKnows, TypeOK
      <3>2. CASE WriteMetadata(p)
        <4>1. b.index = 0 /\ metadata' = ChainMetadata(b.index, b.hash, 1)
          BY <3>2 DEF WriteMetadata, IInv, StartKnows
        <4>2. 1 <= Cardinality(blocks)
          <5>1. Cardinality(blocks) # 0
            BY <2>1, FS_EmptySet DEF IInv
          <5>. QED
            BY <1>1, <5>1
        <4>. QED
          BY <4>1, <4>2
      <3>. QED
        BY <1>3, <3>1, <3>2
    <2>4. metadata'.last_block_index = b.index /\ metadata'.last_block_hash = b.hash
          /\ metadata'.total_blocks = n
      BY <2>3 DEF ChainMetadata
    <2>. QED
      BY <1>1, <2>1, <2>2, <2>3, <2>4 DEF MetadataTruthful, BlockDoc, Steady, SteadyNext
  <1>. QED
    BY <1>2, <1>3
       DEF Next, Lifespan, Start, InitializeDatabase, ReadMetadata, ReadLast, CountBlocks,
           InsertGenesis, PublishGenesis, Crash, Mine, vars

LEMMA AnnouncedIsStoredStep ==
    ASSUME IInv, [Next]_vars
    PROVE  AnnouncedIsStored'
  <1>1. blocks \subseteq blocks'
    BY BlocksStay DEF IInv
  <1>2. ASSUME NEW p \in Proc, PublishGenesis(p)
        PROVE  AnnouncedIsStored'
    <2>1. boot[p].block \in blocks /\ BlockDoc(0, boot[p].block.hash) = boot[p].block
      BY <1>2 DEF PublishGenesis, IInv, StartKnows, TypeOK, BlockDoc
    <2>. QED
      BY <1>1, <1>2, <2>1 DEF PublishGenesis, IInv, AnnouncedIsStored, BlockDoc
  <1>3. CASE UNCHANGED events
    BY <1>1, <1>3 DEF IInv, AnnouncedIsStored, BlockDoc
  <1>. QED
    BY <1>2, <1>3
       DEF Next, Lifespan, Start, InitializeDatabase, ReadMetadata, ReadLast, CountBlocks,
           SyncMetadata, InsertGenesis, WriteMetadata, Crash, Mine, vars

LEMMA InvInit == Init => IInv
  <1>. SUFFICES ASSUME Init
                PROVE  IInv
    OBVIOUS
  <1>1. TypeOK
    <2>1. /\ 0 \in 0..MaxHeight /\ 0 \in 0..MaxBuilds /\ 0 \in 0..MaxCrashes
      BY GenesisAssumption
    <2>2. /\ NoMetadata \in [genesis_created : BOOLEAN, last_block_index : 0..MaxHeight,
                             last_block_hash : Hashes \cup {NoHash}, total_blocks : Nat]
          /\ Off \in BootOf
      BY <2>1 DEF NoMetadata, Off, BootOf, BlockDoc
    <2>. QED
      BY <2>1, <2>2 DEF Init, TypeOK, Hashes, BootOf
  <1>2. IsFiniteSet(blocks) /\ GenesisFirst /\ UniqueGenesis /\ AnnouncedIsStored
    BY FS_EmptySet DEF Init, GenesisFirst, UniqueGenesis, AnnouncedIsStored
  <1>3. IndexFirst /\ StartKnows /\ UpHasGenesis /\ MetadataTruthful
    BY DEF Init, Off, NoMetadata, IndexFirst, StartKnows, UpHasGenesis, MetadataTruthful
  <1>. QED
    BY <1>1, <1>2, <1>3 DEF IInv

LEMMA InvStep == IInv /\ [Next]_vars => IInv'
  BY TypeStep, BlocksStay, IndexFirstStep, GenesisFirstStep, UniqueGenesisStep, StartKnowsStep,
     UpHasGenesisStep, MetadataTruthfulStep, AnnouncedIsStoredStep DEF IInv

LEMMA Invariance == Spec => []IInv
  BY InvInit, InvStep, PTL DEF Spec

-----------------------------------------------------------------------------
\* However many processes start on an empty database, one Genesis block is stored.
THEOREM OneGenesisAlways == Spec => []OneGenesis
  <1>1. IInv => OneGenesis
    <2>. SUFFICES ASSUME IInv
                  PROVE  OneGenesis
      OBVIOUS
    <2>. DEFINE firsts == {b \in blocks : b.index = 0}
    <2>1. CASE firsts = {}
      BY <2>1, FS_EmptySet DEF OneGenesis
    <2>2. CASE firsts # {}
      <3>1. PICK b \in firsts : \A c \in firsts : c = b
        BY <2>2 DEF IInv, UniqueGenesis
      <3>2. firsts = {b}
        BY <3>1
      <3>3. Cardinality({b}) = 1
        BY FS_Singleton
      <3>4. Cardinality(firsts) = 1
        BY <3>2, <3>3, Zenon
      <3>. QED
        BY <3>4 DEF OneGenesis
    <2>. QED
      BY <2>1, <2>2
  <1>. QED
    BY <1>1, Invariance, PTL

\* A process that serves and consumes has a block 0 in the database: no lifespan reaches its
\* yield before one is stored.
THEOREM UpHasGenesisAlways == Spec => []UpHasGenesis
  <1>1. IInv => UpHasGenesis
    BY DEF IInv
  <1>. QED
    BY <1>1, Invariance, PTL

\* The metadata that ends every later start names a stored block, counts none that is not
\* there, and all those up to the named one when they were stored in order, whatever was
\* stored between its two queries (_sync_metadata_from_existing_chain).
THEOREM MetadataTruthfulAlways == Spec => []MetadataTruthful
  <1>1. IInv => MetadataTruthful
    BY DEF IInv
  <1>. QED
    BY <1>1, Invariance, PTL

\* genesis.created never announces a block that lost the race for height 0.
THEOREM AnnouncedIsStoredAlways == Spec => []AnnouncedIsStored
  <1>1. IInv => AnnouncedIsStored
    BY DEF IInv
  <1>. QED
    BY <1>1, Invariance, PTL
=============================================================================
