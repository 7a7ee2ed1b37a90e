---------------------------- MODULE Checkpoints ----------------------------
(***************************************************************************)
(* CheckpointService (src/src/services/checkpoint_service.py) over the     *)
(* blocks of ChainStore: generate_checkpoints, one action per database     *)
(* call, run by any number of processes at once, and validate_fast with    *)
(* the search for the first altered block.                                 *)
(***************************************************************************)
EXTENDS ChainStore

CONSTANTS
    Proc,          \* API processes that generate checkpoints
    Frequency      \* frequencies a call may ask for

ASSUME CheckpointAssumption == Frequency \subseteq Nat \ {0}

VARIABLES
    checkpoints,   \* the checkpoints collection
    generator      \* generate_checkpoints of a process: ranges still to visit

vars == <<chain, edits, late, checkpoints, generator>>

Resting == [pc |-> "idle", ranges |-> <<>>]

Init ==
    /\ StoreInit
    /\ checkpoints = {}
    /\ generator = [p \in Proc |-> Resting]

-----------------------------------------------------------------------------
(* utils/merkle_utils.py.                                                  *)

\* The digest of two nodes, free of collisions like that of a block.
Node(left, right) == [left |-> left, right |-> right]

\* Mutant: an odd node is left out of the level above.
NextLevelDropping(nodes) ==
    IF Len(nodes) <= 1 THEN nodes
    ELSE [k \in 1..(Len(nodes) \div 2) |-> Node(nodes[2 * k - 1], nodes[2 * k])]

\* The level above: the nodes in pairs, the last one repeated when their number is odd.
NextLevel(nodes) ==
    IF Len(nodes) <= 1 THEN nodes
    ELSE [k \in 1..((Len(nodes) + 1) \div 2) |->
             Node(nodes[2 * k - 1], nodes[IF 2 * k > Len(nodes) THEN 2 * k - 1 ELSE 2 * k])]

\* The loop ends at a level of one node, before as many passes as there are leaves; no
\* leaves have a root of their own.
ComputeMerkleRoot(hashes) ==
    LET level[n \in 0..Len(hashes)] == IF n = 0 THEN hashes ELSE NextLevel(level[n - 1])
    IN level[Len(hashes)]

-----------------------------------------------------------------------------
(* generate_checkpoints. *)

Hashes(rows) == [k \in DOMAIN rows |-> chain[rows[k]].hash]

\* Mutant: the groups are counted from the newest block.
BuildRangesFromTip(rows, f) ==
    LET group(g) == SubSeq(rows, Len(rows) - g * f + 1, Len(rows) - (g - 1) * f)
        range(s) == [from_block |-> s[1], to_block |-> s[f],
                     hashes |-> Hashes(s), last_hash |-> chain[s[f]].hash]
    IN [g \in 1..(Len(rows) \div f) |-> range(group(g))]

\* The complete groups of f blocks, in the order of the cursor.
BuildRanges(rows, f) ==
    LET group(g) == SubSeq(rows, (g - 1) * f + 1, g * f)
        range(s) == [from_block |-> s[1], to_block |-> s[f],
                     hashes |-> Hashes(s), last_hash |-> chain[s[f]].hash]
    IN [g \in 1..(Len(rows) \div f) |-> range(group(g))]

\* The snapshot of the chain, cut into ranges.
Generate(p, f) ==
    /\ generator[p].pc = "idle"
    /\ Cardinality(Stored) >= f
    /\ generator' = [generator EXCEPT ![p] =
                        [pc |-> "check", ranges |-> BuildRanges(Ascending(Stored), f)]]
    /\ UNCHANGED <<chain, edits, late, checkpoints>>

NextRange(p) ==
    LET rest == Tail(generator[p].ranges) IN
    generator' = [generator EXCEPT ![p] =
                     IF rest = <<>> THEN Resting ELSE [pc |-> "check", ranges |-> rest]]

RangeTaken(r) ==
    \E c \in checkpoints : c.from_block = r.from_block /\ c.to_block = r.to_block

\* find_one of the exact range.
CheckRange(p) ==
    /\ generator[p].pc = "check"
    /\ IF RangeTaken(Head(generator[p].ranges))
       THEN NextRange(p)
       ELSE generator' = [generator EXCEPT ![p].pc = "insert"]
    /\ UNCHANGED <<chain, edits, late, checkpoints>>

\* The document.  Those of one range differ in their _id, of which the model keeps whether
\* there is another.
CheckpointDoc(r) ==
    [from_block |-> r.from_block, to_block |-> r.to_block,
     merkle_root |-> ComputeMerkleRoot(r.hashes), last_block_hash |-> r.last_hash,
     another |-> RangeTaken(r)]

\* Mutant: no unique index on the range.
InsertUnindexed(p) ==
    /\ generator[p].pc = "insert"
    /\ checkpoints' = checkpoints \cup {CheckpointDoc(Head(generator[p].ranges))}
    /\ NextRange(p)
    /\ UNCHANGED <<chain, edits, late>>

\* insert_one; an error, that of the unique index or any other, only skips the range.
InsertCheckpoint(p) ==
    LET r == Head(generator[p].ranges) IN
    /\ generator[p].pc = "insert"
    /\ \/ ~RangeTaken(r) /\ checkpoints' = checkpoints \cup {CheckpointDoc(r)}
       \/ UNCHANGED checkpoints
    /\ NextRange(p)
    /\ UNCHANGED <<chain, edits, late>>

\* Another call raises, or the process dies: what was inserted stays.
Abandon(p) ==
    /\ generator[p].pc # "idle"
    /\ generator' = [generator EXCEPT ![p] = Resting]
    /\ UNCHANGED <<chain, edits, late, checkpoints>>

-----------------------------------------------------------------------------
(* validate_fast and _find_first_corrupted_block: they only read. *)

\* Mutant: the last block of the range is left out ($lt for $lte).
CoveredExclusive(from, to) == Ascending(Stored \cap (from..(to - 1)))

\* The blocks of a range as they are stored now.
Covered(from, to) == Ascending(Stored \cap (from..to))

None == -1

\* The linear scan, the fallback of the bisection.
LinearScan(rows) ==
    LET bad == {k \in DOMAIN rows : ~HashValid(chain[rows[k]])} IN
    IF bad = {} THEN None ELSE rows[CHOOSE k \in bad : \A j \in bad : k <= j]

\* The root of the stored hashes of some blocks is that of their recomputed ones.
Intact(rows) ==
    ComputeMerkleRoot(Hashes(rows)) =
        ComputeMerkleRoot([k \in DOMAIN rows |-> ComputedHash(chain[rows[k]])])

\* Mutant: into the half that is intact.
HalfSwapped(rows) ==
    LET mid == Len(rows) \div 2 IN
    IF Len(rows) <= 1 THEN rows
    ELSE IF Intact(SubSeq(rows, 1, mid))
         THEN SubSeq(rows, 1, mid)
         ELSE SubSeq(rows, mid + 1, Len(rows))

\* One pass of the bisection: on with the left half unless it is intact.
Half(rows) ==
    LET mid == Len(rows) \div 2 IN
    IF Len(rows) <= 1 THEN rows
    ELSE IF Intact(SubSeq(rows, 1, mid))
         THEN SubSeq(rows, mid + 1, Len(rows))
         ELSE SubSeq(rows, 1, mid)

\* The block the bisection ends at, before as many passes as there are blocks.
Candidate(rows) ==
    LET left[n \in 0..Len(rows)] == IF n = 0 THEN rows ELSE Half(left[n - 1])
    IN Head(left[Len(rows)])

FirstCorrupted(rows) ==
    IF rows = <<>> THEN None
    ELSE IF HashValid(chain[Candidate(rows)])
         THEN LinearScan(rows)
         ELSE Candidate(rows)

Mismatch(c) ==
    ComputeMerkleRoot(Hashes(Covered(c.from_block, c.to_block))) # c.merkle_root

\* The answer of GET /chain/validate/fast: the first range that differs is reported.
ValidateFast ==
    LET bad == {c \in checkpoints : Mismatch(c)}
        first == CHOOSE c \in bad : \A d \in bad : c.from_block <= d.from_block
        answer(valid, reason, block) ==
            [valid |-> valid, reason |-> reason, first_corrupted_block |-> block]
    IN IF checkpoints = {} THEN answer(FALSE, "CHECKPOINTS_NOT_FOUND", None)
       ELSE IF bad = {} THEN answer(TRUE, "NONE", None)
       ELSE answer(FALSE, "MERKLE_ROOT_MISMATCH",
                   FirstCorrupted(Covered(first.from_block, first.to_block)))

-----------------------------------------------------------------------------
StoreStep(i) ==
    /\ Store(Original[i]) \/ (\E b \in Stray : b.index = i /\ Store(b)) \/ Edit(i)
    /\ UNCHANGED <<checkpoints, generator>>

Next ==
    \/ \E i \in Height : StoreStep(i)
    \/ \E p \in Proc :
          \/ \E f \in Frequency : Generate(p, f)
          \/ CheckRange(p) \/ InsertCheckpoint(p) \/ Abandon(p)

Spec == Init /\ [][Next]_vars

-----------------------------------------------------------------------------
\* However many processes generate at once, a range has one checkpoint
\* ("se omite (no se sobreescribe, no se genera uno nuevo)", checkpoint_service.py:17).
OneCheckpointPerRange ==
    \A c, d \in checkpoints :
        c.from_block = d.from_block /\ c.to_block = d.to_block => c = d

\* The ranges of one frequency never overlap, whenever and by whomever they were
\* generated, where every height up to them came in its turn: the groups are counted from
\* the first block, so a chain that grows moves none of them.
RangesOfAFrequencyTile ==
    \A c, d \in checkpoints :
        /\ c.to_block - c.from_block = d.to_block - d.from_block
        /\ Steady(c.to_block) /\ Steady(d.to_block)
        => c.from_block = d.from_block \/ c.to_block < d.from_block \/ d.to_block < c.from_block

\* In a chain nobody edited a range is reported as altered only for a block that was stored
\* in it under a higher one.
NoFalseAlarm ==
    edits = 0 =>
        \A c \in checkpoints : Mismatch(c) => late \cap (c.from_block..c.to_block) # {}

\* The checkpoint was made of the blocks the network agreed on.
Genuine(c) ==
    c.merkle_root = ComputeMerkleRoot([k \in 1..(c.to_block - c.from_block + 1) |->
                                          Original[c.from_block + k - 1].hash])

\* When both validations pass, the last block of a genuine checkpoint is stored, and from
\* the first block of the collection up to it each is the one the network agreed on: the
\* root pins the hash at its end, the links the rest.
CheckpointPinsHistory ==
    ValidateChain.chain_valid /\ ValidateFast.valid =>
        \A c \in checkpoints : Genuine(c) => c.to_block \in Stored /\ AgreedUpTo(c.to_block)

\* In the range of a checkpoint the bisection over the hash tree finds the block that a
\* scan finds, however its two halves were edited.
BisectionFindsFirst ==
    \A c \in checkpoints :
        LET rows == Covered(c.from_block, c.to_block) IN FirstCorrupted(rows) = LinearScan(rows)

\* "Un checkpoint resume un rango contiguo de bloques" (checkpoint_service.py:4), "usando
\* los hashes de todos los bloques incluidos en el rango"
\* (docs/CHECKPOINT_HANDOFF.md:26): not when a height was missing.
CoversItsRange == edits = 0 => \A c \in checkpoints : Genuine(c)
=============================================================================
