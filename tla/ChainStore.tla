----------------------------- MODULE ChainStore -----------------------------
(***************************************************************************)
(* The content of the blocks collection and the full validation of it,     *)
(* BlockValidationService.validate_chain_integrity                         *)
(* (src/src/services/block_validation_service.py): every hash against the  *)
(* content it is recomputed from, every previous_hash against the hash     *)
(* stored before it.                                                       *)
(*                                                                         *)
(* SHA-256 is taken as free of collisions: the digest of a content is the  *)
(* content itself, a record of what it hashes.  Besides the consumer that  *)
(* stores blocks, the collection changes when somebody edits a document by *)
(* hand, which is what the validation is there to notice                   *)
(* (docs/CHAIN_INTEGRITY_HANDOFF.md, cases 2 and 3).                       *)
(***************************************************************************)
EXTENDS Integers, Sequences, FiniteSets

CONSTANTS
    MaxHeight,     \* bound: height of the chain
    Stray,         \* the blocks M3 publishes that the network did not agree on: forks
    MaxEdits,      \* bound: edits of a stored document
    ZeroHash,      \* GENESIS_PREVIOUS_HASH
    Garbage        \* a hash of nothing in the chain

Block(index, payload, previous, hash) ==
    [index |-> index, payload |-> payload, previous_hash |-> previous, hash |-> hash]

ASSUME StoreAssumption ==
    /\ MaxHeight \in Nat /\ MaxEdits \in Nat
    /\ \A b \in Stray :
          b.index \in 0..MaxHeight /\ b = Block(b.index, b.payload, b.previous_hash, b.hash)

VARIABLES
    chain,         \* [the heights stored -> block]: the documents, by index
    edits,         \* edits so far
    late           \* history: the heights stored under a higher one, or renumbered

Height == 0..MaxHeight
Edited == -1       \* a payload that is no block's

\* calculate_concatenated_block_hash, _calculate_block_hash_from_dict.
Digest(index, payload, previous) ==
    [index |-> index, payload |-> payload, previous |-> previous]

\* The block the network agreed on at a height.
Original[i \in Height] ==
    LET previous == IF i = 0 THEN ZeroHash ELSE Original[i - 1].hash IN
    Block(i, i, previous, Digest(i, i, previous))

ComputedHash(b) == Digest(b.index, b.payload, b.previous_hash)

Stored == DOMAIN chain

\* A cursor sorted by index: the heights in a set, ascending.
Ascending(S) ==
    [k \in 1..Cardinality(S) |-> CHOOSE i \in S : Cardinality({j \in S : j < i}) = k - 1]

\* The API serves once it has found block 0 stored (Genesis).
StoreInit ==
    /\ chain = [i \in {0} |-> Original[0]]
    /\ edits = 0
    /\ late = {}

\* The consumer stores a block of a height that is free, whatever came before it: a message
\* may have been rejected and published again, another process may be ahead, and neither
\* the parent of a block nor its hash is looked at.
Store(b) ==
    /\ b.index \notin Stored
    /\ chain' = [i \in Stored \cup {b.index} |-> IF i = b.index THEN b ELSE chain[i]]
    /\ late' = IF \E i \in Stored : i > b.index THEN late \cup {b.index} ELSE late
    /\ UNCHANGED edits

\* A field of a document is edited: the content, the link, the hash (to another value,
\* or to that of the document as it now is).
Change(i) ==
    /\ \E b \in {[chain[i] EXCEPT !.payload = Edited],
                 [chain[i] EXCEPT !.previous_hash = Garbage],
                 [chain[i] EXCEPT !.hash = Garbage],
                 [chain[i] EXCEPT !.hash = ComputedHash(chain[i])]}
                \cup {[chain[i] EXCEPT !.previous_hash = chain[j].hash] : j \in Stored} :
          /\ b # chain[i]
          /\ chain' = [chain EXCEPT ![i] = b]
    /\ UNCHANGED late

\* Its index is edited, to a free one: it takes another place in the cursors.
Renumber(i) ==
    \E j \in Height \ Stored :
        /\ chain' = [k \in (Stored \ {i}) \cup {j} |->
                        IF k = j THEN [chain[i] EXCEPT !.index = j] ELSE chain[k]]
        /\ late' = late \cup {i, j}

Edit(i) ==
    /\ edits < MaxEdits
    /\ i \in Stored
    /\ Change(i) \/ Renumber(i)
    /\ edits' = edits + 1

-----------------------------------------------------------------------------
(* validate_chain_integrity. *)

HashValid(b) == b.hash = ComputedHash(b)

\* Mutant: only the hashes are recomputed.
LinkUnchecked(rows, k) == TRUE

\* The link is checked against the document that comes before it in the cursor.
LinkValid(rows, k) ==
    k = 1 \/ chain[rows[k]].previous_hash = chain[rows[k - 1]].hash

ValidateChain ==
    LET rows == Ascending(Stored)
        bad == {k \in DOMAIN rows : ~HashValid(chain[rows[k]]) \/ ~LinkValid(rows, k)}
    IN [chain_valid |-> bad = {},
        errors |-> {rows[k] : k \in bad}]

-----------------------------------------------------------------------------
\* Every height up to i is stored, and each came in its turn.
Steady(i) == \A j \in 0..i : j \in Stored /\ j \notin late

\* From the first block of the collection up to a height, no block is missing and each is
\* the one the network agreed on.
AgreedUpTo(i) ==
    \A k \in 0..i : (\E j \in Stored : j <= k) => k \in Stored /\ chain[k] = Original[k]

\* The full validation commits to every hash: when it passes, a block that has the hash the
\* network agreed on vouches for all those before it, those that are not there included.
ChainCommits ==
    ValidateChain.chain_valid =>
        \A i \in Stored : chain[i].hash = Original[i].hash => AgreedUpTo(i)
=============================================================================
