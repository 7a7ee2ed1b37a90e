--------------------------- MODULE OfficialChain ---------------------------
(***************************************************************************)
(* What the block.mined consumer promises to the rest of the service: the  *)
(* official record of the chain.  Blocks are only ever added, one per      *)
(* height; a local transaction is as it was posted until a block of the    *)
(* record that contains it confirms it, and it never goes back.            *)
(*                                                                         *)
(* A block stands for its hash: BlockIndex and BlockTxs give the height    *)
(* and the transaction entries of the block that has this hash.            *)
(***************************************************************************)
EXTENDS Documents, Sequences

CONSTANTS
    Block,         \* hashes of the blocks that can ever be mined
    Genesis,       \* the hash of block 0
    BlockIndex,    \* height of a block
    BlockTxs,      \* entries of the "transactions" list of a block
    TxId,          \* ids of the local transaction documents
    NoId,          \* an entry of a block that carries no id at all
    Posted         \* [TxId -> PostedDoc]: status and block_index of each request

VARIABLES
    chain,         \* the recorded blocks
    mempool        \* the local transaction documents

\* The ids a block lists, those of transactions unknown to this node included.
IdsOf(b) == {BlockTxs[b][i] : i \in DOMAIN BlockTxs[b]} \ {NoId}

vars == <<chain, mempool>>

Init ==
    /\ chain = {Genesis}
    /\ mempool = [t \in TxId |-> NoDoc]

\* A new transfer is stored with the fields its request has.
Submit(t) ==
    /\ mempool[t] = NoDoc
    /\ mempool' = [mempool EXCEPT ![t] = Posted[t]]
    /\ UNCHANGED chain

\* A block is recorded at a height that is still free.
Record(b) ==
    /\ \A c \in chain : BlockIndex[c] # BlockIndex[b]
    /\ chain' = chain \cup {b}
    /\ UNCHANGED mempool

\* A transaction of a recorded block becomes (or is again) confirmed at its height.
Confirm(b, t) ==
    /\ b \in chain
    /\ t \in IdsOf(b)
    /\ mempool[t] # NoDoc
    /\ mempool' = [mempool EXCEPT ![t] = ConfirmedDoc(BlockIndex[b])]
    /\ UNCHANGED chain

Next ==
    \/ \E t \in TxId : Submit(t) \/ \E b \in Block : Confirm(b, t)
    \/ \E b \in Block : Record(b)

Spec == Init /\ [][Next]_vars
=============================================================================
