---------------------------- MODULE LinkedChain ----------------------------
(***************************************************************************)
(* The record of the chain when the mining service has every block         *)
(* validated before it publishes it: an OfficialChain that only ever grows *)
(* on a recorded block, one height above it.                               *)
(***************************************************************************)
EXTENDS Documents, Sequences

CONSTANTS Block, Genesis, BlockIndex, BlockParent, BlockTxs, TxId, NoId, Posted

VARIABLES chain, mempool

Official == INSTANCE OfficialChain

vars == <<chain, mempool>>

Init == Official!Init

\* The block goes on top of a recorded one; heights are unique, so on top of the last.
Extend(b) ==
    /\ BlockParent[b] \in chain
    /\ BlockIndex[b] = BlockIndex[BlockParent[b]] + 1
    /\ Official!Record(b)

Next ==
    \/ \E t \in TxId : Official!Submit(t) \/ \E b \in Block : Official!Confirm(b, t)
    \/ \E b \in Block : Extend(b)

Spec == Init /\ [][Next]_vars
=============================================================================
