------------------------ MODULE MCBlockMinedConsumer ------------------------
(***************************************************************************)
(* Instances of BlockMinedConsumer for TLC.  The tree of blocks:           *)
(*                                                                         *)
(*      g  <-  a1 {t1, -, t2}  <-  a2 {f, t3}                              *)
(*        <-  b1 {t1, t1}      <-  b2 {t2}                                 *)
(*                                                                         *)
(* a1 holds an entry without id between two transactions, a2 one this node *)
(* has no document of, b1 lists one twice, and the two branches share      *)
(* transactions.  MixedPosts: the request of t2 asks for a confirmed       *)
(* document, that of t1 for a pending one with a height.                   *)
(***************************************************************************)
EXTENDS BlockMinedConsumer, TLC

CONSTANTS g, a1, a2, b1, b2, t1, t2, t3, f, p1, p2

Tree == {g, a1, a2, b1, b2}
TreeIndex == g :> 0 @@ a1 :> 1 @@ b1 :> 1 @@ a2 :> 2 @@ b2 :> 2
TreeParent == g :> g @@ a1 :> g @@ b1 :> g @@ a2 :> a1 @@ b2 :> b1
TreeTxs ==
    g :> <<NoId>> @@ a1 :> <<t1, NoId, t2>> @@ b1 :> <<t1, t1>> @@ a2 :> <<f, t3>> @@ b2 :> <<t2>>

\* The tree without the second block of the lower branch.
Bush == Tree \ {b2}
Within(S, fn) == [b \in S |-> fn[b]]
BushIndex == Within(Bush, TreeIndex)
BushParent == Within(Bush, TreeParent)
BushTxs == Within(Bush, TreeTxs)

PlainPosts == [t \in TxId |-> PendingDoc]
MixedPosts ==
    t1 :> [status |-> "PENDING", block_index |-> 7]
        @@ t2 :> [status |-> "CONFIRMED", block_index |-> NoIndex]

\* The processes are interchangeable; the runs that use it check no liveness.
Replicas == Permutations({p1, p2})
=============================================================================
