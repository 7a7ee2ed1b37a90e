------------------------- MODULE MCValidatedMining -------------------------
(***************************************************************************)
(* Instance of ValidatedMining for TLC:                                    *)
(*                                                                         *)
(*      g  <-  a1 {t1}  <-  a2          s2 has height 2 on g,              *)
(*        <-  b1, s2, u1                u1 a hash that is not its own      *)
(***************************************************************************)
EXTENDS ValidatedMining, TLC

CONSTANTS g, a1, a2, b1, s2, u1, t1, p1, p2

Tree == {g, a1, a2, b1, s2, u1}
TreeIndex == g :> 0 @@ a1 :> 1 @@ b1 :> 1 @@ u1 :> 1 @@ a2 :> 2 @@ s2 :> 2
TreeParent == [b \in {g, a1, b1, s2, u1} |-> g] @@ a2 :> a1
Docs == INSTANCE Documents
PlainPosts == [t \in TxId |-> Docs!PendingDoc]
TreeTxs == a1 :> <<t1>> @@ [b \in Tree \ {a1} |-> <<>>]

Replicas == Permutations({p1, p2})
=============================================================================
