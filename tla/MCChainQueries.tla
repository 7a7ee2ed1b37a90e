--------------------------- MODULE MCChainQueries ---------------------------
(***************************************************************************)
(* Instance of ChainQueries for TLC: alice sends t1 and t2 to bob, who got *)
(* an off-chain credit c; f comes from outside, and t2 is posted with a    *)
(* status and a block_index.  The blocks:                                  *)
(*                                                                         *)
(*      height 0    g {}                                                   *)
(*      height 1    a1 {t1, -}                                             *)
(*      height 2    a2 {t2, f}    b2 {f}                                   *)
(*      height 3    a3 {t1, t2}   b3 {}                                    *)
(*      height 4    a4 {t2}                                                *)
(***************************************************************************)
EXTENDS ChainQueries, TLC

CONSTANTS g, a1, a2, b2, a3, b3, a4, t1, t2, c, f, alice, bob, carol, r1

MCIndex == g :> 0 @@ a1 :> 1 @@ a2 :> 2 @@ b2 :> 2 @@ a3 :> 3 @@ b3 :> 3 @@ a4 :> 4
MCTxs ==
    g :> <<>> @@ a1 :> <<t1, NoId>> @@ a2 :> <<t2, f>> @@ b2 :> <<f>>
        @@ a3 :> <<t1, t2>> @@ b3 :> <<>> @@ a4 :> <<t2>>
MCParties ==
    [t \in {t1, t2} |-> {alice, bob}] @@ c :> {bob} @@ f :> {bob, carol}
MCPosted ==
    t1 :> PendingDoc @@ c :> CreditDoc @@ t2 :> [status |-> "PENDING", block_index |-> 1]
=============================================================================
