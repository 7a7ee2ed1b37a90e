------------------------------ MODULE MCLedger ------------------------------
(***************************************************************************)
(* Instances of Ledger for TLC.  Alice has a credit of 3 and sends t1 (2), *)
(* t2 (2) and t6 (0.00001) to bob, who sends t3 (0.5) back; carol's t4 is  *)
(* not a TRANSFER and t5 (0.001) has too many decimals.  The blocks:       *)
(*                                                                         *)
(*      g  <-  a1 {t1}                                                     *)
(*        <-  b1 {h}  <-  b2 {t1, t3}          h pays alice 2              *)
(*                                                                         *)
(* A record of g, a1 and b2 charges alice twice for t1.                    *)
(***************************************************************************)
EXTENDS Ledger, TLC

CONSTANTS g, a1, b1, b2, t1, t2, t3, t4, t5, t6, h, p1, p2, alice, bob, carol, c1

MCFrom ==
    t1 :> alice @@ t2 :> alice @@ t3 :> bob @@ t4 :> carol @@ t5 :> alice @@ t6 :> alice
        @@ h :> carol
MCTo ==
    t1 :> bob @@ t2 :> bob @@ t3 :> alice @@ t4 :> carol @@ t5 :> bob @@ t6 :> bob @@ h :> alice
MCAmount ==
    LET coin == 10^6 IN
    t1 :> 2 * coin @@ t2 :> 2 * coin @@ t3 :> coin \div 2 @@ t4 :> coin @@ t5 :> 1000 @@ t6 :> 10
        @@ h :> 2 * coin
MCType ==
    [t \in {t1, t2, t3, t5, t6, h} |-> "TRANSFER"] @@ t4 :> "MINING_REWARD"

Docs == INSTANCE Documents

\* The requests as the clients send them: t3 with a height, carol's t4 as a credit to
\* herself.  In PostsWithStatus t2 is a credit of alice to bob.
MCPosted ==
    [t \in {t1, t2, t5, t6} |-> Docs!PendingDoc]
        @@ t3 :> [status |-> "PENDING", block_index |-> 9]
        @@ t4 :> [status |-> "CONFIRMED", block_index |-> Docs!NoIndex]
PostsWithStatus ==
    [t \in TxId |-> IF t = t2 THEN [status |-> "CONFIRMED", block_index |-> Docs!NoIndex]
                              ELSE Docs!PendingDoc]

MCIndex == g :> 0 @@ a1 :> 1 @@ b1 :> 1 @@ b2 :> 2
MCParent == g :> g @@ a1 :> g @@ b1 :> g @@ b2 :> b1
MCTxs == g :> <<>> @@ a1 :> <<t1>> @@ b1 :> <<h>> @@ b2 :> <<t1, t3>>

MCCreditTo == c1 :> alice
MCCreditAmount == c1 :> 3 * 10^6
=============================================================================
