----------------------------- MODULE MCGenesis -----------------------------
\* Instance of Genesis for TLC: three processes that may die twice in all.
EXTENDS Genesis, TLC

CONSTANTS p1, p2, p3, h1, h2, h3, h4, h5, m1, m2, fork

MCGenesisHash == 1 :> h1 @@ 2 :> h2 @@ 3 :> h3 @@ 4 :> h4 @@ 5 :> h5
MCMinedIndex == m1 :> 1 @@ m2 :> 2 @@ fork :> 2
=============================================================================
