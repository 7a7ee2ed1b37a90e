----------------------- MODULE MCWalletCreditConsumer -----------------------
\* Instance of WalletCreditConsumer for TLC: two processes and two credits.
EXTENDS WalletCreditConsumer, TLC

CONSTANTS p1, p2, c1, c2
=============================================================================
