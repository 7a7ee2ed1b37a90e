---------------------------- MODULE MCPublisher ----------------------------
\* Instance of Publisher for TLC: three events, a few outages.
EXTENDS Publisher, TLC

CONSTANTS e1, e2, e3
=============================================================================
