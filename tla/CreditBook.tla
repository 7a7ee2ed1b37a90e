----------------------------- MODULE CreditBook -----------------------------
(***************************************************************************)
(* What the wallet.credit.issued consumer promises to calculate_balance:   *)
(* the document of an issued credit is written once and stays.             *)
(***************************************************************************)
EXTENDS Integers

CONSTANT CreditId     \* credit_id of the credits the wallet module can issue

VARIABLE credits      \* [CreditId -> Nat]: documents of each credit

Init == credits = [c \in CreditId |-> 0]

Record(c) ==
    /\ credits[c] = 0
    /\ credits' = [credits EXCEPT ![c] = 1]

Next == \E c \in CreditId : Record(c)

Spec == Init /\ [][Next]_credits
=============================================================================
