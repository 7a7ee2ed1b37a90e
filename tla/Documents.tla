----------------------------- MODULE Documents -----------------------------
(***************************************************************************)
(* The two fields of a document of the transactions collection that change *)
(* over its life: status and block_index (src/src/models/transaction.py).  *)
(* The fields that never change (from, to, amount, type) are constants of  *)
(* the modules that need them.                                             *)
(***************************************************************************)
EXTENDS Integers

NoIndex == -1      \* block_index None

NoDoc == [status |-> "ABSENT", block_index |-> NoIndex]
PendingDoc == [status |-> "PENDING", block_index |-> NoIndex]      \* the model's defaults
ConfirmedDoc(i) == [status |-> "CONFIRMED", block_index |-> i]
CreditDoc == ConfirmedDoc(NoIndex)      \* of an off-chain credit, never mined

\* What POST /transactions may ask to be stored: the model Transaction takes both fields
\* from the body.  A negative block_index is left out, it is a height no block has.
PostedDoc == [status : {"PENDING", "CONFIRMED"}, block_index : Nat \cup {NoIndex}]

Doc == PostedDoc \cup {NoDoc}
=============================================================================
