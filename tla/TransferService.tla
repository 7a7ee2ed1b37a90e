--------------------------- MODULE TransferService ---------------------------
(***************************************************************************)
(* TransactionService.create_transfer and calculate_balance                *)
(* (src/src/services/transaction_service.py), one action per database or   *)
(* remote call.  A request is the id its document would get; an API        *)
(* process works on one request at a time, because the handler of          *)
(* POST /transactions never yields to the event loop.                      *)
(*                                                                         *)
(* blocks and transactions are the two collections the service shares with *)
(* the consumers of the same process and with every other process.         *)
(***************************************************************************)
EXTENDS Documents, Integers, Sequences, FiniteSets, Functions

CONSTANTS
    Proc,          \* API processes
    TxId,          \* transfer requests, each the id of the document it inserts
    From, To,      \* wallets of a transaction (of a request or of a block's entry)
    Amount,        \* its amount, in millionths of a coin
    Type,          \* its type; only "TRANSFER" is checked against the balance
    Posted,        \* [TxId -> PostedDoc]: status and block_index in the body of a request
    BlockTxs,      \* [Block -> Seq]: transactions of a block
    NoTx,          \* no request
    CreditId,      \* off-chain credits
    CreditTo,      \* [CreditId -> wallet] of an off-chain credit
    CreditAmount,  \* [CreditId -> amount]
    PendingLimit   \* 10 in the code

VARIABLES
    blocks,        \* the blocks collection
    transactions,  \* the transfers in the transactions collection, by _id
    credits,       \* documents of each off-chain credit in it, by credit_id
    call,          \* the request a process works on, with its local variables
    announced      \* transaction.created events that reached the broker (history)

transferVars == <<call, announced>>

NoCall == [pc |-> "idle", tx |-> NoTx, balance |-> 0]
Step(pc, t, balance) == [pc |-> pc, tx |-> t, balance |-> balance]

InCall(p) == call[p].pc # "idle"

-----------------------------------------------------------------------------
(* calculate_balance: the three sums, over the collections as they are now. *)

\* What a stored block moves to and from wallet w: the amounts of the entries of b, by
\* their place in its list.
EntryAmounts(b) == [i \in DOMAIN BlockTxs[b] |-> Amount[BlockTxs[b][i]]]
ReceivedIn(b, w) == {i \in DOMAIN BlockTxs[b] : To[BlockTxs[b][i]] = w}
SentIn(b, w) == {i \in DOMAIN BlockTxs[b] : From[BlockTxs[b][i]] = w}

BlockMovement(b, w) ==
    SumFunctionOnSet(EntryAmounts(b), ReceivedIn(b, w))
        - SumFunctionOnSet(EntryAmounts(b), SentIn(b, w))

BlocksTotal(w) == SumFunctionOnSet([b \in blocks |-> BlockMovement(b, w)], blocks)

\* The documents CONFIRMED with block_index None and addressed to w: the credits that were
\* issued to it, and the transfers to it that were posted like that.
IssuedTotal(w) ==
    SumFunctionOnSet([c \in CreditId |-> credits[c] * CreditAmount[c]],
                     {c \in CreditId : CreditTo[c] = w})

PostedAsCredit(w) == {t \in TxId : To[t] = w /\ transactions[t] = ConfirmedDoc(NoIndex)}

CreditsTotal(w) == IssuedTotal(w) + SumFunctionOnSet(Amount, PostedAsCredit(w))

\* Mutant: the pending amounts are those w is to receive.
IncomingPending(w) ==
    {t \in TxId : To[t] = w /\ transactions[t].status = "PENDING"}

\* The PENDING documents w has sent.
PendingOf(w) ==
    {t \in TxId : From[t] = w /\ transactions[t].status = "PENDING"}

PendingTotal(w) == SumFunctionOnSet(Amount, PendingOf(w))

CalculateBalance(w) == BlocksTotal(w) + CreditsTotal(w) - PendingTotal(w)

-----------------------------------------------------------------------------
(* create_transfer.                                                        *)

Goto(p, pc, balance) == call' = [call EXCEPT ![p] = Step(pc, call[p].tx, balance)]
\* A ValueError (400) or the 201 response: the process is free again.
Respond(p) == call' = [call EXCEPT ![p] = NoCall]

\* A new request: its document does not exist and no process works on it.
Receive(p, t) ==
    /\ ~InCall(p)
    /\ transactions[t] = NoDoc
    /\ \A q \in Proc : call[q].tx # t
    /\ call' = [call EXCEPT ![p] = Step("amount", t, 0)]
    /\ UNCHANGED <<blocks, transactions, credits, announced>>

Coin == 10^6

\* Characters str(amount) has after its point.  A float under 10^-4 is printed with an
\* exponent: 1e-05 without any point, 1.5e-05 with "5e-05" after it.
DecimalsPrinted(a) ==
    IF a < Coin \div 10^4
    THEN IF a < 10 \/ a % 10 = 0 THEN 0 ELSE 5
    ELSE CHOOSE d \in 1..6 :
            a % 10^(6 - d) = 0 /\ \A c \in 1..(d - 1) : a % 10^(6 - c) # 0

CheckAmount(p) ==
    LET t == call[p].tx IN
    /\ call[p].pc = "amount"
    /\ IF Amount[t] <= 0 \/ DecimalsPrinted(Amount[t]) > 2
       THEN Respond(p)
       ELSE Goto(p, "wallets", 0)
    /\ UNCHANGED <<blocks, transactions, credits, announced>>

\* check_wallet_exist of both addresses, a remote call that answers False on any error.
CheckWallets(p) ==
    /\ call[p].pc = "wallets"
    /\ Respond(p) \/ Goto(p, "count", 0)
    /\ UNCHANGED <<blocks, transactions, credits, announced>>

\* Mutant: the limit is tested with > for >=.
CountPendingOffByOne(p) ==
    LET t == call[p].tx IN
    /\ call[p].pc = "count"
    /\ IF Cardinality(PendingOf(From[t])) > PendingLimit
       THEN Respond(p)
       ELSE Goto(p, IF Type[t] = "TRANSFER" THEN "blocks" ELSE "insert", 0)
    /\ UNCHANGED <<blocks, transactions, credits, announced>>

CountPending(p) ==
    LET t == call[p].tx IN
    /\ call[p].pc = "count"
    /\ IF Cardinality(PendingOf(From[t])) >= PendingLimit
       THEN Respond(p)
       ELSE Goto(p, IF Type[t] = "TRANSFER" THEN "blocks" ELSE "insert", 0)
    /\ UNCHANGED <<blocks, transactions, credits, announced>>

\* The three reads of calculate_balance, one query each.
ReadBlocks(p) ==
    /\ call[p].pc = "blocks"
    /\ Goto(p, "credits", BlocksTotal(From[call[p].tx]))
    /\ UNCHANGED <<blocks, transactions, credits, announced>>

ReadCredits(p) ==
    /\ call[p].pc = "credits"
    /\ Goto(p, "pending", call[p].balance + CreditsTotal(From[call[p].tx]))
    /\ UNCHANGED <<blocks, transactions, credits, announced>>

\* The last read, and the comparison with the amount.
ReadPending(p) ==
    LET t == call[p].tx IN
    /\ call[p].pc = "pending"
    /\ IF call[p].balance - PendingTotal(From[t]) < Amount[t]
       THEN Respond(p)
       ELSE Goto(p, "insert", 0)
    /\ UNCHANGED <<blocks, transactions, credits, announced>>

\* Transaction(**transaction_data) is stored, status and block_index as the body has them.
Insert(p) ==
    /\ call[p].pc = "insert"
    /\ transactions' = [transactions EXCEPT ![call[p].tx] = Posted[call[p].tx]]
    /\ Goto(p, "publish", 0)
    /\ UNCHANGED <<blocks, credits, announced>>

\* publish_transaction, and the 201.
Announce(p) ==
    /\ call[p].pc = "publish"
    /\ announced' = announced \cup {call[p].tx}
    /\ Respond(p)
    /\ UNCHANGED <<blocks, transactions, credits>>

\* The database raises (a 500), or the broker does not get the event, which is logged and
\* forgotten (a 201 all the same): the request ends where it is.
Abandon(p) ==
    /\ InCall(p)
    /\ Respond(p)
    /\ UNCHANGED <<blocks, transactions, credits, announced>>

TransferStep(p) ==
    \/ \E t \in TxId : Receive(p, t)
    \/ CheckAmount(p) \/ CheckWallets(p) \/ CountPending(p)
    \/ ReadBlocks(p) \/ ReadCredits(p) \/ ReadPending(p)
    \/ Insert(p) \/ Announce(p)
=============================================================================
