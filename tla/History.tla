------------------------------ MODULE History ------------------------------
(***************************************************************************)
(* get_wallet_history (src/src/services/history_service.py): the movements *)
(* of a wallet out of two queries, the documents with block_index None     *)
(* first and the stored blocks after.  Unlike the other endpoints, that of *)
(* the history is a plain def, so it runs in a thread of the pool while    *)
(* the event loop goes on confirming blocks between the two queries.       *)
(*                                                                         *)
(* The collection of transactions has the transfers, with the fields their *)
(* requests had, and the off-chain credits (CreditDoc), which the consumer *)
(* of wallet.credit.issued inserts like a request does.                    *)
(*                                                                         *)
(* The module has the requests only; ChainQueries composes them with the   *)
(* rest of the service.  Rows are kept as a set: their order, the page and *)
(* the SEND or RECEIVE label are left out.                                 *)
(***************************************************************************)
EXTENDS Documents, Sequences, FiniteSets

CONSTANTS
    Block, Genesis, BlockIndex, BlockTxs, NoId,
    TxId,          \* documents of the transactions collection: transfers and credits
    Posted,        \* [TxId -> PostedDoc]: the two fields they are inserted with
    Thread,        \* threads that serve a history request
    Wallet,        \* wallets whose history is asked for
    Parties        \* [id -> set of wallets]: from and to of a transaction; none when its
                   \* entry has from_address and to_address, which only the balance reads

VARIABLES
    blocks,        \* the blocks collection
    transactions,  \* the transactions collection, by _id
    request        \* the request a thread serves: rows so far, what it had to find

Chain == INSTANCE OfficialChain WITH chain <- blocks, mempool <- transactions

NoRequest == [reads |-> 0, wallet |-> {}, rows |-> {}, known |-> {}]

HistoryInit ==
    request = [r \in Thread |-> NoRequest]

\* Mutant: the blocks are read before the mempool.
BlocksFirst == <<"blocks", "mempool">>

\* The queries, in the order of the code.
ReadOrder == <<"mempool", "blocks">>

Row(t, status, i) == [tx |-> t, status |-> status, block_index |-> i]

\* The documents of w with block_index None.
MempoolRows(w) ==
    {Row(t, transactions[t].status, NoIndex) :
        t \in {u \in TxId : /\ w \in Parties[u]
                            /\ transactions[u].status # "ABSENT"
                            /\ transactions[u].block_index = NoIndex}}

\* The entries of w in the stored blocks.
BlockRows(w) ==
    UNION {{Row(t, "CONFIRMED", BlockIndex[b]) :
                t \in {u \in Chain!IdsOf(b) : w \in Parties[u]}} : b \in blocks}

\* What both queries would find at once: every movement of w but a transfer posted with a
\* block_index that no stored block lists.
Known(w) == {row.tx : row \in MempoolRows(w) \cup BlockRows(w)}

-----------------------------------------------------------------------------
Begin(r, w) ==
    /\ request[r] = NoRequest
    /\ request' = [request EXCEPT ![r] =
                      [reads |-> 0, wallet |-> {w}, rows |-> {}, known |-> Known(w)]]
    /\ UNCHANGED <<blocks, transactions>>

Read(r) ==
    LET q == request[r]
        source == ReadOrder[q.reads + 1]
    IN
    /\ q.wallet # {} /\ q.reads < 2
    /\ \E w \in q.wallet :
          request' = [request EXCEPT
              ![r].rows = @ \cup (IF source = "mempool" THEN MempoolRows(w) ELSE BlockRows(w)),
              ![r].reads = @ + 1]
    /\ UNCHANGED <<blocks, transactions>>

Respond(r) ==
    /\ request[r].reads = 2
    /\ request' = [request EXCEPT ![r] = NoRequest]
    /\ UNCHANGED <<blocks, transactions>>

-----------------------------------------------------------------------------
Answered(r) == request[r].reads = 2

\* No movement that the two queries would have found together when the request came is
\* missing from the answer, although a confirmation takes a transaction out of the first
\* one, and only its block puts it into the second.
HistoryComplete ==
    \A r \in Thread : Answered(r) => request[r].known \subseteq {row.tx : row \in request[r].rows}
=============================================================================
