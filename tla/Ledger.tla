------------------------------- MODULE Ledger -------------------------------
(***************************************************************************)
(* The API process as a whole: the transfer endpoint (TransferService) and *)
(* the block.mined consumer (BlockMinedConsumer) over the collections they *)
(* share, with the off-chain credits as their consumer delivers them       *)
(* (CreditBook, which WalletCreditConsumer implements).                    *)
(*                                                                         *)
(* The lifespan (src/src/api/startup.py) runs the consumers as tasks of    *)
(* the event loop that serves the requests, and the handlers of both call  *)
(* the database synchronously: within one process the steps of a request   *)
(* and those of a message never interleave.  Between processes they do.    *)
(***************************************************************************)
EXTENDS Integers, Sequences, FiniteSets

CONSTANTS
    Proc, TxId, Posted, BlockTxs,
    From, To, Amount, Type, NoTx, CreditId, CreditTo, CreditAmount,
    PendingLimit,
    Block, Genesis, NoBlock, BlockIndex, BlockParent, ForeignId, NoId,
    MaxQueue, MaxCrashes, MaxFailures

VARIABLES
    blocks, transactions, credits,      \* MongoDB
    queue, unacked,                     \* RabbitMQ
    handler, call,                      \* a process: its message, its request
    published, dropped, raced, announced, crashes, failures

Transfers == INSTANCE TransferService
Consumer == INSTANCE BlockMinedConsumer
Credits == INSTANCE CreditBook

\* A request is not yet a document: no block is mined with it, Genesis included.
ASSUME LedgerAssumption ==
    /\ Consumer!BlocksAssumption /\ Consumer!BoundsAssumption
    /\ Consumer!IdsOf(Genesis) \cap TxId = {}
    /\ IsFiniteSet(TxId) /\ NoTx \notin TxId
    /\ PendingLimit \in Nat
    /\ \A t \in TxId : Amount[t] \in Int
    /\ \A b \in Block : \A i \in DOMAIN BlockTxs[b] : Amount[BlockTxs[b][i]] \in Int
    /\ IsFiniteSet(CreditId) /\ \A c \in CreditId : CreditAmount[c] \in Int

messageVars == <<queue, unacked, handler, published, dropped, raced, crashes>>
vars == <<blocks, transactions, credits, queue, unacked, handler, call,
          published, dropped, raced, announced, crashes, failures>>

Init ==
    /\ Consumer!Init
    /\ Credits!Init
    /\ call = [p \in Proc |-> Transfers!NoCall]
    /\ announced = {}

-----------------------------------------------------------------------------
\* Mutant: the database calls are awaited (an executor, an async driver), so a message
\* can be handled between two steps of a request.
LoopSharedWithRequests(p) == TRUE

\* The event loop of p is free to go on with a message.
LoopFreeForMessages(p) == ~Transfers!InCall(p)

\* The event loop of p is free to go on with a request.
LoopFreeForRequests(p) == handler[p].pc # "down" /\ ~Consumer!Busy(p)

ServeRequest(p) ==
    /\ LoopFreeForRequests(p)
    /\ Transfers!TransferStep(p)
    /\ UNCHANGED <<messageVars, failures>>

\* A call of a request to the database or to the broker fails.
FailRequest(p) ==
    /\ failures < MaxFailures
    /\ Transfers!Abandon(p)
    /\ failures' = failures + 1
    /\ UNCHANGED messageVars

HandleMessage(p) ==
    /\ LoopFreeForMessages(p)
    /\ Consumer!ConsumerStep(p) \/ Consumer!Deliver(p)
    /\ UNCHANGED <<credits, call, announced>>

LoseConnection(p) ==
    /\ Consumer!LoseConnection(p)
    /\ UNCHANGED <<credits, call, announced>>

\* The process dies with the message and the request it was working on.
Crash(p) ==
    /\ Consumer!Crash(p)
    /\ call' = [call EXCEPT ![p] = Transfers!NoCall]
    /\ UNCHANGED <<credits, announced>>

Restart(p) ==
    /\ Consumer!Restart(p) \/ Consumer!StartFails(p)
    /\ UNCHANGED <<credits, call, announced>>

Publish(b) ==
    /\ Consumer!Publish(b)
    /\ UNCHANGED <<credits, call, announced>>

\* A credit reaches the collection, at any time: another process may serve the queue of
\* the credits.
RecordCredit(c) ==
    /\ Credits!Record(c)
    /\ UNCHANGED <<blocks, transactions, call, announced, messageVars, failures>>

Next ==
    \/ \E b \in Block : Publish(b)
    \/ \E p \in Proc : ServeRequest(p) \/ FailRequest(p) \/ HandleMessage(p)
    \/ \E p \in Proc : LoseConnection(p) \/ Crash(p) \/ Restart(p)
    \/ \E c \in CreditId : RecordCredit(c)

Spec == Init /\ [][Next]_vars

-----------------------------------------------------------------------------
\* The wallets all of whose requests are of type TRANSFER (the others are not asked for a
\* balance) and that no negative credit takes anything from.
TransferWallets ==
    {w \in {From[t] : t \in TxId} :
        /\ \A t \in TxId : From[t] = w => Type[t] = "TRANSFER"
        /\ \A c \in CreditId : CreditTo[c] = w => CreditAmount[c] >= 0}

\* Those among them whose requests leave the status PENDING, and to whom no request is
\* addressed whose document is already that of a credit.
Wallets ==
    {w \in TransferWallets : \A t \in TxId :
        /\ From[t] = w => Posted[t].status = "PENDING"
        /\ To[t] = w => Posted[t] # Transfers!ConfirmedDoc(Transfers!NoIndex)}

\* The transfers of w that no stored block lists: still to be paid, whatever the
\* status of their documents.
Outstanding(w) ==
    {t \in TxId : /\ From[t] = w
                  /\ transactions[t].status # "ABSENT"
                  /\ \A b \in blocks : t \notin Consumer!IdsOf(b)}

\* What w really owns: what the chain and the credits gave it, less all it has sent.
Holdings(w) ==
    Transfers!BlocksTotal(w) + Transfers!IssuedTotal(w)
        - Transfers!SumFunctionOnSet(Amount, Outstanding(w))

\* The record charges the wallets W for their own transfers only, each of them once, and
\* moves no negative amount: what a mining service gives that takes the transfers of its
\* blocks from the mempool.  It can fail when a branch the service left is mined again in
\* another: the consumer stores a block whose parent it refused.
ChargedOnce(W) ==
    \A b \in blocks : \A i \in DOMAIN BlockTxs[b] :
        LET t == BlockTxs[b][i] IN
        /\ Amount[t] >= 0
        /\ From[t] \in W =>
              /\ t \in TxId
              /\ \A c \in blocks : \A j \in DOMAIN BlockTxs[c] :
                    BlockTxs[c][j] = t => c = b /\ j = i

\* No wallet ever sends more than it owns, as far as the record charges it once for a
\* transfer and requests leave the status to the service: what the checks of
\* create_transfer are for.
NoOverdraft == ChargedOnce(Wallets) => \A w \in Wallets : Holdings(w) >= 0

\* The same whatever status a request asks for ("garantizar que el emisor disponga de saldo
\* suficiente", "previniendo el doble gasto", docs/feature-us-13.2-validar-saldo.md:4).  A
\* transfer stored as CONFIRMED without a block is in no sum of its sender.
TransfersCovered ==
    ChargedOnce(TransferWallets) => \A w \in TransferWallets : Holdings(w) >= 0

\* calculate_balance never promises more than a wallet owns, and is exact once the
\* transactions of every stored block are confirmed: no transfer is in neither of its
\* two terms (the chain and the mempool) while a block is being confirmed.
BalanceSound ==
    \A w \in Wallets :
        /\ Transfers!CalculateBalance(w) <= Holdings(w)
        /\ (\A b \in blocks : Consumer!IdsOf(b) \cap Transfers!PendingOf(w) = {})
               => Transfers!CalculateBalance(w) = Holdings(w)

\* A wallet has at most PendingLimit transfers pending ("10 o mas transacciones
\* simultaneas", docs/feature-us-18-security-limits.md:18).
PendingLimitRespected ==
    \A w \in {From[t] : t \in TxId} : Cardinality(Transfers!PendingOf(w)) <= PendingLimit

\* A transfer leaves the mempool only into a block that is in the record, and what the
\* service has answered and announced is never undone.
NothingUndone ==
    [][\A t \in TxId :
          transactions[t].status # "ABSENT" /\ transactions'[t] # transactions[t] =>
              \E b \in blocks : t \in Consumer!IdsOf(b)
                                /\ transactions'[t].block_index = BlockIndex[b]]_vars
=============================================================================
