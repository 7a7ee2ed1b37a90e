---------------------------- MODULE ChainQueries ----------------------------
(***************************************************************************)
(* Clients that read a chain while it grows: pages of GET /chain and the   *)
(* statistics (src/src/services/block_service.py), the detail of a         *)
(* transaction (src/src/services/transaction_service.py) and the history   *)
(* of a wallet (History).                                                  *)
(*                                                                         *)
(* Every answer is made of several database calls and no read has a        *)
(* snapshot.  The handlers other than that of the history keep the event   *)
(* loop of their process; what comes between their calls is the work of    *)
(* another process, and between two pages that of any.  The service that   *)
(* writes is OfficialChain, which BlockMinedConsumer implements: a block   *)
(* may be stored at any free height, above a gap or below the last one.    *)
(***************************************************************************)
EXTENDS History, Integers

CONSTANTS
    Limit,         \* the limit a client gives to GET /chain
    NoTx           \* no transaction asked for

ASSUME LimitAssumption == Limit \in Nat \ {0}

ASSUME RecordAssumption ==
    /\ Genesis \in Block /\ BlockIndex \in [Block -> Nat]
    /\ Posted \in [TxId -> PostedDoc]

VARIABLES
    walk,          \* a client fetching page after page of GET /chain
    stats,         \* get_chain_stats: the step it is at and its local variables
    detail         \* get_transaction_by_id: the same, and what was asked for

queryVars == <<request, walk, stats, detail>>
vars == <<blocks, transactions, queryVars>>

NoWalk == [page |-> 0, heights |-> <<>>, known |-> {}]
NoStats == [reads |-> 0, total_blocks |-> 0, last |-> 0, counted |-> {}]
NoDetail == [pc |-> "idle", tx |-> NoTx, known |-> FALSE, status |-> "ABSENT", block_index |-> NoIndex]

Init ==
    /\ Chain!Init
    /\ HistoryInit
    /\ walk = NoWalk /\ stats = NoStats /\ detail = NoDetail

\* Reads change nothing that another read sees: one client at a time is enough (bound).
Quiet ==
    /\ walk = NoWalk /\ stats = NoStats /\ detail = NoDetail
    /\ \A r \in Thread : request[r] = NoRequest

-----------------------------------------------------------------------------
(* GET /chain. *)

Heights == {BlockIndex[b] : b \in blocks}

\* Mutant: the newest block comes first.
SortedDescending(S) ==
    [k \in 1..Cardinality(S) |-> CHOOSE i \in S : Cardinality({j \in S : j > i}) = k - 1]

\* sort("index", ASCENDING)
Sorted(S) ==
    [k \in 1..Cardinality(S) |-> CHOOSE i \in S : Cardinality({j \in S : j < i}) = k - 1]

AtMost(n, m) == IF n < m THEN n ELSE m

\* The page: skip and limit of the sorted collection.  The total that get_chain counts
\* first does not get past the router.
Page(n) ==
    LET skip == (n - 1) * Limit IN
    SubSeq(Sorted(Heights), skip + 1, AtMost(skip + Limit, Cardinality(Heights)))

\* The client asks for pages until one is not full.
BeginWalk ==
    /\ Quiet
    /\ walk' = [page |-> 1, heights |-> <<>>, known |-> Heights]
    /\ UNCHANGED <<blocks, transactions, request, stats, detail>>

GetChain ==
    LET rows == Page(walk.page) IN
    /\ walk.page > 0
    /\ walk' = [walk EXCEPT !.heights = @ \o rows,
                            !.page = IF Len(rows) = Limit THEN @ + 1 ELSE -1]
    /\ UNCHANGED <<blocks, transactions, request, stats, detail>>

EndWalk ==
    /\ walk.page = -1
    /\ walk' = NoWalk
    /\ UNCHANGED <<blocks, transactions, request, stats, detail>>

-----------------------------------------------------------------------------
(* GET /chain/stats. *)

Highest == CHOOSE i \in Heights : \A j \in Heights : j <= i

\* Mutant: the blocks are summed before they are counted.
SumFirst == <<"sum", "count", "last">>

\* The order of the three queries.
StatsOrder == <<"count", "last", "sum">>

\* One query of get_chain_stats; counted are the blocks whose transactions are summed.
GetChainStats ==
    LET query == StatsOrder[stats.reads + 1] IN
    /\ stats.reads \in 1..2 \/ Quiet
    /\ stats' = [stats EXCEPT
           !.reads = @ + 1,
           !.total_blocks = IF query = "count" THEN Cardinality(blocks) ELSE @,
           !.last = IF query = "last" THEN Highest ELSE @,
           !.counted = IF query = "sum" THEN blocks ELSE @]
    /\ UNCHANGED <<blocks, transactions, request, walk, detail>>

EndStats ==
    /\ stats.reads = 3
    /\ stats' = NoStats
    /\ UNCHANGED <<blocks, transactions, request, walk, detail>>

-----------------------------------------------------------------------------
(* GET /transactions/{transaction_id}. *)

Exists(t) ==
    \/ t \in TxId /\ transactions[t].status # "ABSENT"
    \/ \E b \in blocks : t \in Chain!IdsOf(b)

AskDetail(t) ==
    /\ Quiet
    /\ detail' = [NoDetail EXCEPT !.pc = "collection", !.tx = t, !.known = Exists(t)]
    /\ UNCHANGED <<blocks, transactions, request, walk, stats>>

\* Mutant: what the collection does not have is not found.
FindInCollectionOnly ==
    LET t == detail.tx IN
    /\ detail.pc = "collection"
    /\ detail' = [detail EXCEPT
           !.pc = "done",
           !.status = IF t \in TxId THEN transactions[t].status ELSE "ABSENT",
           !.block_index = IF t \in TxId THEN transactions[t].block_index ELSE NoIndex]
    /\ UNCHANGED <<blocks, transactions, request, walk, stats>>

\* The document of the transactions collection, else on to the blocks.
FindInCollection ==
    LET t == detail.tx IN
    /\ detail.pc = "collection"
    /\ IF t \in TxId /\ transactions[t].status # "ABSENT"
       THEN detail' = [detail EXCEPT !.pc = "done", !.status = transactions[t].status,
                                     !.block_index = transactions[t].block_index]
       ELSE detail' = [detail EXCEPT !.pc = "blocks"]
    /\ UNCHANGED <<blocks, transactions, request, walk, stats>>

\* The first stored block that lists it, in no particular order; a 404 without one.
FindInBlocks ==
    LET holders == {b \in blocks : detail.tx \in Chain!IdsOf(b)} IN
    /\ detail.pc = "blocks"
    /\ \/ /\ holders = {}
          /\ detail' = [detail EXCEPT !.pc = "done"]
       \/ \E b \in holders :
             detail' = [detail EXCEPT !.pc = "done", !.status = "CONFIRMED",
                                      !.block_index = BlockIndex[b]]
    /\ UNCHANGED <<blocks, transactions, request, walk, stats>>

EndDetail ==
    /\ detail.pc = "done"
    /\ detail' = NoDetail
    /\ UNCHANGED <<blocks, transactions, request, walk, stats>>

-----------------------------------------------------------------------------
HistoryStep ==
    /\ \E r \in Thread :
          \/ Quiet /\ \E w \in Wallet : Begin(r, w)
          \/ Read(r) \/ Respond(r)
    /\ UNCHANGED <<walk, stats, detail>>

ServiceStep == Chain!Next /\ UNCHANGED queryVars

Next ==
    \/ ServiceStep
    \/ HistoryStep
    \/ BeginWalk \/ GetChain \/ EndWalk
    \/ GetChainStats \/ EndStats
    \/ \E t \in DOMAIN Parties : AskDetail(t)
    \/ FindInCollection \/ FindInBlocks \/ EndDetail

Spec == Init /\ [][Next]_vars

-----------------------------------------------------------------------------
\* A client that puts the pages together has every block there was when it began, although
\* each page is cut anew out of a collection that has grown since the page before, in any
\* place.  And a height that comes twice, or after a higher one, betrays a block that was
\* stored below those already fetched and that the client has not got.
WalkComplete ==
    LET fetched == {walk.heights[k] : k \in DOMAIN walk.heights} IN
    /\ walk.page = -1 => walk.known \subseteq fetched
    /\ \/ \A k, l \in DOMAIN walk.heights : k < l => walk.heights[k] < walk.heights[l]
       \/ \E i \in Heights \ fetched : \E j \in fetched : i < j

\* The figures of one answer come from three moments, and in the order of the code a later
\* one never knows less: no more blocks than heights up to the block whose time is given,
\* nor than have their transactions in the totals, and that block is one of these.
StatsOrdered ==
    stats.reads = 3 =>
        /\ stats.total_blocks <= stats.last + 1
        /\ stats.total_blocks <= Cardinality(stats.counted)
        /\ \E b \in stats.counted : BlockIndex[b] = stats.last

\* A transaction that existed when its detail was asked for is found, in one collection
\* or the other, and what is answered is as it was posted (a credit: CONFIRMED without a
\* height), or CONFIRMED at a height whose block lists it: a client can follow it to
\* GET /block/{index}.
DetailResolves ==
    detail.pc = "done" =>
        /\ detail.known => detail.status # "ABSENT"
        /\ \/ detail.status = "ABSENT"
           \/ /\ detail.tx \in TxId
              /\ detail.status = Posted[detail.tx].status
              /\ detail.block_index = Posted[detail.tx].block_index
           \/ /\ detail.status = "CONFIRMED"
              /\ \E b \in blocks : /\ BlockIndex[b] = detail.block_index
                                   /\ detail.tx \in Chain!IdsOf(b)
=============================================================================
