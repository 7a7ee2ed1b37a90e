------------------------- MODULE ChainQueriesProofs -------------------------
(***************************************************************************)
(* Proofs about ChainQueries, for every record the consumer can write (the *)
(* blocks of one chain or of several, at any free height), any limit of a  *)
(* page and any number of threads: what a client puts together from        *)
(* several reads is right although the collections grow between them.      *)
(*                                                                         *)
(* A height is never given up (Grown) and a document only moves on         *)
(* (DocsListed); for every client the invariant says what it holds already *)
(* and what the reads to come must still find.                             *)
(***************************************************************************)
EXTENDS ChainQueries, FiniteSetTheorems, SequenceTheorems, TLAPS

\* A stored block lists the transaction.
Listed(t) == \E b \in blocks : t \in Chain!IdsOf(b)

\* One of the two queries of the history finds the transaction.
Findable(t) ==
    \/ Listed(t)
    \/ /\ t \in TxId
       /\ transactions[t].status # "ABSENT" /\ transactions[t].block_index = NoIndex

\* The recorded blocks have one height each.
Grown ==
    /\ blocks \subseteq Block /\ IsFiniteSet(blocks) /\ blocks # {}
    /\ \A a, b \in blocks : BlockIndex[a] = BlockIndex[b] => a = b

\* A document is absent, or as it was posted, or confirmed by a stored block that lists it.
DocsListed ==
    /\ transactions \in [TxId -> Doc]
    /\ \A t \in TxId :
          \/ transactions[t] = NoDoc
          \/ transactions[t] = Posted[t]
          \/ \E b \in blocks : /\ t \in Chain!IdsOf(b)
                               /\ transactions[t] = ConfirmedDoc(BlockIndex[b])

ServiceInv == Grown /\ DocsListed

\* What the history has still to find is there to be found.
HistoryInv ==
    /\ request = [r \in Thread |-> request[r]]
    /\ \A r \in Thread :
          LET q == request[r]
              found == {row.tx : row \in q.rows}
          IN
          /\ q = [reads |-> q.reads, wallet |-> q.wallet, rows |-> q.rows, known |-> q.known]
          /\ q.reads \in 0..2
          /\ q.reads = 0 => \A t \in q.known : Findable(t)
          /\ q.reads = 1 => \A t \in q.known : t \in found \/ Listed(t)
          /\ q.reads = 2 => q.known \subseteq found
          /\ \A w \in q.wallet : \A t \in q.known : w \in Parties[t]

\* How many heights of S are below i: the place of i in a cursor, counted from 0.
Rank(S, i) == Cardinality({j \in S : j < i})

Ascends(s) == \A k, l \in 1..Len(s) : k < l => s[k] < s[l]
Fetched(s) == {s[k] : k \in 1..Len(s)}

\* A height of S is below one of s, and not in it.
Missing(S, s) == \E i \in S \ Fetched(s) : \E j \in Fetched(s) : i < j

\* The pages so far are whole pages while the client goes on, and what it has still to
\* fetch is in its next page or after it.
WalkInv ==
    /\ walk = [page |-> walk.page, heights |-> walk.heights, known |-> walk.known]
    /\ walk.page \in Nat \cup {-1}
    /\ walk.heights \in Seq(Nat)
    /\ Fetched(walk.heights) \subseteq Heights
    /\ walk.page > 0 =>
          /\ Len(walk.heights) = (walk.page - 1) * Limit
          /\ \A h \in walk.known :
                /\ h \in Heights
                /\ h \in Fetched(walk.heights) \/ Rank(Heights, h) >= Len(walk.heights)
    /\ walk.page = -1 => walk.known \subseteq Fetched(walk.heights)
    /\ Ascends(walk.heights) \/ Missing(Heights, walk.heights)

\* Each figure is bounded by what the next query can only find more of.
StatsInv ==
    /\ stats = [reads |-> stats.reads, total_blocks |-> stats.total_blocks,
                last |-> stats.last, counted |-> stats.counted]
    /\ stats.reads \in 0..3
    /\ stats.total_blocks \in Nat
    /\ stats.last \in Nat
    /\ stats.reads \in 1..2 => stats.total_blocks <= Cardinality(blocks)
    /\ stats.reads = 1 => \E i \in Heights : stats.total_blocks <= i + 1
    /\ stats.reads = 2 => stats.total_blocks <= stats.last + 1 /\ stats.last \in Heights
    /\ StatsOrdered

\* A transaction that was there is in the collection or, then, in the blocks.
DetailInv ==
    /\ detail = [pc |-> detail.pc, tx |-> detail.tx, known |-> detail.known,
                 status |-> detail.status, block_index |-> detail.block_index]
    /\ detail.pc \in {"idle", "collection", "blocks", "done"}
    /\ detail.pc \in {"collection", "blocks"} => detail.status = "ABSENT"
    /\ detail.pc = "collection" /\ detail.known => Exists(detail.tx)
    /\ detail.pc = "blocks" /\ detail.known => Listed(detail.tx)
    /\ DetailResolves

IInv == ServiceInv /\ HistoryInv /\ WalkInv /\ StatsInv /\ DetailInv

-----------------------------------------------------------------------------
(* The service. *)

LEMMA ServiceEffect ==
    ASSUME ServiceStep
    PROVE  \/ /\ blocks' = blocks
              /\ \E t \in TxId : /\ transactions[t] = NoDoc
                                 /\ transactions' = [transactions EXCEPT ![t] = Posted[t]]
           \/ /\ blocks' = blocks
              /\ \E t \in TxId : \E b \in blocks :
                    /\ t \in Chain!IdsOf(b)
                    /\ transactions[t] # NoDoc
                    /\ transactions' = [transactions EXCEPT ![t] = ConfirmedDoc(BlockIndex[b])]
           \/ /\ transactions' = transactions
              /\ \E b \in Block :
                    /\ \A c \in blocks : BlockIndex[c] # BlockIndex[b]
                    /\ blocks' = blocks \cup {b}
  <1>1. ASSUME NEW t \in TxId, Chain!Submit(t)
        PROVE  /\ blocks' = blocks
               /\ transactions[t] = NoDoc
               /\ transactions' = [transactions EXCEPT ![t] = Posted[t]]
    BY <1>1 DEF Chain!Submit, Chain!NoDoc, NoDoc, Chain!NoIndex, NoIndex
  <1>2. ASSUME NEW t \in TxId, NEW b \in Block, Chain!Confirm(b, t)
        PROVE  /\ blocks' = blocks /\ b \in blocks
               /\ t \in Chain!IdsOf(b)
               /\ transactions[t] # NoDoc
               /\ transactions' = [transactions EXCEPT ![t] = ConfirmedDoc(BlockIndex[b])]
    BY <1>2 DEF Chain!Confirm, Chain!NoDoc, NoDoc, Chain!ConfirmedDoc, ConfirmedDoc,
                Chain!NoIndex, NoIndex
  <1>3. ASSUME NEW b \in Block, Chain!Record(b)
        PROVE  /\ transactions' = transactions
               /\ \A c \in blocks : BlockIndex[c] # BlockIndex[b]
               /\ blocks' = blocks \cup {b}
    BY <1>3 DEF Chain!Record
  <1>4. \/ \E t \in TxId : Chain!Submit(t)
        \/ \E t \in TxId : \E b \in Block : Chain!Confirm(b, t)
        \/ \E b \in Block : Chain!Record(b)
    BY DEF ServiceStep, Chain!Next
  <1>. QED
    BY <1>1, <1>2, <1>3, <1>4

\* A step of a client changes neither collection.
LEMMA ReadsOnly ==
    ASSUME [Next]_vars, ~ServiceStep
    PROVE  blocks' = blocks /\ transactions' = transactions
  BY DEF Next, vars, HistoryStep, Begin, Read, Respond, BeginWalk, GetChain, EndWalk,
         GetChainStats, EndStats, AskDetail, FindInCollection, FindInBlocks, EndDetail

LEMMA GrownStep ==
    ASSUME ServiceInv, [Next]_vars
    PROVE  Grown' /\ blocks \subseteq blocks'
  <1>1. CASE blocks' = blocks
    BY <1>1 DEF ServiceInv, Grown
  <1>2. ASSUME NEW b \in Block, \A c \in blocks : BlockIndex[c] # BlockIndex[b],
               blocks' = blocks \cup {b}
        PROVE  Grown' /\ blocks \subseteq blocks'
    <2>1. IsFiniteSet(blocks')
      BY <1>2, FS_AddElement DEF ServiceInv, Grown
    <2>. QED
      BY <1>2, <2>1 DEF ServiceInv, Grown
  <1>. QED
    BY <1>1, <1>2, ServiceEffect, ReadsOnly

\* What becomes of a document: nothing, or it is inserted as posted, or a stored block that
\* lists it confirms it.
LEMMA DocEffect ==
    ASSUME ServiceInv, [Next]_vars
    PROVE  \/ transactions' = transactions
           \/ \E t \in TxId : /\ transactions[t] = NoDoc
                              /\ transactions' = [transactions EXCEPT ![t] = Posted[t]]
           \/ \E t \in TxId : \E b \in blocks :
                 /\ t \in Chain!IdsOf(b) /\ transactions[t] # NoDoc
                 /\ transactions' = [transactions EXCEPT ![t] = ConfirmedDoc(BlockIndex[b])]
  BY ServiceEffect, ReadsOnly

\* What holds of a transaction for good: it exists, a block lists it, the history finds it.
LEMMA FactsStay ==
    ASSUME ServiceInv, [Next]_vars
    PROVE  /\ blocks \subseteq blocks' /\ Heights \subseteq Heights'
           /\ \A t : Exists(t) => Exists(t)'
           /\ \A t : Listed(t) => Listed(t)'
           /\ \A t : Findable(t) => Findable(t)'
  <1>1. blocks \subseteq blocks' /\ \A t : Listed(t) => Listed(t)'
    BY GrownStep DEF Listed
  <1>2. /\ \A t \in TxId : Posted[t].status # "ABSENT"
        /\ \A i : ConfirmedDoc(i).status = "CONFIRMED"
        /\ NoDoc.status = "ABSENT"
    BY RecordAssumption DEF PostedDoc, ConfirmedDoc, NoDoc
  <1>3. \A t \in TxId : transactions[t].status # "ABSENT" => transactions'[t].status # "ABSENT"
    <2>. HIDE DEF ConfirmedDoc, NoDoc
    <2>. QED
      BY <1>2, DocEffect DEF ServiceInv, DocsListed
  <1>4. \A t \in TxId : transactions[t].status # "ABSENT" =>
            transactions'[t] = transactions[t] \/ Listed(t)
    <2>. HIDE DEF ConfirmedDoc, NoDoc
    <2>. QED
      BY <1>2, DocEffect DEF ServiceInv, DocsListed, Listed
  <1>. QED
    BY <1>1, <1>3, <1>4 DEF Heights, Exists, Listed, Findable

LEMMA DocsListedStep ==
    ASSUME ServiceInv, [Next]_vars
    PROVE  DocsListed'
  <1>1. blocks \subseteq blocks' /\ \A b \in blocks : BlockIndex[b] \in Nat
    BY GrownStep, RecordAssumption DEF ServiceInv, Grown
  <1>2. \A t \in TxId : Posted[t] \in Doc
    BY RecordAssumption DEF Doc
  <1>3. \A i \in Nat : ConfirmedDoc(i) \in Doc
    BY DEF ConfirmedDoc, Doc, PostedDoc
  <1>. HIDE DEF ConfirmedDoc, NoDoc
  <1>4. CASE transactions' = transactions
    BY <1>1, <1>4 DEF ServiceInv, DocsListed
  <1>5. ASSUME NEW t \in TxId, transactions' = [transactions EXCEPT ![t] = Posted[t]]
        PROVE  DocsListed'
    BY <1>1, <1>2, <1>5 DEF ServiceInv, DocsListed
  <1>6. ASSUME NEW t \in TxId, NEW b \in blocks, t \in Chain!IdsOf(b),
               transactions' = [transactions EXCEPT ![t] = ConfirmedDoc(BlockIndex[b])]
        PROVE  DocsListed'
    <2>1. \A u \in TxId \ {t} : transactions'[u] = transactions[u]
      BY <1>6 DEF ServiceInv, DocsListed
    <2>2. transactions'[t] = ConfirmedDoc(BlockIndex[b])
      BY <1>6 DEF ServiceInv, DocsListed
    <2>3. transactions' \in [TxId -> Doc]
      BY <1>1, <1>3, <1>6 DEF ServiceInv, DocsListed
    <2>. QED
      BY <1>1, <1>6, <2>1, <2>2, <2>3 DEF ServiceInv, DocsListed
  <1>. QED
    BY <1>4, <1>5, <1>6, DocEffect

-----------------------------------------------------------------------------
(* The history of a wallet. *)

LEMMA RowFields == \A t, s, i : Row(t, s, i).tx = t
  BY DEF Row

\* The queries list what they are meant to.
LEMMA QueriesFind ==
    ASSUME NEW w, NEW t, w \in Parties[t]
    PROVE  /\ Listed(t) => t \in {row.tx : row \in BlockRows(w)}
           /\ Findable(t) => t \in {row.tx : row \in MempoolRows(w)} \/ Listed(t)
  <1>1. ASSUME NEW b \in blocks, t \in Chain!IdsOf(b)
        PROVE  t \in {row.tx : row \in BlockRows(w)}
    <2>1. Row(t, "CONFIRMED", BlockIndex[b]) \in BlockRows(w)
      BY <1>1 DEF BlockRows
    <2>. QED
      BY <2>1, RowFields
  <1>2. ASSUME t \in TxId, transactions[t].status # "ABSENT",
               transactions[t].block_index = NoIndex
        PROVE  t \in {row.tx : row \in MempoolRows(w)}
    <2>1. Row(t, transactions[t].status, NoIndex) \in MempoolRows(w)
      BY <1>2 DEF MempoolRows
    <2>. QED
      BY <2>1, RowFields
  <1>. QED
    BY <1>1, <1>2 DEF Listed, Findable

\* What is known of a wallet is there to be found.
LEMMA KnownExists ==
    ASSUME NEW w, NEW t \in Known(w)
    PROVE  Findable(t) /\ w \in Parties[t]
  <1>1. PICK row \in MempoolRows(w) \cup BlockRows(w) : t = row.tx
    BY DEF Known
  <1>2. CASE row \in MempoolRows(w)
    <2>1. PICK u \in TxId : /\ w \in Parties[u] /\ transactions[u].status # "ABSENT"
                            /\ transactions[u].block_index = NoIndex
                            /\ row = Row(u, transactions[u].status, NoIndex)
      BY <1>2 DEF MempoolRows
    <2>. QED
      BY <1>1, <2>1, RowFields DEF Findable
  <1>3. CASE row \in BlockRows(w)
    <2>1. PICK b \in blocks : \E u \in Chain!IdsOf(b) :
                                 w \in Parties[u] /\ row = Row(u, "CONFIRMED", BlockIndex[b])
      BY <1>3 DEF BlockRows
    <2>. QED
      BY <1>1, <2>1, RowFields DEF Findable, Listed
  <1>. QED
    BY <1>1, <1>2, <1>3

LEMMA HistoryStepInv ==
    ASSUME ServiceInv, HistoryInv, [Next]_vars
    PROVE  HistoryInv'
  <1>. DEFINE found(q) == {row.tx : row \in q.rows}
              whole(q) == [reads |-> q.reads, wallet |-> q.wallet, rows |-> q.rows,
                           known |-> q.known]
              Holds(q) ==
                  /\ q = whole(q)
                  /\ q.reads \in 0..2
                  /\ q.reads = 0 => \A t \in q.known : Findable(t)
                  /\ q.reads = 1 => \A t \in q.known : t \in found(q) \/ Listed(t)
                  /\ q.reads = 2 => q.known \subseteq found(q)
                  /\ \A w \in q.wallet : \A t \in q.known : w \in Parties[t]
              Holds2(q) ==
                  /\ q = whole(q)
                  /\ q.reads \in 0..2
                  /\ q.reads = 0 => \A t \in q.known : Findable(t)'
                  /\ q.reads = 1 => \A t \in q.known : t \in found(q) \/ Listed(t)'
                  /\ q.reads = 2 => q.known \subseteq found(q)
                  /\ \A w \in q.wallet : \A t \in q.known : w \in Parties[t]
  <1>1. \A r \in Thread : Holds(request[r])
    BY DEF HistoryInv
  <1>2. \A q : Holds(q) => Holds2(q)
    BY FactsStay
  <1>3. SUFFICES /\ request' = [r \in Thread |-> request'[r]]
                 /\ \A r \in Thread : Holds(request'[r]) \/ Holds2(request'[r])
    <2>1. ASSUME NEW r \in Thread
          PROVE  Holds2(request'[r])
      BY <1>2, <1>3
    <2>. QED
      BY <1>3, <2>1 DEF HistoryInv, Findable, Listed
  <1>4. CASE UNCHANGED request
    BY <1>1, <1>4 DEF HistoryInv
  <1>5. ASSUME NEW r \in Thread, NEW w, Begin(r, w)
        PROVE  /\ request' = [s \in Thread |-> request'[s]]
               /\ \A s \in Thread : Holds(request'[s]) \/ Holds2(request'[s])
    <2>. DEFINE q == [reads |-> 0, wallet |-> {w}, rows |-> {}, known |-> Known(w)]
    <2>1. request' = [request EXCEPT ![r] = q]
      BY <1>5 DEF Begin
    <2>2. Holds(q)
      BY KnownExists
    <2>. QED
      BY <1>1, <2>1, <2>2 DEF HistoryInv
  <1>6. ASSUME NEW r \in Thread, Respond(r)
        PROVE  /\ request' = [s \in Thread |-> request'[s]]
               /\ \A s \in Thread : Holds(request'[s]) \/ Holds2(request'[s])
    <2>1. request' = [request EXCEPT ![r] = NoRequest]
      BY <1>6 DEF Respond
    <2>2. Holds(NoRequest)
      BY DEF NoRequest
    <2>. QED
      BY <1>1, <2>1, <2>2 DEF HistoryInv
  <1>7. ASSUME NEW r \in Thread, Read(r)
        PROVE  /\ request' = [s \in Thread |-> request'[s]]
               /\ \A s \in Thread : Holds(request'[s]) \/ Holds2(request'[s])
    <2>. DEFINE q == request[r]
                n == q.reads + 1
    <2>1. Holds(q) /\ q.reads \in 0..1
      BY <1>1, <1>7 DEF Read
    <2>2. PICK w \in q.wallet :
              request' = [request EXCEPT
                  ![r].rows = @ \cup (IF ReadOrder[n] = "mempool" THEN MempoolRows(w)
                                                                  ELSE BlockRows(w)),
                  ![r].reads = @ + 1]
      BY <1>7 DEF Read
    <2>. DEFINE rows == IF q.reads = 0 THEN MempoolRows(w) ELSE BlockRows(w)
                new == [reads |-> n, wallet |-> q.wallet, rows |-> q.rows \cup rows,
                        known |-> q.known]
    <2>3. rows = IF ReadOrder[n] = "mempool" THEN MempoolRows(w) ELSE BlockRows(w)
      BY <2>1 DEF ReadOrder
    <2>. HIDE DEF rows
    <2>4. /\ request' = [s \in Thread |-> request'[s]]
          /\ request'[r] = new
          /\ \A s \in Thread \ {r} : request'[s] = request[s]
      <3>1. request' = [request EXCEPT ![r].rows = @ \cup rows, ![r].reads = @ + 1]
        BY <2>2, <2>3
      <3>. QED
        BY <2>1, <3>1 DEF HistoryInv
    <2>5. Holds(new)
      <3>1. \A t \in q.known : w \in Parties[t]
        BY <2>1
      <3>2. found(new) = found(q) \cup {row.tx : row \in rows}
        OBVIOUS
      <3>3. CASE q.reads = 0
        <4>1. \A t \in q.known : t \in {row.tx : row \in rows} \/ Listed(t)
          BY <2>1, <3>1, <3>3, QueriesFind DEF rows
        <4>. QED
          BY <2>1, <3>2, <3>3, <4>1
      <3>4. CASE q.reads = 1
        <4>1. \A t \in q.known : Listed(t) => t \in {row.tx : row \in rows}
          BY <3>1, <3>4, QueriesFind DEF rows
        <4>. QED
          BY <2>1, <3>2, <3>4, <4>1
      <3>. QED
        BY <2>1, <3>3, <3>4
    <2>. QED
      BY <1>1, <2>4, <2>5 DEF HistoryInv
  <1>. QED
    BY <1>4, <1>5, <1>6, <1>7
       DEF Next, vars, queryVars, ServiceStep, HistoryStep, BeginWalk, GetChain, EndWalk,
           GetChainStats, EndStats, AskDetail, FindInCollection, FindInBlocks, EndDetail

-----------------------------------------------------------------------------
(* The cursor. *)

\* The places of a finite set of heights: in its order, and none empty.
LEMMA Ranks ==
    ASSUME NEW S, S \subseteq Nat, IsFiniteSet(S)
    PROVE  /\ Cardinality(S) \in Nat
           /\ \A i \in S : Rank(S, i) \in 0..(Cardinality(S) - 1)
           /\ \A i, j \in S : i < j => Rank(S, i) < Rank(S, j)
           /\ \A k \in 0..(Cardinality(S) - 1) : \E i \in S : Rank(S, i) = k
  <1>. DEFINE m == Cardinality(S)
              below(i) == {j \in S : j < i}
              place == [i \in S |-> Rank(S, i)]
  <1>1. m \in Nat
    BY FS_CardinalityType
  <1>2. ASSUME NEW i \in S
        PROVE  /\ IsFiniteSet(below(i)) /\ Cardinality(below(i)) \in Nat
               /\ Cardinality(below(i)) < m
    <2>1. below(i) \in SUBSET S /\ below(i) # S
      OBVIOUS
    <2>. HIDE DEF below
    <2>2. IsFiniteSet(below(i)) /\ Cardinality(below(i)) <= m /\ Cardinality(below(i)) # m
      BY <2>1, FS_Subset
    <2>3. Cardinality(below(i)) \in Nat
      BY <2>2, FS_CardinalityType
    <2>. QED
      BY <1>1, <2>2, <2>3
  <1>3. ASSUME NEW i \in S, NEW j \in S, i < j
        PROVE  Rank(S, i) < Rank(S, j)
    <2>1. below(i) \cup {i} \subseteq below(j) /\ i \notin below(i)
      <3>1. i \in Nat /\ j \in Nat /\ \A x \in S : x \in Nat
        OBVIOUS
      <3>2. \A x \in S : x < i => x < j
        BY <1>3, <3>1
      <3>3. i \in below(j) /\ i \notin below(i)
        BY <1>3, <3>1
      <3>4. \A x \in below(i) : x \in below(j)
        BY <3>2
      <3>. HIDE DEF below
      <3>. QED
        BY <3>3, <3>4
    <2>. HIDE DEF below
    <2>2. Cardinality(below(i) \cup {i}) = Cardinality(below(i)) + 1
      BY <1>2, <2>1, FS_AddElement
    <2>3. Cardinality(below(i) \cup {i}) <= Cardinality(below(j))
      BY <1>2, <2>1, FS_Subset
    <2>4. Cardinality(below(i)) < Cardinality(below(j))
      BY <1>2, <2>2, <2>3
    <2>. QED
      BY <2>4 DEF below, Rank
  <1>4. \A i \in S : Rank(S, i) \in 0..(m - 1)
    BY <1>1, <1>2 DEF Rank
  <1>5. place \in Injection(S, 0..(m - 1))
    <2>. HIDE DEF m
    <2>1. \A i, j \in S : place[i] = place[j] => i = j
      <3>. SUFFICES ASSUME NEW i \in S, NEW j \in S, Rank(S, i) = Rank(S, j), i # j
                    PROVE  FALSE
        OBVIOUS
      <3>1. i < j \/ j < i
        OBVIOUS
      <3>2. Rank(S, i) \in Nat /\ Rank(S, j) \in Nat
        BY <1>4
      <3>. QED
        BY <1>3, <3>1, <3>2
    <2>2. place \in [S -> 0..(m - 1)]
      BY <1>4
    <2>. HIDE DEF place
    <2>. QED
      BY <2>1, <2>2 DEF Injection, IsInjective
  <1>6. place \in Surjection(S, 0..(m - 1))
    <2>. HIDE DEF place
    <2>1. IsFiniteSet(0..(m - 1)) /\ Cardinality(0..(m - 1)) = m
      <3>1. /\ IsFiniteSet(0..(m - 1))
            /\ Cardinality(0..(m - 1)) = IF 0 > m - 1 THEN 0 ELSE (m - 1) - 0 + 1
        BY <1>1, FS_Interval
      <3>. QED
        BY <1>1, <3>1
    <2>. QED
      BY <1>5, <2>1, FS_Injection
  <1>7. ASSUME NEW k \in 0..(m - 1)
        PROVE  \E i \in S : Rank(S, i) = k
    <2>. HIDE DEF m
    <2>1. \E i \in S : place[i] = k
      <3>. HIDE DEF place
      <3>. QED
        BY <1>6 DEF Surjection
    <2>. QED
      BY <2>1
  <1>. QED
    BY <1>1, <1>3, <1>4, <1>7

\* A list of heights has at most as many of them as it is long.
LEMMA FetchedCount ==
    ASSUME NEW s \in Seq(Nat), NEW n \in 0..Len(s)
    PROVE  /\ IsFiniteSet({s[k] : k \in 1..n})
           /\ Cardinality({s[k] : k \in 1..n}) <= n
  <1>. DEFINE T == {s[k] : k \in 1..n}
              f == [k \in 1..n |-> s[k]]
  <1>1. f \in Surjection(1..n, T)
    BY DEF Surjection
  <1>2. IsFiniteSet(1..n) /\ Cardinality(1..n) = n
    <2>1. IsFiniteSet(1..n) /\ Cardinality(1..n) = IF 1 > n THEN 0 ELSE n - 1 + 1
      BY FS_Interval
    <2>. QED
      BY <2>1
  <1>. HIDE DEF T, f
  <1>3. IsFiniteSet(T) /\ Cardinality(T) <= n
    BY <1>1, <1>2, FS_Surjection
  <1>. QED
    BY <1>3 DEF T

\* The rows of a page: the heights of the places from skip on, as many as the limit or as
\* there are.
PageOf(S, skip, limit, rows) ==
    /\ rows \in Seq(Nat)
    /\ \A k \in 1..Len(rows) : rows[k] \in S /\ Rank(S, rows[k]) = skip + k - 1
    /\ \A h \in S : Rank(S, h) \in skip..(skip + limit - 1) => h \in Fetched(rows)
    /\ Len(rows) <= limit
    /\ Len(rows) # limit => \A h \in S : Rank(S, h) < skip + limit

LEMMA PageRows ==
    ASSUME NEW S, S \subseteq Nat, IsFiniteSet(S), NEW skip \in Nat, NEW limit \in Nat \ {0}
    PROVE  PageOf(S, skip, limit,
                  SubSeq(Sorted(S), skip + 1, AtMost(skip + limit, Cardinality(S))))
  <1>1. PICK m \in Nat : m = Cardinality(S)
    BY FS_CardinalityType
  <1>12. /\ \A h \in S : Rank(S, h) \in 0..(m - 1)
         /\ \A h, i \in S : h < i => Rank(S, h) < Rank(S, i)
    BY <1>1, Ranks, Zenon
  <1>2. PICK all : all = Sorted(S)
    OBVIOUS
  <1>3. /\ all \in [1..m -> Nat]
        /\ \A k \in 1..m : all[k] \in S /\ Rank(S, all[k]) = k - 1
    <2>1. all = [k \in 1..m |-> CHOOSE i \in S : Rank(S, i) = k - 1]
      BY <1>1, <1>2, Zenon DEF Sorted, Rank
    <2>2. ASSUME NEW k \in 1..m
          PROVE  all[k] \in S /\ Rank(S, all[k]) = k - 1
      <3>1. k - 1 \in 0..(m - 1)
        BY <1>1
      <3>2. \E i \in S : Rank(S, i) = k - 1
        BY <1>1, <3>1, Ranks
      <3>3. all[k] = CHOOSE i \in S : Rank(S, i) = k - 1
        BY <2>1
      <3>. QED
        BY <3>2, <3>3
    <2>3. all \in [1..m -> Nat]
      <3>1. \A k \in 1..m : (CHOOSE i \in S : Rank(S, i) = k - 1) \in Nat
        BY <2>1, <2>2
      <3>. QED
        BY <2>1, <3>1
    <2>. QED
      BY <2>2, <2>3
  <1>4. PICK last \in Nat : last = AtMost(skip + limit, m)
    BY DEF AtMost
  <1>5. last <= m /\ last <= skip + limit /\ (last = m \/ last = skip + limit)
    BY <1>4 DEF AtMost
  <1>6. PICK rows : rows = SubSeq(all, skip + 1, last)
    OBVIOUS
  <1>7. PICK n \in Nat : (skip < last => n = last - skip) /\ (skip >= last => n = 0)
    <2>1. CASE skip < last
      <3>1. last - skip \in Nat /\ ~(skip >= last)
        BY <2>1
      <3>. QED
        BY <2>1, <3>1
    <2>2. CASE skip >= last
      <3>1. 0 \in Nat /\ ~(skip < last)
        BY <2>2
      <3>. QED
        BY <2>2, <3>1
    <2>. QED
      BY <2>1, <2>2
  <1>8. all \in Seq(Nat) /\ Len(all) = m
    BY <1>3
  <1>9. /\ rows \in Seq(Nat) /\ Len(rows) = n
        /\ \A k \in 1..n : rows[k] = all[skip + k]
    BY <1>5, <1>6, <1>7, <1>8
  <1>10. \A k \in 1..n : rows[k] \in S /\ Rank(S, rows[k]) = skip + k - 1
    <2>. TAKE k \in 1..n
    <2>1. skip + k \in 1..m
      BY <1>5, <1>7
    <2>. QED
      BY <1>3, <1>9, <2>1
  <1>11. ASSUME NEW h \in S, Rank(S, h) < last, Rank(S, h) >= skip
         PROVE  h \in Fetched(rows)
    <2>1. Rank(S, h) \in Nat
      BY <1>12
    <2>2. PICK k \in 1..n : k = Rank(S, h) - skip + 1
      BY <1>7, <1>11, <2>1
    <2>3. rows[k] \in S /\ Rank(S, rows[k]) = Rank(S, h)
      BY <1>10, <2>1, <2>2
    <2>4. rows[k] = h
      <3>1. PICK i \in S : i = rows[k]
        BY <2>3
      <3>2. Rank(S, i) = Rank(S, h)
        BY <2>3, <3>1, Zenon
      <3>3. ~(i < h) /\ ~(h < i)
        BY <1>12, <2>1, <3>2
      <3>4. i \in Nat /\ h \in Nat
        OBVIOUS
      <3>. QED
        BY <3>1, <3>3, <3>4
    <2>. QED
      BY <1>9, <2>4 DEF Fetched
  <1>13. \A h \in S : Rank(S, h) \in skip..(skip + limit - 1) => h \in Fetched(rows)
    <2>. SUFFICES ASSUME NEW h \in S, Rank(S, h) \in skip..(skip + limit - 1)
                  PROVE  h \in Fetched(rows)
      OBVIOUS
    <2>1. Rank(S, h) < last /\ Rank(S, h) >= skip
      BY <1>5, <1>12
    <2>. QED
      BY <1>11, <2>1
  <1>14. n <= limit
    BY <1>5, <1>7
  <1>15. n # limit => \A h \in S : Rank(S, h) < skip + limit
    BY <1>5, <1>7, <1>12
  <1>16. PageOf(S, skip, limit, rows)
    BY <1>9, <1>10, <1>13, <1>14, <1>15 DEF PageOf
  <1>. QED
    BY <1>1, <1>2, <1>4, <1>6, <1>16, Zenon

-----------------------------------------------------------------------------
(* The pages of the chain. *)

\* A page after those fetched before: they ascend together, or a height is missing.
LEMMA PagesJoined ==
    ASSUME NEW S, S \subseteq Nat, IsFiniteSet(S),
           NEW old \in Seq(Nat), NEW rows \in Seq(Nat),
           Fetched(old) \subseteq S,
           \A k \in 1..Len(rows) : rows[k] \in S /\ Rank(S, rows[k]) = Len(old) + k - 1,
           Ascends(old) \/ Missing(S, old)
    PROVE  /\ old \o rows \in Seq(Nat)
           /\ Len(old \o rows) = Len(old) + Len(rows)
           /\ Fetched(old \o rows) = Fetched(old) \cup Fetched(rows)
           /\ Ascends(old \o rows) \/ Missing(S, old \o rows)
  <1>1. PICK m \in Nat, n \in Nat : m = Len(old) /\ n = Len(rows)
    BY LenProperties
  <1>2. PICK new : new = old \o rows
    OBVIOUS
  <1>3. /\ new \in Seq(Nat) /\ Len(new) = m + n
        /\ \A k \in 1..m : new[k] = old[k]
        /\ \A k \in 1..n : new[m + k] = rows[k]
    BY <1>1, <1>2, ConcatProperties
  <1>4. Fetched(new) = Fetched(old) \cup Fetched(rows)
    <2>1. ASSUME NEW x \in Fetched(new)
          PROVE  x \in Fetched(old) \cup Fetched(rows)
      <3>1. PICK k \in 1..(m + n) : x = new[k]
        BY <1>3 DEF Fetched
      <3>2. CASE k <= m
        <4>1. k \in 1..m
          BY <1>1, <3>2
        <4>. QED
          BY <1>1, <1>3, <3>1, <4>1 DEF Fetched
      <3>3. CASE k > m
        <4>1. PICK j \in 1..n : k = m + j
          <5>1. k - m \in 1..n /\ k = m + (k - m)
            BY <1>1, <3>3
          <5>. QED
            BY <5>1
        <4>. QED
          BY <1>1, <1>3, <3>1, <4>1 DEF Fetched
      <3>. QED
        BY <3>2, <3>3
    <2>2. ASSUME NEW x \in Fetched(old)
          PROVE  x \in Fetched(new)
      <3>1. PICK k \in 1..m : x = old[k]
        BY <1>1, <2>2 DEF Fetched
      <3>2. k \in 1..(m + n) /\ new[k] = x
        BY <1>1, <1>3, <3>1
      <3>. QED
        BY <1>3, <3>2 DEF Fetched
    <2>3. ASSUME NEW x \in Fetched(rows)
          PROVE  x \in Fetched(new)
      <3>1. PICK k \in 1..n : x = rows[k]
        BY <1>1, <2>3 DEF Fetched
      <3>2. m + k \in 1..(m + n) /\ new[m + k] = x
        BY <1>1, <1>3, <3>1
      <3>. QED
        BY <1>3, <3>2 DEF Fetched
    <2>. QED
      BY <2>1, <2>2, <2>3
  <1>5. /\ \A i \in S : Rank(S, i) \in Nat
        /\ \A i, j \in S : i < j => Rank(S, i) < Rank(S, j)
    <2>1. PICK c : c = Cardinality(S)
      OBVIOUS
    <2>2. /\ c \in Nat /\ \A i \in S : Rank(S, i) \in 0..(c - 1)
          /\ \A i, j \in S : i < j => Rank(S, i) < Rank(S, j)
      BY <2>1, Ranks, Zenon
    <2>3. \A i \in S : Rank(S, i) \in Nat
      BY <2>2
    <2>. QED
      BY <2>2, <2>3
  <1>6. IsFiniteSet(Fetched(old)) /\ Cardinality(Fetched(old)) <= m
    <2>1. m \in 0..Len(old) /\ Fetched(old) = {old[k] : k \in 1..m}
      BY <1>1 DEF Fetched
    <2>. QED
      BY <2>1, FetchedCount
  <1>7. CASE Missing(S, old)
    <2>. DEFINE T == {i \in S \ Fetched(old) : \E j \in Fetched(old) : i < j}
    <2>1. PICK x \in T : \A z \in T : ~(z < x)
      <3>1. T \subseteq Nat /\ T # {} /\ T \in SUBSET S
        BY <1>7 DEF Missing
      <3>. HIDE DEF T
      <3>2. IsFiniteSet(T) /\ Cardinality(T) \in Nat /\ Cardinality(T) # 0
        BY <3>1, FS_Subset, FS_CardinalityType, FS_EmptySet
      <3>3. 0 \in 0..(Cardinality(T) - 1)
        BY <3>2
      <3>4. \E x \in T : Rank(T, x) = 0
        BY <3>1, <3>2, <3>3, Ranks
      <3>5. PICK x \in T : Rank(T, x) = 0
        BY <3>4
      <3>6. {z \in T : z < x} = {}
        <4>1. IsFiniteSet({z \in T : z < x})
          BY <3>2, FS_Subset
        <4>. QED
          BY <3>5, <4>1, FS_EmptySet DEF Rank
      <3>. QED
        BY <3>6
    <2>2. x \in S /\ x \in Nat /\ x \notin Fetched(old)
      OBVIOUS
    <2>3. PICK y \in Fetched(old) : x < y
      OBVIOUS
    <2>4. y \in Nat
      BY <2>3
    <2>5. x \notin Fetched(rows)
      <3>. SUFFICES ASSUME NEW k \in 1..n, x = rows[k]
                    PROVE  FALSE
        BY <1>1 DEF Fetched
      <3>1. Rank(S, x) = m + k - 1
        BY <1>1
      <3>2. PICK B : B = {z \in S : z < x}
        OBVIOUS
      <3>3. Cardinality(B) = m + k - 1 /\ IsFiniteSet(B)
        BY <3>1, <3>2, FS_Subset, Zenon DEF Rank
      <3>4. \A z \in B : z \in Fetched(old)
        <4>. SUFFICES ASSUME NEW z \in S, z < x, z \notin Fetched(old)
                      PROVE  FALSE
          BY <3>2
        <4>1. z < y
          BY <2>2, <2>3, <2>4
        <4>2. z \in T
          BY <4>1
        <4>. QED
          BY <2>1, <4>2
      <3>5. y \notin B
        BY <2>2, <2>3, <2>4, <3>2
      <3>6. Cardinality(B \cup {y}) = Cardinality(B) + 1
        BY <3>3, <3>5, FS_AddElement
      <3>7. B \cup {y} \in SUBSET Fetched(old)
        BY <3>4
      <3>8. Cardinality(B \cup {y}) <= Cardinality(Fetched(old))
        BY <1>6, <3>7, FS_Subset
      <3>9. Cardinality(Fetched(old)) \in Nat
        BY <1>6, FS_CardinalityType
      <3>. QED
        BY <1>1, <1>6, <3>3, <3>6, <3>8, <3>9
    <2>6. Missing(S, new)
      <3>1. x \in S \ Fetched(new) /\ y \in Fetched(new)
        BY <1>4, <2>2, <2>5
      <3>. QED
        BY <2>3, <3>1 DEF Missing
    <2>. QED
      BY <1>1, <1>2, <1>3, <1>4, <2>6
  <1>8. CASE Ascends(old) /\ ~Missing(S, old)
    <2>1. \A i \in S : \A j \in Fetched(old) : i < j => i \in Fetched(old)
      BY <1>8 DEF Missing
    <2>2. ASSUME NEW l \in 1..m, NEW k \in 1..n
          PROVE  old[l] < rows[k]
      <3>. DEFINE h == rows[k]
      <3>1. old[l] \in Fetched(old) /\ old[l] \in Nat /\ h \in S /\ h \in Nat
        BY <1>1 DEF Fetched
      <3>. SUFFICES ASSUME ~(old[l] < h)
                    PROVE  FALSE
        OBVIOUS
      <3>2. h \in Fetched(old)
        <4>1. h < old[l] \/ h = old[l]
          BY <3>1
        <4>. QED
          BY <2>1, <3>1, <4>1
      <3>3. PICK j \in 1..m : h = old[j]
        BY <1>1, <3>2 DEF Fetched
      <3>4. Rank(S, h) = m + k - 1
        BY <1>1
      <3>5. PICK B : B = {z \in S : z < h}
        OBVIOUS
      <3>6. Cardinality(B) = m + k - 1
        BY <3>4, <3>5, Zenon DEF Rank
      <3>. HIDE DEF h
      <3>7. PICK p \in 0..m : p = j - 1
        BY <1>1
      <3>8. PICK C : C = {old[i] : i \in 1..p}
        OBVIOUS
      <3>9. \A z \in B : z \in C
        <4>. SUFFICES ASSUME NEW z \in S, z < h
                      PROVE  z \in C
          BY <3>5
        <4>1. z \in Fetched(old)
          BY <2>1, <3>2
        <4>2. PICK i \in 1..m : z = old[i]
          BY <1>1, <4>1 DEF Fetched
        <4>3. i < j
          <5>. SUFFICES ASSUME ~(i < j)
                        PROVE  FALSE
            OBVIOUS
          <5>1. i = j \/ j < i
            OBVIOUS
          <5>2. h = z \/ h < z
            BY <1>1, <1>8, <3>3, <4>2, <5>1 DEF Ascends
          <5>3. z \in Nat
            OBVIOUS
          <5>. QED
            BY <3>1, <5>2, <5>3
        <4>4. i \in 1..p
          BY <3>7, <4>3
        <4>. QED
          BY <3>8, <4>2, <4>4
      <3>10. IsFiniteSet(C) /\ Cardinality(C) <= p
        <4>1. p \in 0..Len(old)
          BY <1>1
        <4>. QED
          BY <3>8, <4>1, FetchedCount
      <3>11. Cardinality(B) <= Cardinality(C)
        BY <3>9, <3>10, FS_Subset
      <3>12. Cardinality(C) \in Nat
        BY <3>10, FS_CardinalityType
      <3>. QED
        BY <3>6, <3>7, <3>10, <3>11, <3>12
    <2>3. ASSUME NEW k \in 1..n, NEW l \in 1..n, k < l
          PROVE  rows[k] < rows[l]
      <3>1. PICK i \in S, j \in S : i = rows[k] /\ j = rows[l]
        BY <1>1
      <3>2. Rank(S, i) = m + k - 1 /\ Rank(S, j) = m + l - 1
        BY <1>1, <3>1
      <3>3. i # j /\ ~(j < i)
        BY <1>5, <2>3, <3>2
      <3>4. i \in Nat /\ j \in Nat
        OBVIOUS
      <3>. QED
        BY <3>1, <3>3, <3>4
    <2>4. ASSUME NEW k \in 1..(m + n), NEW l \in 1..(m + n), k < l
          PROVE  new[k] < new[l]
      <3>1. CASE l <= m
        <4>1. k \in 1..m /\ l \in 1..m
          BY <2>4, <3>1
        <4>2. old[k] < old[l]
          BY <1>1, <1>8, <2>4, <4>1 DEF Ascends
        <4>. QED
          BY <1>3, <4>1, <4>2
      <3>2. CASE k <= m /\ l > m
        <4>1. k \in 1..m /\ l - m \in 1..n /\ l = m + (l - m)
          BY <3>2
        <4>2. new[l] = rows[l - m]
          BY <1>3, <4>1
        <4>. QED
          BY <1>3, <2>2, <4>1, <4>2
      <3>3. CASE k > m
        <4>1. k - m \in 1..n /\ k = m + (k - m) /\ l - m \in 1..n /\ l = m + (l - m)
          BY <2>4, <3>3
        <4>2. new[l] = rows[l - m] /\ new[k] = rows[k - m]
          BY <1>3, <4>1
        <4>3. k - m < l - m
          BY <2>4
        <4>. QED
          BY <2>3, <4>1, <4>2, <4>3
      <3>. QED
        BY <3>1, <3>2, <3>3
    <2>5. Ascends(new)
      BY <1>3, <2>4 DEF Ascends
    <2>. QED
      BY <1>1, <1>2, <1>3, <1>4, <2>5
  <1>. QED
    BY <1>7, <1>8

\* A place only moves on as heights are added.
LEMMA RankGrows ==
    ASSUME NEW S, NEW R, S \subseteq R, IsFiniteSet(R), NEW h
    PROVE  Rank(S, h) <= Rank(R, h)
  <1>1. {j \in R : j < h} \in SUBSET R
    OBVIOUS
  <1>2. IsFiniteSet({j \in R : j < h})
    BY <1>1, FS_Subset
  <1>3. {j \in S : j < h} \in SUBSET {j \in R : j < h}
    OBVIOUS
  <1>4. Cardinality({j \in S : j < h}) <= Cardinality({j \in R : j < h})
    BY <1>2, <1>3, FS_Subset
  <1>. QED
    BY <1>4 DEF Rank

\* The heights of the recorded blocks: as many as the blocks.
LEMMA HeightsFinite ==
    ASSUME Grown
    PROVE  /\ Heights \subseteq Nat /\ IsFiniteSet(Heights) /\ Heights # {}
           /\ Cardinality(Heights) = Cardinality(blocks)
           /\ Cardinality(blocks) \in Nat
  <1>. DEFINE f == [b \in blocks |-> BlockIndex[b]]
  <1>1. Heights \subseteq Nat /\ Heights # {}
    BY RecordAssumption DEF Heights, Grown
  <1>2. f \in Bijection(blocks, Heights)
    BY DEF Grown, Heights, Bijection, Injection, Surjection, IsInjective
  <1>. HIDE DEF f
  <1>3. ExistsBijection(blocks, Heights)
    BY <1>2 DEF ExistsBijection
  <1>4. IsFiniteSet(blocks)
    BY DEF Grown
  <1>5. /\ IsFiniteSet(Heights) /\ Cardinality(Heights) = Cardinality(blocks)
        /\ Cardinality(blocks) \in Nat
    BY <1>3, <1>4, FS_Bijection, FS_CardinalityType
  <1>. QED
    BY <1>1, <1>5

LEMMA HeightsFiniteNext ==
    Grown' => Heights' \subseteq Nat /\ IsFiniteSet(Heights')
  <1>. DEFINE Fin == Heights \subseteq Nat /\ IsFiniteSet(Heights)
  <1>1. Grown => Fin
    BY HeightsFinite
  <1>. HIDE DEF Fin
  <1>2. Grown' => Fin'
    BY <1>1, PTL
  <1>. QED
    BY <1>2 DEF Fin

LEMMA WalkStep ==
    ASSUME ServiceInv, WalkInv, [Next]_vars
    PROVE  WalkInv'
  <1>1. /\ Heights \subseteq Nat /\ IsFiniteSet(Heights)
        /\ Heights \subseteq Heights' /\ Grown'
    BY HeightsFinite, GrownStep, FactsStay DEF ServiceInv
  <1>2. CASE UNCHANGED walk
    <2>1. ASSUME NEW h
          PROVE  Rank(Heights, h) <= Rank(Heights', h) /\ Rank(Heights, h) \in Nat
                 /\ Rank(Heights', h) \in Nat
      <3>1. Heights' \subseteq Nat /\ IsFiniteSet(Heights')
        BY <1>1, HeightsFiniteNext
      <3>2. PICK R : R = Heights'
        OBVIOUS
      <3>3. Rank(Heights, h) <= Rank(R, h)
        BY <1>1, <3>1, <3>2, RankGrows
      <3>4. IsFiniteSet({j \in Heights : j < h}) /\ IsFiniteSet({j \in R : j < h})
        BY <1>1, <3>1, <3>2, FS_Subset
      <3>5. Rank(Heights, h) \in Nat /\ Rank(R, h) \in Nat
        BY <3>4, FS_CardinalityType DEF Rank
      <3>. QED
        BY <3>2, <3>3, <3>5, Zenon
    <2>2. Len(walk.heights) \in Nat
      BY LenProperties DEF WalkInv
    <2>3. ASSUME walk.page > 0, NEW h \in walk.known
          PROVE  /\ h \in Heights'
                 /\ h \in Fetched(walk.heights) \/ Rank(Heights', h) >= Len(walk.heights)
      <3>1. /\ h \in Heights
            /\ h \in Fetched(walk.heights) \/ Rank(Heights, h) >= Len(walk.heights)
        BY <2>3 DEF WalkInv
      <3>. QED
        BY <1>1, <2>1, <2>2, <3>1
    <2>4. Missing(Heights, walk.heights) => Missing(Heights', walk.heights)
      BY <1>1 DEF Missing
    <2>. QED
      BY <1>1, <1>2, <2>3, <2>4 DEF WalkInv
  <1>3. CASE BeginWalk
    <2>1. walk' = [page |-> 1, heights |-> <<>>, known |-> Heights] /\ Heights' = Heights
      BY <1>3 DEF BeginWalk, Heights
    <2>2. (1 - 1) * Limit = 0
      BY LimitAssumption
    <2>3. \A h \in Heights : Rank(Heights, h) >= 0
      <3>1. \A h : IsFiniteSet({j \in Heights : j < h})
        BY <1>1, FS_Subset
      <3>. QED
        BY <3>1, FS_CardinalityType DEF Rank
    <2>4. Ascends(<<>>) /\ Fetched(<<>>) = {} /\ <<>> \in Seq(Nat) /\ Len(<<>>) = 0
      BY DEF Ascends, Fetched
    <2>. QED
      BY <2>1, <2>2, <2>3, <2>4 DEF WalkInv
  <1>4. CASE EndWalk
    <2>1. Ascends(<<>>) /\ Fetched(<<>>) = {} /\ <<>> \in Seq(Nat)
      BY DEF Ascends, Fetched
    <2>. QED
      BY <1>4, <2>1 DEF EndWalk, NoWalk, WalkInv
  <1>5. CASE GetChain
    <2>1. PICK n, old, known :
              n = walk.page /\ old = walk.heights /\ known = walk.known
      OBVIOUS
    <2>2. PICK rows : rows = Page(n)
      OBVIOUS
    <2>3. n \in Nat \ {0}
      BY <1>5, <2>1 DEF GetChain, WalkInv
    <2>4. PICK skip \in Nat : skip = (n - 1) * Limit
      BY <2>3, LimitAssumption
    <2>5. /\ Len(old) = skip /\ old \in Seq(Nat) /\ Fetched(old) \subseteq Heights
          /\ \A h \in known : h \in Heights /\ (h \in Fetched(old) \/ Rank(Heights, h) >= skip)
          /\ Ascends(old) \/ Missing(Heights, old)
      BY <2>1, <2>3, <2>4 DEF WalkInv
    <2>6. /\ rows \in Seq(Nat)
          /\ \A k \in 1..Len(rows) : rows[k] \in Heights /\ Rank(Heights, rows[k]) = skip + k - 1
          /\ \A h \in Heights : Rank(Heights, h) \in skip..(skip + Limit - 1) =>
                                    h \in Fetched(rows)
          /\ Len(rows) <= Limit
          /\ Len(rows) # Limit => \A h \in Heights : Rank(Heights, h) < skip + Limit
      <3>1. rows = SubSeq(Sorted(Heights), skip + 1, AtMost(skip + Limit, Cardinality(Heights)))
        BY <2>2, <2>4, Zenon DEF Page
      <3>2. PageOf(Heights, skip, Limit, rows)
        BY <1>1, <2>4, <3>1, LimitAssumption, PageRows
      <3>. QED
        BY <3>2, Zenon DEF PageOf
    <2>7. /\ walk' = [page |-> IF Len(rows) = Limit THEN n + 1 ELSE -1,
                      heights |-> old \o rows, known |-> known]
          /\ Heights' = Heights
      BY <1>5, <2>1, <2>2 DEF GetChain, WalkInv, Heights
    <2>8. PICK new : new = old \o rows
      OBVIOUS
    <2>9. /\ new \in Seq(Nat) /\ Len(new) = skip + Len(rows)
          /\ Fetched(new) = Fetched(old) \cup Fetched(rows)
          /\ Ascends(new) \/ Missing(Heights, new)
      <3>1. \A k \in 1..Len(rows) :
                rows[k] \in Heights /\ Rank(Heights, rows[k]) = Len(old) + k - 1
        BY <2>5, <2>6
      <3>2. /\ old \o rows \in Seq(Nat)
            /\ Len(old \o rows) = Len(old) + Len(rows)
            /\ Fetched(old \o rows) = Fetched(old) \cup Fetched(rows)
            /\ Ascends(old \o rows) \/ Missing(Heights, old \o rows)
        BY <1>1, <2>5, <2>6, <3>1, PagesJoined, Zenon
      <3>. QED
        BY <2>5, <2>8, <3>2
    <2>10. Fetched(new) \subseteq Heights
      <3>1. Fetched(rows) \subseteq Heights
        BY <2>6 DEF Fetched
      <3>. QED
        BY <2>5, <2>9, <3>1
    <2>11. \A h \in Heights : Rank(Heights, h) \in Nat
      <3>1. \A h : IsFiniteSet({j \in Heights : j < h})
        BY <1>1, FS_Subset
      <3>. QED
        BY <3>1, FS_CardinalityType DEF Rank
    <2>12. \A h \in known : h \in Fetched(new) \/ Rank(Heights, h) >= skip + Limit
      <3>. TAKE h \in known
      <3>1. h \in Heights /\ (h \in Fetched(old) \/ Rank(Heights, h) >= skip)
        BY <2>5
      <3>2. CASE Rank(Heights, h) >= skip /\ Rank(Heights, h) < skip + Limit
        <4>1. Rank(Heights, h) \in skip..(skip + Limit - 1)
          BY <2>11, <3>1, <3>2, LimitAssumption
        <4>. QED
          BY <2>6, <2>9, <3>1, <4>1
      <3>3. CASE Rank(Heights, h) >= skip /\ ~(Rank(Heights, h) < skip + Limit)
        BY <2>11, <3>1, <3>3, LimitAssumption
      <3>. QED
        BY <2>9, <3>1, <3>2, <3>3
    <2>13. CASE Len(rows) = Limit
      <3>1. walk' = [page |-> n + 1, heights |-> new, known |-> known]
        BY <2>7, <2>8, <2>13
      <3>2. ((n + 1) - 1) * Limit = skip + Limit /\ n + 1 \in Nat /\ n + 1 # -1
        BY <2>3, <2>4, LimitAssumption
      <3>3. Len(new) = skip + Limit
        BY <2>9, <2>13
      <3>4. known \subseteq Heights
        BY <2>5
      <3>. QED
        <4>1. walk'.page = n + 1 /\ walk'.heights = new /\ walk'.known = known
          BY <3>1
        <4>2. walk' = [page |-> walk'.page, heights |-> walk'.heights, known |-> walk'.known]
          BY <3>1
        <4>3. \A h \in known : h \in Heights /\ (h \in Fetched(new) \/ Rank(Heights, h) >= Len(new))
          BY <2>12, <3>3, <3>4
        <4>4. Len(new) = ((n + 1) - 1) * Limit
          BY <3>2, <3>3
        <4>. QED
          BY <2>7, <2>9, <2>10, <3>2, <4>1, <4>2, <4>3, <4>4, Zenon DEF WalkInv
    <2>14. CASE Len(rows) # Limit
      <3>1. walk' = [page |-> -1, heights |-> new, known |-> known]
        BY <2>7, <2>8, <2>14
      <3>2. known \subseteq Fetched(new)
        <4>1. ASSUME NEW h \in known
              PROVE  h \in Fetched(new)
          <5>1. h \in Heights /\ Rank(Heights, h) < skip + Limit
            BY <2>5, <2>6, <2>14
          <5>2. ~(Rank(Heights, h) >= skip + Limit)
            BY <2>4, <2>11, <5>1, LimitAssumption
          <5>. QED
            BY <2>12, <5>2
        <4>. QED
          BY <4>1
      <3>. QED
        <4>1. walk'.page = -1 /\ walk'.heights = new /\ walk'.known = known
          BY <3>1
        <4>2. walk' = [page |-> walk'.page, heights |-> walk'.heights, known |-> walk'.known]
          BY <3>1
        <4>3. ~(-1 > 0) /\ -1 \in Nat \cup {-1}
          OBVIOUS
        <4>. QED
          BY <2>7, <2>9, <2>10, <3>2, <4>1, <4>2, <4>3, Zenon DEF WalkInv
    <2>. QED
      BY <2>13, <2>14
  <1>. QED
    BY <1>2, <1>3, <1>4, <1>5
       DEF Next, vars, queryVars, ServiceStep, HistoryStep, GetChainStats, EndStats,
           AskDetail, FindInCollection, FindInBlocks, EndDetail

-----------------------------------------------------------------------------
(* The statistics. *)

\* One block per height: the highest is as high as any, and no more blocks than heights up
\* to it.
LEMMA CountAndTip ==
    ASSUME Grown
    PROVE  /\ Cardinality(blocks) \in Nat
           /\ Highest \in Heights /\ Highest \in Nat
           /\ \A i \in Heights : i <= Highest
           /\ Cardinality(blocks) <= Highest + 1
  <1>1. /\ Heights \subseteq Nat /\ IsFiniteSet(Heights) /\ Heights # {}
        /\ Cardinality(Heights) = Cardinality(blocks) /\ Cardinality(blocks) \in Nat
    BY HeightsFinite
  <1>2. PICK S, m : S = Heights /\ m = Cardinality(blocks) /\ m \in Nat
    BY <1>1
  <1>3. m = Cardinality(S) /\ m # 0 /\ m \in Nat
    BY <1>1, <1>2, FS_EmptySet
  <1>4. /\ \A i \in S : Rank(S, i) \in 0..(m - 1)
        /\ \A i, j \in S : i < j => Rank(S, i) < Rank(S, j)
        /\ \A k \in 0..(m - 1) : \E i \in S : Rank(S, i) = k
    BY <1>1, <1>2, <1>3, Ranks, Zenon
  <1>5. PICK i \in S : Rank(S, i) = m - 1
    BY <1>3, <1>4
  <1>6. \A j \in S : j <= i
    <2>. TAKE j \in S
    <2>1. i \in Nat /\ j \in Nat
      BY <1>1, <1>2
    <2>2. ~(i < j)
      BY <1>4, <1>5
    <2>. QED
      BY <2>1, <2>2
  <1>7. Highest \in S /\ \A j \in S : j <= Highest
    BY <1>2, <1>6 DEF Highest
  <1>8. Highest \in Nat
    BY <1>1, <1>2, <1>7
  <1>9. m <= Highest + 1
    <2>1. IsFiniteSet(0..Highest) /\ Cardinality(0..Highest) = Highest + 1
      <3>1. /\ IsFiniteSet(0..Highest)
            /\ Cardinality(0..Highest) = IF 0 > Highest THEN 0 ELSE Highest - 0 + 1
        BY <1>8, FS_Interval
      <3>. QED
        BY <1>8, <3>1
    <2>2. S \in SUBSET (0..Highest)
      BY <1>1, <1>2, <1>7, <1>8
    <2>3. Cardinality(S) <= Cardinality(0..Highest)
      BY <2>1, <2>2, FS_Subset
    <2>. QED
      BY <1>3, <2>1, <2>3
  <1>. QED
    BY <1>1, <1>2, <1>7, <1>8, <1>9

LEMMA StatsStep ==
    ASSUME ServiceInv, StatsInv, [Next]_vars
    PROVE  StatsInv'
  <1>1. /\ Cardinality(blocks) \in Nat
        /\ Highest \in Heights /\ Highest \in Nat
        /\ \A i \in Heights : i \in Nat /\ i <= Highest
        /\ Cardinality(blocks) <= Highest + 1
    BY CountAndTip, HeightsFinite DEF ServiceInv
  <1>2. CASE UNCHANGED stats
    <2>1. Heights \subseteq Heights'
      BY FactsStay
    <2>2. Cardinality(blocks') \in Nat /\ Cardinality(blocks) <= Cardinality(blocks')
      <3>1. IsFiniteSet(blocks') /\ blocks \in SUBSET blocks'
        BY GrownStep DEF Grown
      <3>. QED
        BY <3>1, FS_Subset, FS_CardinalityType
    <2>3. StatsOrdered'
      BY <1>2 DEF StatsInv, StatsOrdered
    <2>4. stats.reads \in 1..2 => stats.total_blocks <= Cardinality(blocks')
      BY <1>1, <2>2 DEF StatsInv
    <2>. QED
      BY <1>2, <2>1, <2>3, <2>4 DEF StatsInv
  <1>3. CASE EndStats
    BY <1>3 DEF EndStats, NoStats, StatsInv, StatsOrdered
  <1>4. CASE GetChainStats
    <2>1. stats.reads \in 0..2
      BY <1>4 DEF GetChainStats, Quiet, NoStats
    <2>2. Heights' = Heights /\ blocks' = blocks
      BY <1>4 DEF GetChainStats, Heights
    <2>3. StatsOrder[1] = "count" /\ StatsOrder[2] = "last" /\ StatsOrder[3] = "sum"
      BY DEF StatsOrder
    <2>. DEFINE query == StatsOrder[stats.reads + 1]
    <2>4. stats' = [reads |-> stats.reads + 1,
                    total_blocks |-> IF query = "count" THEN Cardinality(blocks)
                                                        ELSE stats.total_blocks,
                    last |-> IF query = "last" THEN Highest ELSE stats.last,
                    counted |-> IF query = "sum" THEN blocks ELSE stats.counted]
      BY <1>4 DEF GetChainStats, StatsInv
    <2>5. /\ stats.reads = 0 => query = "count"
          /\ stats.reads = 1 => query = "last"
          /\ stats.reads = 2 => query = "sum"
      BY <2>3
    <2>. HIDE DEF query
    <2>6. CASE stats.reads = 0
      <3>1. stats' = [reads |-> 1, total_blocks |-> Cardinality(blocks),
                      last |-> stats.last, counted |-> stats.counted]
        BY <2>6, <2>4, <2>5
      <3>. QED
        BY <1>1, <2>2, <3>1 DEF StatsInv, StatsOrdered
    <2>7. CASE stats.reads = 1
      <3>1. stats' = [reads |-> 2, total_blocks |-> stats.total_blocks,
                      last |-> Highest, counted |-> stats.counted]
        BY <1>1, <2>7, <2>4, <2>5
      <3>2. stats.total_blocks <= Highest + 1
        <4>1. PICK i \in Heights : stats.total_blocks <= i + 1
          BY <2>7 DEF StatsInv
        <4>. QED
          BY <1>1, <4>1 DEF StatsInv
      <3>3. stats.total_blocks \in Nat /\ stats.total_blocks <= Cardinality(blocks')
        BY <2>2, <2>7 DEF StatsInv
      <3>. QED
        BY <1>1, <2>2, <3>1, <3>2, <3>3 DEF StatsInv, StatsOrdered
    <2>8. CASE stats.reads = 2
      <3>1. stats' = [reads |-> 3, total_blocks |-> stats.total_blocks,
                      last |-> stats.last, counted |-> blocks]
        BY <2>8, <2>4, <2>5
      <3>2. /\ stats.total_blocks <= stats.last + 1 /\ stats.last \in Heights
            /\ stats.total_blocks <= Cardinality(blocks)
            /\ stats.total_blocks \in Nat /\ stats.last \in Nat
        BY <2>8 DEF StatsInv
      <3>3. \E b \in blocks : BlockIndex[b] = stats.last
        BY <3>2 DEF Heights
      <3>4. StatsOrdered'
        BY <3>1, <3>2, <3>3 DEF StatsOrdered
      <3>. QED
        BY <3>1, <3>2, <3>4 DEF StatsInv
    <2>. QED
      BY <2>1, <2>6, <2>7, <2>8
  <1>. QED
    BY <1>2, <1>3, <1>4
       DEF Next, vars, queryVars, ServiceStep, HistoryStep, BeginWalk, GetChain, EndWalk,
           AskDetail, FindInCollection, FindInBlocks, EndDetail

-----------------------------------------------------------------------------
(* The detail of a transaction. *)

LEMMA DetailStep ==
    ASSUME ServiceInv, DetailInv, [Next]_vars
    PROVE  DetailInv'
  <1>1. CASE UNCHANGED detail
    <2>1. /\ Exists(detail.tx) => Exists(detail.tx)'
          /\ Listed(detail.tx) => Listed(detail.tx)'
      BY <1>1, FactsStay DEF Exists, Listed
    <2>2. DetailResolves'
      BY <1>1, FactsStay DEF DetailInv, DetailResolves
    <2>. QED
      BY <1>1, <2>1, <2>2 DEF DetailInv
  <1>2. ASSUME NEW t, AskDetail(t)
        PROVE  DetailInv'
    <2>1. detail' = [pc |-> "collection", tx |-> t, known |-> Exists(t),
                     status |-> "ABSENT", block_index |-> NoIndex]
      BY <1>2 DEF AskDetail, NoDetail
    <2>2. Exists(t) => Exists(t)'
      BY FactsStay
    <2>. QED
      BY <2>1, <2>2 DEF DetailInv, DetailResolves, Exists
  <1>3. CASE FindInCollection
    <2>. DEFINE t == detail.tx
    <2>1. detail.pc = "collection" /\ detail.status = "ABSENT" /\ blocks' = blocks
      BY <1>3 DEF FindInCollection, DetailInv
    <2>2. CASE t \in TxId /\ transactions[t].status # "ABSENT"
      <3>1. detail' = [pc |-> "done", tx |-> t, known |-> detail.known,
                       status |-> transactions[t].status,
                       block_index |-> transactions[t].block_index]
        BY <1>3, <2>2 DEF FindInCollection, DetailInv
      <3>2. \/ /\ transactions[t].status = Posted[t].status
               /\ transactions[t].block_index = Posted[t].block_index
            \/ /\ transactions[t].status = "CONFIRMED"
               /\ \E b \in blocks : /\ BlockIndex[b] = transactions[t].block_index
                                    /\ t \in Chain!IdsOf(b)
        <4>1. transactions[t] # NoDoc
          BY <2>2 DEF NoDoc
        <4>2. \/ transactions[t] = Posted[t]
              \/ \E b \in blocks : /\ t \in Chain!IdsOf(b)
                                   /\ transactions[t] = ConfirmedDoc(BlockIndex[b])
          BY <2>2, <4>1 DEF ServiceInv, DocsListed
        <4>3. ASSUME NEW b \in blocks, t \in Chain!IdsOf(b),
                     transactions[t] = ConfirmedDoc(BlockIndex[b])
              PROVE  /\ transactions[t].status = "CONFIRMED"
                     /\ BlockIndex[b] = transactions[t].block_index
          <5>1. transactions[t] = [status |-> "CONFIRMED", block_index |-> BlockIndex[b]]
            BY <4>3, Zenon DEF ConfirmedDoc
          <5>. QED
            BY <5>1
        <4>. QED
          BY <4>2, <4>3
      <3>3. DetailResolves'
        BY <2>1, <2>2, <3>1, <3>2 DEF DetailResolves
      <3>. QED
        BY <3>1, <3>3 DEF DetailInv
    <2>3. CASE ~(t \in TxId /\ transactions[t].status # "ABSENT")
      <3>1. detail' = [pc |-> "blocks", tx |-> t, known |-> detail.known,
                       status |-> detail.status, block_index |-> detail.block_index]
        BY <1>3, <2>3 DEF FindInCollection, DetailInv
      <3>2. detail.known => Listed(t)
        BY <2>1, <2>3 DEF DetailInv, Exists, Listed
      <3>. QED
        BY <2>1, <3>1, <3>2 DEF DetailInv, DetailResolves, Listed
    <2>. QED
      BY <2>2, <2>3
  <1>4. CASE FindInBlocks
    <2>. DEFINE holders == {b \in blocks : detail.tx \in Chain!IdsOf(b)}
    <2>1. /\ detail.pc = "blocks" /\ detail.status = "ABSENT" /\ blocks' = blocks
          /\ detail.known => holders # {}
      BY <1>4 DEF FindInBlocks, DetailInv, Listed
    <2>2. CASE /\ holders = {}
               /\ detail' = [detail EXCEPT !.pc = "done"]
      <3>1. detail' = [pc |-> "done", tx |-> detail.tx, known |-> detail.known,
                       status |-> "ABSENT", block_index |-> detail.block_index]
        BY <2>1, <2>2 DEF DetailInv
      <3>. QED
        BY <2>1, <2>2, <3>1 DEF DetailInv, DetailResolves
    <2>3. ASSUME NEW b \in holders,
                 detail' = [detail EXCEPT !.pc = "done", !.status = "CONFIRMED",
                                          !.block_index = BlockIndex[b]]
          PROVE  DetailInv'
      <3>1. detail' = [pc |-> "done", tx |-> detail.tx, known |-> detail.known,
                       status |-> "CONFIRMED", block_index |-> BlockIndex[b]]
        BY <2>3 DEF DetailInv
      <3>. QED
        BY <2>1, <3>1 DEF DetailInv, DetailResolves
    <2>. QED
      BY <1>4, <2>2, <2>3 DEF FindInBlocks
  <1>5. CASE EndDetail
    BY <1>5 DEF EndDetail, NoDetail, DetailInv, DetailResolves
  <1>. QED
    BY <1>1, <1>2, <1>3, <1>4, <1>5
       DEF Next, vars, queryVars, ServiceStep, HistoryStep, BeginWalk, GetChain, EndWalk,
           GetChainStats, EndStats

-----------------------------------------------------------------------------
(* The invariant and the properties of the run. *)

LEMMA InvInit == Init => IInv
  <1>. SUFFICES ASSUME Init
                PROVE  IInv
    OBVIOUS
  <1>1. /\ blocks = {Genesis}
        /\ transactions = [t \in TxId |-> NoDoc]
    BY DEF Init, Chain!Init, Chain!NoDoc, NoDoc, Chain!NoIndex, NoIndex
  <1>2. ServiceInv
    <2>1. IsFiniteSet({Genesis})
      BY FS_Singleton
    <2>2. Grown
      BY <1>1, <2>1, RecordAssumption DEF Grown
    <2>. QED
      BY <1>1, <2>2 DEF ServiceInv, DocsListed, NoDoc, Doc
  <1>3. HistoryInv
    BY DEF Init, HistoryInit, NoRequest, HistoryInv
  <1>4. Ascends(<<>>) /\ Fetched(<<>>) = {} /\ <<>> \in Seq(Nat)
    BY DEF Ascends, Fetched
  <1>5. WalkInv /\ StatsInv /\ DetailInv
    BY <1>4 DEF Init, NoWalk, NoStats, NoDetail, WalkInv, StatsInv, StatsOrdered, DetailInv,
           DetailResolves
  <1>. QED
    BY <1>2, <1>3, <1>5 DEF IInv

LEMMA InvStep == IInv /\ [Next]_vars => IInv'
  BY GrownStep, DocsListedStep, HistoryStepInv, WalkStep, StatsStep, DetailStep
     DEF IInv, ServiceInv

\* What every client holds and still can find, in every state.
THEOREM Invariance == Spec => []IInv
  BY InvInit, InvStep, PTL DEF Spec

\* A transaction that moves from the mempool into a block between the two queries of the
\* history is found by the second one: no answer misses a movement that the queries would
\* have found together when the request came.
THEOREM HistoryCompleteAlways == Spec => []HistoryComplete
  <1>1. IInv => HistoryComplete
    BY DEF IInv, HistoryInv, HistoryComplete, Answered
  <1>. QED
    BY <1>1, Invariance, PTL

\* The pages of GET /chain, each cut out of a larger collection than the one before, have
\* every block there was, for any limit and wherever the new ones go; what repeats or goes
\* back betrays a stored block that is missing from them.
THEOREM WalkCompleteAlways == Spec => []WalkComplete
  <1>1. IInv => WalkComplete
    <2>. SUFFICES ASSUME WalkInv
                  PROVE  WalkComplete
      BY DEF IInv
    <2>1. DOMAIN walk.heights = 1..Len(walk.heights)
      BY DEF WalkInv
    <2>. QED
      BY <2>1 DEF WalkInv, WalkComplete, Ascends, Missing, Fetched
  <1>. QED
    BY <1>1, Invariance, PTL

\* The three figures of the statistics are read in an order in which a later one never
\* knows less.
THEOREM StatsOrderedAlways == Spec => []StatsOrdered
  BY Invariance, PTL DEF IInv, StatsInv

\* A transaction that is there is found, as it was posted or where the answer says.
THEOREM DetailResolvesAlways == Spec => []DetailResolves
  BY Invariance, PTL DEF IInv, DetailInv

=============================================================================
