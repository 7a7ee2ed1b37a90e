------------------------- MODULE CheckpointsProofs -------------------------
(***************************************************************************)
(* The full validation and the checkpoints: what their properties rest on  *)
(* for a chain of any height, any number of edits, any number of processes *)
(* and any frequencies.                                                    *)
(***************************************************************************)
EXTENDS Checkpoints, FiniteSetTheorems, SequenceTheorems, TLAPS

-----------------------------------------------------------------------------
(* Induction over the naturals, for a set instead of a predicate. *)

LEMMA LeastNumber ==
    ASSUME NEW T, T \subseteq Nat, T # {}
    PROVE  \E n \in T : \A m \in T : n <= m
  <1>. DEFINE R == {ss \in Nat \X Nat : ss[1] < ss[2]}
  <1>1. IsWellFoundedOn(R, Nat)
    BY NatLessThanWellFounded, Zenon DEF OpToRel
  <1>2. \E x \in T : \A y \in T : ~ (<<y, x>> \in R)
    <2>. HIDE DEF R
    <2>. QED
      BY <1>1, WFMin
  <1>3. PICK x \in T : \A y \in T : ~ (<<y, x>> \in R)
    BY <1>2
  <1>4. \A y \in T : ~ (y < x)
    <2>. TAKE y \in T
    <2>1. y \in Nat /\ x \in Nat /\ <<y, x>> \notin R
      BY <1>3
    <2>. QED
      BY <2>1
  <1>. QED
    BY <1>4

\* What holds at the start of an interval and passes from each number to the next holds
\* in the interval.
LEMMA Climb ==
    ASSUME NEW T, NEW m \in Nat, 0 \in T, \A n \in 0..m : n \in T /\ n < m => n + 1 \in T
    PROVE  0..m \subseteq T
  <1>. DEFINE Bad == {n \in 0..m : n \notin T}
  <1>. SUFFICES ASSUME Bad # {}
                PROVE  FALSE
    OBVIOUS
  <1>1. Bad \subseteq Nat
    OBVIOUS
  <1>2. PICK n \in Bad : \A k \in Bad : n <= k
    <2>. HIDE DEF Bad
    <2>. QED
      BY <1>1, LeastNumber
  <1>3. n # 0 /\ n \in 0..m /\ n \notin T
    BY <1>2
  <1>4. n - 1 \in 0..m /\ n - 1 < m /\ (n - 1) + 1 = n
    BY <1>3
  <1>5. n - 1 \in T
    <2>1. n - 1 \notin Bad
      <3>. HIDE DEF Bad
      <3>. QED
        BY <1>2, <1>4
    <2>. QED
      BY <1>4, <2>1
  <1>. QED
    BY <1>3, <1>4, <1>5

-----------------------------------------------------------------------------
(* The cursor. *)

\* How many heights of a set are below one of them.
Below(S, i) == {j \in S : j < i}

LEMMA AscendingIs ==
    \A S : Ascending(S) =
        [k \in 1..Cardinality(S) |-> CHOOSE i \in S : Cardinality(Below(S, i)) = k - 1]
  BY Zenon DEF Ascending, Below

\* A cursor lists every height of a finite set, the lower ones first.
LEMMA AscendingLists ==
    ASSUME NEW S, S \subseteq Nat, IsFiniteSet(S)
    PROVE  LET rows == Ascending(S) IN
           /\ Cardinality(S) \in Nat
           /\ rows \in [1..Cardinality(S) -> S]
           /\ \A i \in S : \E k \in 1..Cardinality(S) : rows[k] = i
           /\ \A k, l \in 1..Cardinality(S) : k < l => rows[k] < rows[l]
           /\ \A k \in 1..Cardinality(S) : Cardinality(Below(S, rows[k])) = k - 1
  <1>. DEFINE m == Cardinality(S)
              rank == [i \in S |-> Cardinality(Below(S, i))]
              rows == Ascending(S)
  <1>1. m \in Nat
    BY FS_CardinalityType
  <1>2. ASSUME NEW i \in S
        PROVE  /\ IsFiniteSet(Below(S, i)) /\ Cardinality(Below(S, i)) \in Nat
               /\ Cardinality(Below(S, i)) < m
    <2>1. IsFiniteSet(Below(S, i)) /\ Cardinality(Below(S, i)) <= m
      BY FS_Subset DEF Below
    <2>2. Below(S, i) # S
      BY DEF Below
    <2>3. Cardinality(Below(S, i)) # m
      BY <2>2, FS_Subset DEF Below
    <2>4. Cardinality(Below(S, i)) \in Nat
      BY <2>1, FS_CardinalityType
    <2>. QED
      BY <1>1, <2>1, <2>3, <2>4
  <1>3. ASSUME NEW i \in S, NEW j \in S, i < j
        PROVE  rank[i] < rank[j]
    <2>. HIDE DEF rank, rows, m
    <2>1. i \in Nat /\ j \in Nat /\ \A x \in S : x \in Nat
      OBVIOUS
    <2>2. \A x \in S : x < i => x < j
      BY <1>3, <2>1
    <2>3. Below(S, i) \cup {i} \subseteq Below(S, j) /\ i \notin Below(S, i)
      <3>1. \A x : x \in Below(S, i) <=> x \in S /\ x < i
        BY DEF Below
      <3>2. \A x : x \in Below(S, j) <=> x \in S /\ x < j
        BY DEF Below
      <3>3. i \in Below(S, j) /\ i \notin Below(S, i)
        BY <1>3, <2>1, <3>1, <3>2
      <3>4. \A x \in Below(S, i) : x \in Below(S, j)
        BY <2>2, <3>1, <3>2
      <3>. QED
        BY <3>3, <3>4
    <2>4. Cardinality(Below(S, i) \cup {i}) = Cardinality(Below(S, i)) + 1
      BY <1>2, <2>3, FS_AddElement
    <2>5. Cardinality(Below(S, i) \cup {i}) <= Cardinality(Below(S, j))
      BY <1>2, <2>3, FS_Subset
    <2>. QED
      BY <1>2, <2>4, <2>5 DEF rank
  <1>4. rank \in [S -> 0..(m - 1)]
    BY <1>1, <1>2
  <1>5. rank \in Injection(S, 0..(m - 1))
    <2>. HIDE DEF rank
    <2>1. \A i, j \in S : rank[i] = rank[j] => i = j
      <3>. SUFFICES ASSUME NEW i \in S, NEW j \in S, rank[i] = rank[j], i # j
                    PROVE  FALSE
        OBVIOUS
      <3>1. i < j \/ j < i
        OBVIOUS
      <3>2. rank[i] \in Nat /\ rank[j] \in Nat
        BY <1>4
      <3>. QED
        BY <1>3, <3>1, <3>2
    <2>. QED
      BY <1>4, <2>1 DEF Injection, IsInjective
  <1>6. rank \in Surjection(S, 0..(m - 1))
    <2>. HIDE DEF rank, rows, m
    <2>1. /\ IsFiniteSet(0..(m - 1))
          /\ Cardinality(0..(m - 1)) = IF 0 > m - 1 THEN 0 ELSE (m - 1) - 0 + 1
      BY <1>1, FS_Interval
    <2>2. Cardinality(0..(m - 1)) = m
      BY <1>1, <2>1
    <2>3. Cardinality(S) = Cardinality(0..(m - 1))
      BY <2>2 DEF m
    <2>. QED
      BY <1>5, <2>1, <2>3, FS_Injection
  <1>7. ASSUME NEW k \in 1..m
        PROVE  rows[k] \in S /\ rank[rows[k]] = k - 1
    <2>1. k - 1 \in 0..(m - 1)
      BY <1>1
    <2>2. \E i \in S : rank[i] = k - 1
      BY <1>6, <2>1 DEF Surjection
    <2>3. rows[k] = CHOOSE i \in S : Cardinality(Below(S, i)) = k - 1
      BY AscendingIs
    <2>. HIDE DEF rows
    <2>. QED
      BY <2>2, <2>3
  <1>8. rows \in [1..m -> S]
    <2>1. rows = [k \in 1..m |-> CHOOSE i \in S : Cardinality(Below(S, i)) = k - 1]
      BY AscendingIs
    <2>. HIDE DEF rows, m
    <2>. QED
      BY <1>7, <2>1
  <1>9. ASSUME NEW i \in S
        PROVE  \E k \in 1..m : rows[k] = i
    <2>. HIDE DEF rows, rank, m
    <2>1. rank[i] + 1 \in 1..m
      BY <1>1, <1>4
    <2>2. rows[rank[i] + 1] \in S /\ rank[rows[rank[i] + 1]] = rank[i]
      BY <1>1, <1>4, <1>7, <2>1
    <2>. QED
      BY <1>5, <2>1, <2>2 DEF Injection, IsInjective
  <1>10. ASSUME NEW k \in 1..m, NEW l \in 1..m, k < l
         PROVE  rows[k] < rows[l]
    <2>. HIDE DEF rows, rank, m
    <2>1. rows[k] \in S /\ rows[l] \in S /\ rank[rows[k]] = k - 1 /\ rank[rows[l]] = l - 1
      BY <1>7
    <2>2. rows[k] \in Nat /\ rows[l] \in Nat
      BY <2>1
    <2>3. rows[k] # rows[l]
      BY <1>1, <1>10, <2>1
    <2>4. ~ (rows[l] < rows[k])
      <3>1. ~ (rank[rows[l]] < rank[rows[k]])
        BY <1>1, <1>10, <2>1
      <3>. QED
        BY <1>3, <2>1, <3>1
    <2>. QED
      BY <2>2, <2>3, <2>4
  <1>11. \A k \in 1..m : Cardinality(Below(S, rows[k])) = k - 1
    <2>. HIDE DEF rows, m
    <2>. QED
      BY <1>7
  <1>. QED
    BY <1>1, <1>8, <1>9, <1>10, <1>11

\* As many numbers as places, when they ascend.
LEMMA AscendingCount ==
    ASSUME NEW n \in Nat, NEW s \in [1..n -> Nat],
           \A k, l \in 1..n : k < l => s[k] < s[l],
           NEW m \in 0..n
    PROVE  /\ IsFiniteSet({s[k] : k \in 1..m})
           /\ Cardinality({s[k] : k \in 1..m}) = m
  <1>. DEFINE T == {s[k] : k \in 1..m}
              f == [k \in 1..m |-> s[k]]
  <1>1. \A k \in 1..m : k \in 1..n /\ s[k] \in Nat
    OBVIOUS
  <1>2. \A k, l \in 1..m : s[k] = s[l] => k = l
    <2>. SUFFICES ASSUME NEW k \in 1..m, NEW l \in 1..m, s[k] = s[l], k # l
                  PROVE  FALSE
      OBVIOUS
    <2>1. k < l \/ l < k
      OBVIOUS
    <2>. QED
      BY <1>1, <2>1
  <1>3. f \in Bijection(1..m, T)
    BY <1>2 DEF Bijection, Injection, Surjection, IsInjective
  <1>4. ExistsBijection(1..m, T)
    BY <1>3 DEF ExistsBijection
  <1>. HIDE DEF T
  <1>5. IsFiniteSet(1..m) /\ m \in Nat
    BY FS_Interval
  <1>6. IsFiniteSet(T)
    BY <1>4, <1>5, FS_Bijection
  <1>7. Cardinality(T) = m
    BY <1>4, <1>5, FS_CountingElements
  <1>. QED
    BY <1>6, <1>7 DEF T

\* A cursor is the only ascending list of a set.
LEMMA AscendingUnique ==
    ASSUME NEW n \in Nat, NEW s \in [1..n -> Nat],
           \A k, l \in 1..n : k < l => s[k] < s[l]
    PROVE  Ascending({s[k] : k \in 1..n}) = s
  <1>0. PICK T : T = {s[k] : k \in 1..n}
    OBVIOUS
  <1>1. IsFiniteSet(T) /\ Cardinality(T) = n
    <2>1. n \in 0..n
      OBVIOUS
    <2>2. /\ IsFiniteSet({s[k] : k \in 1..n})
          /\ Cardinality({s[k] : k \in 1..n}) = n
      BY <2>1, AscendingCount
    <2>. QED
      BY <1>0, <2>2, Zenon
  <1>2. ASSUME NEW k \in 1..n
        PROVE  Cardinality(Below(T, s[k])) = k - 1
    <2>1. \A l \in 1..n : s[l] < s[k] <=> l < k
      <3>. TAKE l \in 1..n
      <3>1. s[l] \in Nat /\ s[k] \in Nat
        OBVIOUS
      <3>2. l < k \/ l = k \/ k < l
        OBVIOUS
      <3>. QED
        BY <3>1, <3>2
    <2>2. Below(T, s[k]) = {s[l] : l \in 1..(k - 1)}
      BY <1>0, <2>1 DEF Below
    <2>3. PICK m \in 0..n : m = k - 1
      OBVIOUS
    <2>4. Cardinality({s[l] : l \in 1..m}) = m
      BY AscendingCount
    <2>. QED
      BY <2>2, <2>3, <2>4, Zenon
  <1>3. ASSUME NEW k \in 1..n
        PROVE  (CHOOSE i \in T : Cardinality(Below(T, i)) = k - 1) = s[k]
    <2>1. s[k] \in T /\ Cardinality(Below(T, s[k])) = k - 1
      BY <1>0, <1>2
    <2>2. \A i \in T : Cardinality(Below(T, i)) = k - 1 => i = s[k]
      <3>. SUFFICES ASSUME NEW l \in 1..n, Cardinality(Below(T, s[l])) = k - 1
                    PROVE  s[l] = s[k]
        BY <1>0
      <3>1. l - 1 = k - 1
        BY <1>2
      <3>2. l = k
        BY <3>1
      <3>. QED
        BY <3>2
    <2>. QED
      BY <2>1, <2>2
  <1>4. Ascending(T) = [k \in 1..n |-> CHOOSE i \in T : Cardinality(Below(T, i)) = k - 1]
    BY <1>1, AscendingIs, Zenon
  <1>5. Ascending(T) = s
    BY <1>3, <1>4
  <1>. QED
    BY <1>0, <1>5, Zenon

-----------------------------------------------------------------------------
(* The blocks the network agreed on. *)

\* The block of height i when g holds those below.
Agreed(g, i) ==
    LET previous == IF i = 0 THEN ZeroHash ELSE g[i - 1].hash IN
    Block(i, i, previous, Digest(i, i, previous))

LEMMA OriginalChosen == Original = CHOOSE g : g = [i \in Height |-> Agreed(g, i)]
  BY DEF Original, Agreed

LEMMA AgreedBelow ==
    \A g, h, i : (i # 0 => g[i - 1] = h[i - 1]) => Agreed(g, i) = Agreed(h, i)
  BY DEF Agreed

\* The recursion has a solution, built height by height.
LEMMA OriginalIs == Original = [i \in Height |-> Agreed(Original, i)]
  <1>. DEFINE T == {n \in 0..MaxHeight : \E g : g = [i \in 0..n |-> Agreed(g, i)]}
  <1>1. MaxHeight \in Nat
    BY StoreAssumption
  <1>2. 0 \in T
    <2>1. [i \in 0..0 |-> Agreed(<<>>, i)] = [i \in 0..0 |-> Agreed([j \in 0..0 |-> Agreed(<<>>, j)], i)]
      <3>1. \A i \in 0..0 : Agreed(<<>>, i) = Agreed([j \in 0..0 |-> Agreed(<<>>, j)], i)
        BY AgreedBelow
      <3>. QED
        BY <3>1, Zenon
    <2>. QED
      BY <1>1, <2>1
  <1>3. ASSUME NEW n \in 0..MaxHeight, n \in T, n < MaxHeight
        PROVE  n + 1 \in T
    <2>1. PICK g : g = [i \in 0..n |-> Agreed(g, i)]
      BY <1>3
    <2>. DEFINE h == [i \in 0..(n + 1) |-> Agreed(g, i)]
    <2>2. ASSUME NEW i \in 0..(n + 1), i # 0
          PROVE  h[i - 1] = g[i - 1]
      <3>1. i - 1 \in 0..n /\ i - 1 \in 0..(n + 1)
        BY <2>2
      <3>2. g[i - 1] = Agreed(g, i - 1)
        BY <2>1, <3>1, Zenon
      <3>. QED
        BY <3>1, <3>2, Zenon
    <2>3. \A i \in 0..(n + 1) : Agreed(g, i) = Agreed(h, i)
      <3>. HIDE DEF h
      <3>. QED
        BY <2>2, AgreedBelow
    <2>4. h = [i \in 0..(n + 1) |-> Agreed(h, i)]
      BY <2>3, Zenon
    <2>5. n + 1 \in 0..MaxHeight
      BY <1>1, <1>3
    <2>. QED
      BY <2>4, <2>5
  <1>4. MaxHeight \in T
    <2>. HIDE DEF T
    <2>1. 0..MaxHeight \subseteq T
      BY <1>1, <1>2, <1>3, Climb
    <2>. QED
      BY <1>1, <2>1
  <1>5. \E g : g = [i \in Height |-> Agreed(g, i)]
    BY <1>4, Zenon DEF Height
  <1>. QED
    BY <1>5, OriginalChosen, Zenon

\* A block of the network, its hash and its link.
LEMMA OriginalBlock ==
    ASSUME NEW i \in Height
    PROVE  /\ i \in Nat
           /\ Original[i] = Block(i, i, Original[i].previous_hash, Original[i].hash)
           /\ Original[i].index = i /\ Original[i].payload = i
           /\ Original[i].hash = Digest(i, i, Original[i].previous_hash)
           /\ i # 0 => i - 1 \in Height /\ Original[i].previous_hash = Original[i - 1].hash
  <1>1. i \in Nat /\ (i # 0 => i - 1 \in Height)
    BY StoreAssumption DEF Height
  <1>2. Original[i] = Agreed(Original, i)
    BY OriginalIs, Zenon
  <1>. QED
    BY <1>1, <1>2 DEF Agreed, Block

-----------------------------------------------------------------------------
(* The documents, whoever stores and edits them. *)

\* Every document keeps the fields of a block and says the height it is stored at.
Shaped ==
    \A i \in Stored :
        /\ i \in Height
        /\ chain[i] = Block(i, chain[i].payload, chain[i].previous_hash, chain[i].hash)

ChainInv == edits \in Nat /\ Shaped

\* A block that is stored: at a free height, on time when no higher one is there.
StoredNow(b) ==
    /\ b.index \in Height
    /\ b = Block(b.index, b.payload, b.previous_hash, b.hash)
    /\ Store(b)

LEMMA StoreEffect ==
    ASSUME NEW b, StoredNow(b)
    PROVE  /\ b.index \in Height /\ b.index \notin Stored
           /\ b = Block(b.index, b.payload, b.previous_hash, b.hash)
           /\ edits' = edits
           /\ Stored' = Stored \cup {b.index}
           /\ \A j \in Stored' : chain'[j] = IF j = b.index THEN b ELSE chain[j]
           /\ late \subseteq late'
           /\ \A j \in Stored : j > b.index => b.index \in late'
  BY DEF StoredNow, Store, Stored

\* What an edit makes of a document: it keeps the fields and its height.
LEMMA ChangeEffect ==
    ASSUME NEW i \in Height, Edit(i), Change(i), Shaped
    PROVE  \E b : /\ i \in Stored
                  /\ b = Block(i, b.payload, b.previous_hash, b.hash)
                  /\ edits' = edits + 1 /\ late' = late
                  /\ Stored' = Stored
                  /\ \A j \in Stored : chain'[j] = IF j = i THEN b ELSE chain[j]
  <1>1. PICK b \in {[chain[i] EXCEPT !.payload = Edited],
                    [chain[i] EXCEPT !.previous_hash = Garbage],
                    [chain[i] EXCEPT !.hash = Garbage],
                    [chain[i] EXCEPT !.hash = ComputedHash(chain[i])]}
                   \cup {[chain[i] EXCEPT !.previous_hash = chain[j].hash] : j \in Stored} :
              chain' = [chain EXCEPT ![i] = b]
    BY DEF Change
  <1>2. i \in Stored /\ edits' = edits + 1 /\ late' = late
    BY DEF Edit, Change
  <1>3. chain[i] = Block(i, chain[i].payload, chain[i].previous_hash, chain[i].hash)
    BY <1>2 DEF Shaped
  <1>4. \/ b = [chain[i] EXCEPT !.payload = Edited]
        \/ \E h : b = [chain[i] EXCEPT !.previous_hash = h]
        \/ \E h : b = [chain[i] EXCEPT !.hash = h]
    BY <1>1
  <1>5. b = Block(i, b.payload, b.previous_hash, b.hash)
    BY <1>3, <1>4 DEF Block
  <1>6. Stored' = Stored /\ \A j \in Stored : chain'[j] = IF j = i THEN b ELSE chain[j]
    BY <1>1, <1>2 DEF Stored
  <1>. QED
    BY <1>2, <1>5, <1>6

\* An index that is edited: both heights count as late.
LEMMA RenumberEffect ==
    ASSUME NEW i \in Height, Edit(i), Renumber(i), Shaped
    PROVE  \E j \in Height : \E b :
               /\ i \in Stored /\ j \notin Stored
               /\ b = Block(j, b.payload, b.previous_hash, b.hash)
               /\ edits' = edits + 1 /\ late' = late \cup {i, j}
               /\ Stored' = (Stored \ {i}) \cup {j}
               /\ \A k \in Stored' : chain'[k] = IF k = j THEN b ELSE chain[k]
  <1>1. PICK j \in Height \ Stored :
            /\ chain' = [k \in (Stored \ {i}) \cup {j} |->
                            IF k = j THEN [chain[i] EXCEPT !.index = j] ELSE chain[k]]
            /\ late' = late \cup {i, j}
    BY DEF Renumber
  <1>2. i \in Stored /\ edits' = edits + 1
    BY DEF Edit
  <1>3. PICK b : b = [chain[i] EXCEPT !.index = j]
    OBVIOUS
  <1>4. chain[i] = Block(i, chain[i].payload, chain[i].previous_hash, chain[i].hash)
    BY <1>2 DEF Shaped
  <1>5. b = Block(j, b.payload, b.previous_hash, b.hash)
    BY <1>3, <1>4 DEF Block
  <1>. QED
    BY <1>1, <1>2, <1>3, <1>5 DEF Stored

\* What a step does to the documents.
LEMMA ChainEffect ==
    ASSUME Next
    PROVE  \/ \E b : StoredNow(b) /\ UNCHANGED <<checkpoints, generator>>
           \/ \E i \in Height : Edit(i) /\ Change(i) /\ UNCHANGED <<checkpoints, generator>>
           \/ \E i \in Height : Edit(i) /\ Renumber(i) /\ UNCHANGED <<checkpoints, generator>>
           \/ UNCHANGED <<chain, edits, late>>
  <1>1. ASSUME NEW i \in Height, StoreStep(i)
        PROVE  \/ \E b : StoredNow(b) /\ UNCHANGED <<checkpoints, generator>>
               \/ Edit(i) /\ Change(i) /\ UNCHANGED <<checkpoints, generator>>
               \/ Edit(i) /\ Renumber(i) /\ UNCHANGED <<checkpoints, generator>>
    <2>1. CASE Store(Original[i])
      <3>1. PICK b : b = Original[i]
        OBVIOUS
      <3>2. b.index = i /\ b = Block(b.index, b.payload, b.previous_hash, b.hash)
        <4>1. /\ Original[i] = Block(i, i, Original[i].previous_hash, Original[i].hash)
              /\ Original[i].index = i /\ Original[i].payload = i
          BY OriginalBlock
        <4>. QED
          BY <3>1, <4>1, Zenon
      <3>3. StoredNow(b)
        BY <2>1, <3>1, <3>2 DEF StoredNow
      <3>. QED
        BY <1>1, <3>3 DEF StoreStep
    <2>2. ASSUME NEW b \in Stray, b.index = i, Store(b)
          PROVE  StoredNow(b)
      BY <2>2, StoreAssumption DEF StoredNow
    <2>. QED
      BY <1>1, <2>1, <2>2 DEF StoreStep, Edit
  <1>. QED
    BY <1>1 DEF Next, Generate, CheckRange, InsertCheckpoint, Abandon

LEMMA ChainInit == Init => ChainInv
  <1>. SUFFICES ASSUME Init PROVE ChainInv
    OBVIOUS
  <1>1. 0 \in Height
    BY StoreAssumption DEF Height
  <1>2. Original[0] = Block(0, 0, Original[0].previous_hash, Original[0].hash)
        /\ Original[0].payload = 0
    BY <1>1, OriginalBlock
  <1>3. Stored = {0} /\ chain[0] = Original[0] /\ edits = 0
    BY DEF Init, StoreInit, Stored
  <1>. QED
    BY <1>1, <1>2, <1>3 DEF ChainInv, Shaped

LEMMA ChainStep == ChainInv /\ [Next]_vars => ChainInv'
  <1>. SUFFICES ASSUME ChainInv, [Next]_vars
                PROVE  ChainInv'
    OBVIOUS
  <1>1. ASSUME NEW b, StoredNow(b)
        PROVE  ChainInv'
    <2>1. /\ b.index \in Height /\ edits' = edits /\ Stored' = Stored \cup {b.index}
          /\ b = Block(b.index, b.payload, b.previous_hash, b.hash)
          /\ \A j \in Stored' : chain'[j] = IF j = b.index THEN b ELSE chain[j]
      BY <1>1, StoreEffect
    <2>. QED
      BY <2>1 DEF ChainInv, Shaped
  <1>2. ASSUME NEW i \in Height, Edit(i), Change(i)
        PROVE  ChainInv'
    <2>1. PICK b : /\ i \in Stored
                   /\ b = Block(i, b.payload, b.previous_hash, b.hash)
                   /\ edits' = edits + 1 /\ Stored' = Stored
                   /\ \A j \in Stored : chain'[j] = IF j = i THEN b ELSE chain[j]
      BY <1>2, ChangeEffect DEF ChainInv
    <2>. QED
      BY <2>1 DEF ChainInv, Shaped
  <1>3. ASSUME NEW i \in Height, Edit(i), Renumber(i)
        PROVE  ChainInv'
    <2>1. PICK j, b : /\ j \in Height
                      /\ b = Block(j, b.payload, b.previous_hash, b.hash)
                      /\ edits' = edits + 1
                      /\ Stored' = (Stored \ {i}) \cup {j}
                      /\ \A k \in Stored' : chain'[k] = IF k = j THEN b ELSE chain[k]
      BY <1>3, RenumberEffect DEF ChainInv
    <2>. QED
      BY <2>1 DEF ChainInv, Shaped
  <1>4. ASSUME UNCHANGED <<chain, edits, late>>
        PROVE  ChainInv'
    BY <1>4 DEF ChainInv, Shaped, Stored
  <1>. QED
    BY <1>1, <1>2, <1>3, <1>4, ChainEffect DEF vars

\* The documents keep their shape, whoever stores and edits them.
THEOREM ChainInvariance == Spec => []ChainInv
  <1>. QED
    BY ChainInit, ChainStep, PTL DEF Spec

-----------------------------------------------------------------------------
(* The full validation. *)

LEMMA StoredFinite ==
    ASSUME Shaped
    PROVE  Stored \subseteq Nat /\ IsFiniteSet(Stored)
  <1>1. Stored \subseteq 0..MaxHeight
    BY DEF Shaped, Height
  <1>2. MaxHeight \in Nat /\ IsFiniteSet(0..MaxHeight)
    BY StoreAssumption, FS_Interval
  <1>3. Stored \in SUBSET (0..MaxHeight)
    BY <1>1
  <1>4. IsFiniteSet(Stored)
    BY <1>2, <1>3, FS_Subset
  <1>. QED
    BY <1>1, <1>2, <1>4

LEMMA ValidChain ==
    ASSUME ValidateChain.chain_valid
    PROVE  \A k \in DOMAIN Ascending(Stored) :
               HashValid(chain[Ascending(Stored)[k]]) /\ LinkValid(Ascending(Stored), k)
  BY DEF ValidateChain

\* A document with a valid hash that is that of a block of the network is that block.
LEMMA Recognised ==
    ASSUME Shaped, NEW i \in Stored, HashValid(chain[i]),
           NEW j \in Height, chain[i].hash = Original[j].hash
    PROVE  i = j /\ chain[i] = Original[i]
  <1>. DEFINE p == chain[i].payload
              l == chain[i].previous_hash
              h == chain[i].hash
              m == Original[j].previous_hash
  <1>1. chain[i] = Block(i, p, l, h)
    BY DEF Shaped
  <1>2. Original[j] = Block(j, j, m, Original[j].hash) /\ Original[j].hash = Digest(j, j, m)
    BY OriginalBlock
  <1>3. h = Digest(chain[i].index, p, l)
    BY Zenon DEF HashValid, ComputedHash
  <1>4. chain[i].index = i
    <2>. HIDE DEF p, l, h
    <2>. QED
      BY <1>1 DEF Block
  <1>5. Digest(i, p, l) = Digest(j, j, m)
    BY <1>2, <1>3, <1>4, Zenon
  <1>6. i = j /\ p = j /\ l = m
    <2>. HIDE DEF p, l, h, m
    <2>. QED
      BY <1>5 DEF Digest
  <1>7. h = Original[j].hash
    OBVIOUS
  <1>. HIDE DEF p, l, h, m
  <1>. QED
    BY <1>1, <1>2, <1>6, <1>7, Zenon

\* In a chain that passes, a block whose hash is the one agreed on pins those below it:
\* its content fixes the hash before it, link by link down to the first.
LEMMA HashPinsBelow ==
    ASSUME Shaped, ValidateChain.chain_valid,
           NEW i \in Stored, chain[i].hash = Original[i].hash
    PROVE  AgreedUpTo(i)
  <1>. DEFINE rows == Ascending(Stored)
              m == Cardinality(Stored)
  <1>1. /\ m \in Nat /\ rows \in [1..m -> Stored]
        /\ \A j \in Stored : \E k \in 1..m : rows[k] = j
        /\ \A k, l \in 1..m : k < l => rows[k] < rows[l]
    BY StoredFinite, AscendingLists
  <1>2. \A k \in 1..m : HashValid(chain[rows[k]]) /\ LinkValid(rows, k)
    <2>1. DOMAIN rows = 1..m
      <3>. HIDE DEF rows, m
      <3>. QED
        BY <1>1
    <2>. QED
      BY <2>1, ValidChain
  <1>. HIDE DEF rows, m
  <1>3. PICK top \in 1..m : rows[top] = i
    BY <1>1
  <1>4. i \in Nat /\ i \in Height
    BY StoredFinite DEF Shaped
  <1>. DEFINE Pinned == {n \in 0..(top - 1) :
                            /\ rows[top - n] = i - n
                            /\ chain[rows[top - n]].hash = Original[rows[top - n]].hash}
  <1>5. 0 \in Pinned
    BY <1>1, <1>3, <1>4
  <1>6. ASSUME NEW n \in 0..(top - 1), n \in Pinned, n < top - 1
        PROVE  n + 1 \in Pinned
    <2>. DEFINE k == top - n
    <2>1. k \in 1..m /\ k - 1 \in 1..m /\ k # 1 /\ top - (n + 1) = k - 1 /\ n + 1 \in 0..(top - 1)
      BY <1>1, <1>6
    <2>2. chain[rows[k]].hash = Original[rows[k]].hash /\ rows[k] = i - n
      BY <1>6
    <2>. HIDE DEF k
    <2>3. rows[k] \in Stored /\ rows[k] \in Height /\ rows[k - 1] \in Stored /\ rows[k - 1] < rows[k]
      <3>1. rows[k] \in Stored /\ rows[k - 1] \in Stored
        BY <1>1, <2>1
      <3>2. rows[k] \in Height
        BY <3>1 DEF Shaped
      <3>3. k - 1 < k
        BY <2>1
      <3>4. rows[k - 1] < rows[k]
        BY <1>1, <2>1, <3>3
      <3>. QED
        BY <3>1, <3>2, <3>4
    <2>4. chain[rows[k]] = Original[rows[k]]
      BY <1>2, <2>1, <2>2, <2>3, Recognised
    <2>5. rows[k - 1] \in Nat /\ rows[k] \in Nat
      BY <2>3, StoredFinite
    <2>6. rows[k] # 0
      BY <2>3, <2>5
    <2>7. /\ rows[k] - 1 \in Height
          /\ Original[rows[k]].previous_hash = Original[rows[k] - 1].hash
      BY <2>3, <2>6, OriginalBlock
    <2>8. chain[rows[k]].previous_hash = chain[rows[k - 1]].hash
      BY <1>2, <2>1 DEF LinkValid
    <2>9. chain[rows[k - 1]].hash = Original[rows[k] - 1].hash
      BY <2>4, <2>7, <2>8
    <2>10. rows[k - 1] = rows[k] - 1
      BY <1>2, <2>1, <2>3, <2>7, <2>9, Recognised
    <2>11. rows[k - 1] = i - (n + 1)
      BY <1>4, <2>2, <2>10
    <2>. QED
      BY <2>1, <2>9, <2>10, <2>11
  <1>7. 0..(top - 1) \subseteq Pinned
    <2>1. top - 1 \in Nat
      BY <1>1
    <2>. HIDE DEF Pinned
    <2>. QED
      BY <1>5, <1>6, <2>1, Climb
  <1>8. ASSUME NEW j \in 0..i, NEW low \in Stored, low <= j
        PROVE  j \in Stored /\ chain[j] = Original[j]
    <2>1. PICK k \in 1..m : rows[k] = low
      BY <1>1
    <2>2. low \in Nat /\ j \in Nat
      BY StoredFinite
    <2>3. k <= top
      BY <1>1, <1>3, <1>4, <1>8, <2>1, <2>2
    <2>4. top - k \in 0..(top - 1) /\ top - (top - k) = k
      BY <1>1, <2>3
    <2>5. low = i - (top - k)
      BY <1>7, <2>1, <2>4
    <2>. DEFINE n == i - j
    <2>6. n \in 0..(top - 1) /\ top - n \in 1..m
      BY <1>1, <1>4, <1>8, <2>2, <2>3, <2>5
    <2>7. rows[top - n] = i - n /\ chain[rows[top - n]].hash = Original[rows[top - n]].hash
      BY <1>7, <2>6
    <2>8. i - n = j
      BY <1>4, <2>2
    <2>. HIDE DEF n
    <2>9. rows[top - n] \in Stored /\ HashValid(chain[rows[top - n]])
      BY <1>1, <1>2, <2>6
    <2>10. j \in Stored /\ j \in Height /\ HashValid(chain[j]) /\ chain[j].hash = Original[j].hash
      BY <2>7, <2>8, <2>9 DEF Shaped
    <2>. QED
      BY <2>10, Recognised
  <1>. QED
    BY <1>8 DEF AgreedUpTo

\* ChainCommits: for a chain of any height with any gaps and any number of edits, an agreed
\* hash in a collection that passes the full validation vouches for what is before it.
LEMMA Commits == ChainInv => ChainCommits
  BY HashPinsBelow DEF ChainInv, ChainCommits

\* When validate_chain_integrity passes, a hash that is the agreed one pins every document
\* before it, and none is missing (block_validation_service.py:79).
THEOREM ChainCommitsAlways == Spec => []ChainCommits
  <1>. QED
    BY ChainInvariance, Commits, PTL

-----------------------------------------------------------------------------
(* The collection of checkpoints. *)

\* Whatever a process has read before, the insertion itself refuses a second document.
LEMMA OnePerRangeStep == OneCheckpointPerRange /\ [Next]_vars => OneCheckpointPerRange'
  <1>. SUFFICES ASSUME OneCheckpointPerRange, [Next]_vars
                PROVE  OneCheckpointPerRange'
    OBVIOUS
  <1>1. ASSUME NEW p \in Proc, InsertCheckpoint(p)
        PROVE  OneCheckpointPerRange'
    <2>. DEFINE r == Head(generator[p].ranges)
                doc == CheckpointDoc(r)
    <2>1. CASE UNCHANGED checkpoints
      BY <2>1 DEF OneCheckpointPerRange
    <2>2. CASE ~RangeTaken(r) /\ checkpoints' = checkpoints \cup {doc}
      <3>1. doc.from_block = r.from_block /\ doc.to_block = r.to_block
        BY DEF CheckpointDoc
      <3>2. \A c \in checkpoints : ~(c.from_block = r.from_block /\ c.to_block = r.to_block)
        BY <2>2 DEF RangeTaken
      <3>. HIDE DEF r, doc
      <3>. QED
        BY <2>2, <3>1, <3>2 DEF OneCheckpointPerRange
    <2>. QED
      BY <1>1, <2>1, <2>2 DEF InsertCheckpoint
  <1>2. CASE UNCHANGED checkpoints
    BY <1>2 DEF OneCheckpointPerRange
  <1>. QED
    BY <1>1, <1>2 DEF Next, StoreStep, Generate, CheckRange, Abandon, vars

\* However many processes generate checkpoints at once, the unique index leaves one to a range
\* (checkpoint_service.py:74).
THEOREM OneCheckpointPerRangeAlways == Spec => []OneCheckpointPerRange
  <1>1. Init => OneCheckpointPerRange
    BY DEF Init, OneCheckpointPerRange
  <1>. QED
    BY <1>1, OnePerRangeStep, PTL DEF Spec

-----------------------------------------------------------------------------
(* The ranges that are cut, checked and inserted. *)

\* Two multiples of a frequency are a frequency apart.
LEMMA Apart ==
    ASSUME NEW f \in Nat \ {0}, NEW g \in Nat, NEW h \in Nat, g < h
    PROVE  g * f + f <= h * f
  <1>1. h * f = (g + 1) * f + (h - (g + 1)) * f
    OBVIOUS
  <1>2. (g + 1) * f = g * f + f
    OBVIOUS
  <1>3. (h - (g + 1)) \in Nat
    OBVIOUS
  <1>4. (h - (g + 1)) * f \in Nat
    BY <1>3
  <1>5. g * f \in Nat /\ h * f \in Nat
    OBVIOUS
  <1>. QED
    BY <1>1, <1>2, <1>4, <1>5

\* A group of a frequency, counted from the first block.
Group(r) ==
    \E f \in Frequency, g \in Nat : r.from_block = g * f /\ r.to_block = g * f + f - 1

\* A range ends at a block that was stored when it was cut, and is a group if every height
\* up to that block came in its turn.
Placed(r) ==
    /\ r.from_block \in Height /\ r.to_block \in Height /\ r.from_block <= r.to_block
    /\ r.to_block \in Stored \cup late
    /\ Steady(r.to_block) => Group(r)

\* No block came late in a range, and nothing was edited.
OnTime(r) == edits = 0 /\ late \cap (r.from_block..r.to_block) = {}

HashesUnder(r) == Hashes(Covered(r.from_block, r.to_block))

\* A range in the hands of a process, and a checkpoint.  While all is on time both hold the
\* hashes as they are stored.
GoodRange(r) == Placed(r) /\ (OnTime(r) => r.hashes = HashesUnder(r))
GoodCheckpoint(c) == Placed(c) /\ (OnTime(c) => c.merkle_root = ComputeMerkleRoot(HashesUnder(c)))

\* What a process that generates holds: good ranges, and one while it is not idle.
GoodWork(w) ==
    /\ w = [pc |-> w.pc, ranges |-> w.ranges]
    /\ w.pc # "idle" => w.ranges # <<>>
    /\ \E R : w.ranges \in Seq(R) /\ \A r \in R : GoodRange(r)

CheckpointInv ==
    /\ generator = [p \in Proc |-> generator[p]]
    /\ \A p \in Proc : GoodWork(generator[p])
    /\ \A c \in checkpoints : GoodCheckpoint(c)

\* The cursor over the collection, with the places of the heights that came in their turn.
LEMMA Cursor ==
    ASSUME Shaped
    PROVE  LET rows == Ascending(Stored)
               n == Cardinality(Stored) IN
           /\ n \in Nat /\ rows \in [1..n -> Nat] /\ rows \in [1..n -> Stored]
           /\ \A i \in Stored : \E k \in 1..n : rows[k] = i
           /\ \A k, l \in 1..n : k < l => rows[k] < rows[l]
           /\ \A k \in 1..n : 0..rows[k] \subseteq Stored =>
                  \A l \in 1..k : rows[l] = l - 1
  <1>. DEFINE rows == Ascending(Stored)
              n == Cardinality(Stored)
  <1>1. Stored \subseteq Nat
    BY StoredFinite
  <1>2. /\ n \in Nat /\ rows \in [1..n -> Stored]
        /\ \A i \in Stored : \E k \in 1..n : rows[k] = i
        /\ \A k, l \in 1..n : k < l => rows[k] < rows[l]
        /\ \A k \in 1..n : Cardinality(Below(Stored, rows[k])) = k - 1
    BY StoredFinite, AscendingLists
  <1>. HIDE DEF rows, n
  <1>3. rows \in [1..n -> Nat]
    BY <1>1, <1>2
  <1>4. ASSUME NEW k \in 1..n, 0..rows[k] \subseteq Stored, NEW l \in 1..k
        PROVE  rows[l] = l - 1
    <2>1. l \in 1..n /\ rows[l] \in Nat /\ rows[k] \in Nat
      BY <1>2, <1>3
    <2>2. l = k \/ rows[l] < rows[k]
      BY <1>2, <2>1
    <2>3. PICK r, q \in Nat : r = rows[l] /\ q = rows[k]
      BY <2>1
    <2>4. r \in Nat /\ r <= q /\ 0..q \subseteq Stored
      BY <1>4, <2>1, <2>2, <2>3
    <2>5. \A j \in Nat : j < r => j \in Stored
      BY <2>4
    <2>6. Below(Stored, r) = 0..(r - 1)
      <3>1. \A j : j \in Below(Stored, r) <=> j \in Stored /\ j < r
        BY DEF Below
      <3>2. \A j : j \in 0..(r - 1) <=> j \in Nat /\ j < r
        BY <2>4
      <3>3. \A j : j \in Below(Stored, r) <=> j \in 0..(r - 1)
        BY <1>1, <2>5, <3>1, <3>2
      <3>. QED
        BY <3>3, Zenon
    <2>7. Cardinality(0..(r - 1)) = IF 0 > r - 1 THEN 0 ELSE (r - 1) - 0 + 1
      BY <2>4, FS_Interval
    <2>8. Cardinality(0..(r - 1)) = r
      BY <2>4, <2>7
    <2>9. Cardinality(Below(Stored, rows[l])) = l - 1
      BY <1>2, <2>1
    <2>. QED
      BY <2>3, <2>6, <2>8, <2>9, Zenon
  <1>. QED
    BY <1>2, <1>3, <1>4 DEF rows, n

\* A stretch of the cursor is the cursor of the heights between its ends.
LEMMA Stretch ==
    ASSUME Shaped, NEW a \in Nat, NEW f \in Nat \ {0}, a + f <= Cardinality(Stored)
    PROVE  LET s == SubSeq(Ascending(Stored), a + 1, a + f) IN
           /\ s \in Seq(Nat) /\ Len(s) = f
           /\ \A k \in 1..f : s[k] = Ascending(Stored)[a + k]
           /\ s[1] \in Stored /\ s[f] \in Stored /\ s[1] <= s[f]
           /\ s = Covered(s[1], s[f])
  <1>. DEFINE rows == Ascending(Stored)
              n == Cardinality(Stored)
              s == SubSeq(rows, a + 1, a + f)
  <1>1. /\ n \in Nat /\ rows \in [1..n -> Nat] /\ rows \in [1..n -> Stored]
        /\ \A i \in Stored : \E k \in 1..n : rows[k] = i
        /\ \A k, l \in 1..n : k < l => rows[k] < rows[l]
    BY Cursor
  <1>2. s = SubSeq(rows, a + 1, a + f) /\ a + f <= n
    OBVIOUS
  <1>. HIDE DEF rows, n, s
  <1>3. s \in Seq(Nat) /\ Len(s) = f /\ \A k \in 1..f : s[k] = rows[a + k]
    <2>1. \A i \in (a + 1)..(a + f) : rows[i] \in Nat
      BY <1>1, <1>2
    <2>2. rows \in Seq(Nat)
      BY <1>1
    <2>3. /\ SubSeq(rows, a + 1, a + f) \in Seq(Nat)
          /\ Len(SubSeq(rows, a + 1, a + f)) = IF a + 1 <= a + f THEN (a + f) - (a + 1) + 1 ELSE 0
          /\ \A i \in 1..((a + f) - (a + 1) + 1) : SubSeq(rows, a + 1, a + f)[i] = rows[(a + 1) + i - 1]
      BY <2>1, <2>2, SubSeqProperties
    <2>4. a + 1 <= a + f /\ (a + f) - (a + 1) + 1 = f /\ \A k \in 1..f : (a + 1) + k - 1 = a + k
      OBVIOUS
    <2>5. s \in Seq(Nat) /\ Len(s) = f
      BY <1>2, <2>3, <2>4
    <2>6. \A k \in 1..f : s[k] = rows[(a + 1) + k - 1]
      BY <1>2, <2>3, <2>4, Zenon
    <2>. QED
      BY <2>4, <2>5, <2>6
  <1>4. \A k \in 1..f : a + k \in 1..n
    BY <1>1, <1>2
  <1>5. \A k \in 1..f : s[k] \in Stored /\ s[k] \in Nat
    BY <1>1, <1>3, <1>4
  <1>6. \A k, l \in 1..f : k < l => s[k] < s[l]
    <2>. SUFFICES ASSUME NEW k \in 1..f, NEW l \in 1..f, k < l
                  PROVE  s[k] < s[l]
      OBVIOUS
    <2>1. a + k \in 1..n /\ a + l \in 1..n
      BY <1>4
    <2>3. a + k < a + l
      OBVIOUS
    <2>2. rows[a + k] < rows[a + l]
      BY <1>1, <2>1, <2>3
    <2>. QED
      BY <1>3, <2>2
  <1>7. 1 \in 1..f /\ f \in 1..f /\ \A k \in 1..f : s[1] <= s[k] /\ s[k] <= s[f]
    <2>1. 1 \in 1..f /\ f \in 1..f
      OBVIOUS
    <2>2. ASSUME NEW k \in 1..f
          PROVE  s[1] <= s[k] /\ s[k] <= s[f]
      <3>1. (k = 1 \/ 1 < k) /\ (k = f \/ k < f)
        OBVIOUS
      <3>2. s[1] \in Nat /\ s[k] \in Nat /\ s[f] \in Nat
        BY <1>5, <2>1
      <3>3. (1 < k => s[1] < s[k]) /\ (k < f => s[k] < s[f])
        BY <1>6, <2>1
      <3>4. PICK x, y, z \in Nat : x = s[1] /\ y = s[k] /\ z = s[f]
        BY <3>2
      <3>5. x \in Nat /\ y \in Nat /\ (x = y \/ x < y) /\ (y = z \/ y < z)
        BY <3>1, <3>2, <3>3, <3>4
      <3>6. x <= y /\ y <= z
        BY <3>5
      <3>. QED
        BY <3>4, <3>6, Zenon
    <2>. QED
      BY <2>1, <2>2
  <1>8. Stored \cap (s[1]..s[f]) = {s[k] : k \in 1..f}
    <2>1. ASSUME NEW k \in 1..f
          PROVE  s[k] \in Stored \cap (s[1]..s[f])
      BY <1>5, <1>7
    <2>2. ASSUME NEW i \in Stored, s[1] <= i, i <= s[f]
          PROVE  \E k \in 1..f : i = s[k]
      <3>1. PICK l \in 1..n : rows[l] = i
        BY <1>1
      <3>2. s[1] = rows[a + 1] /\ s[f] = rows[a + f]
        BY <1>3, <1>7
      <3>3. a + 1 \in 1..n /\ a + f \in 1..n /\ rows[a + 1] \in Nat /\ rows[a + f] \in Nat /\ i \in Nat
        BY <1>1, <1>4, <1>7, <3>1
      <3>4. ~(l < a + 1) /\ ~(a + f < l)
        BY <1>1, <2>2, <3>1, <3>2, <3>3
      <3>5. l - a \in 1..f /\ a + (l - a) = l
        BY <1>1, <3>4
      <3>. QED
        BY <1>3, <3>1, <3>5
    <2>3. s[1] \in Nat /\ s[f] \in Nat
      BY <1>5, <1>7
    <2>4. PICK x, z \in Nat : x = s[1] /\ z = s[f]
      BY <2>3
    <2>5. \A i \in Stored \cap (x..z) : i \in Stored /\ x <= i /\ i <= z
      BY <2>3, <2>4
    <2>6. \A i \in Stored \cap (s[1]..s[f]) : \E k \in 1..f : i = s[k]
      BY <2>2, <2>4, <2>5
    <2>7. PICK A, B : A = Stored \cap (s[1]..s[f]) /\ B = {s[k] : k \in 1..f}
      OBVIOUS
    <2>8. \A i \in A : i \in B
      BY <2>6, <2>7
    <2>9. \A i \in B : i \in A
      BY <2>1, <2>7
    <2>10. A = B
      BY <2>8, <2>9
    <2>. QED
      BY <2>7, <2>10, Zenon
  <1>9. s \in [1..f -> Nat]
    BY <1>3
  <1>10. Ascending({s[k] : k \in 1..f}) = s
    <2>1. f \in Nat
      OBVIOUS
    <2>. QED
      BY <1>6, <1>9, <2>1, AscendingUnique
  <1>11. Covered(s[1], s[f]) = s
    BY <1>8, <1>10, Zenon DEF Covered
  <1>. QED
    BY <1>3, <1>5, <1>7, <1>11 DEF rows, s

\* The groups that a snapshot is cut into, all of them good.
LEMMA RangesGood ==
    ASSUME ChainInv, NEW f \in Frequency, Cardinality(Stored) >= f
    PROVE  \E R : /\ BuildRanges(Ascending(Stored), f) \in Seq(R)
                  /\ \A r \in R : GoodRange(r)
                  /\ BuildRanges(Ascending(Stored), f) # <<>>
  <1>. DEFINE rows == Ascending(Stored)
              n == Cardinality(Stored)
  <1>1. /\ n \in Nat /\ rows \in [1..n -> Nat]
        /\ \A k \in 1..n : 0..rows[k] \subseteq Stored => \A l \in 1..k : rows[l] = l - 1
    BY Cursor DEF ChainInv
  <1>2. f \in Nat \ {0} /\ n >= f
    BY CheckpointAssumption
  <1>. HIDE DEF n
  <1>3. Len(rows) = n
    <2>. HIDE DEF rows
    <2>. QED
      BY <1>1
  <1>. HIDE DEF rows
  <1>. DEFINE groups == n \div f
              group(g) == SubSeq(rows, (g - 1) * f + 1, g * f)
              range(g) == [from_block |-> group(g)[1], to_block |-> group(g)[f],
                           hashes |-> Hashes(group(g)), last_hash |-> chain[group(g)[f]].hash]
              R == {range(g) : g \in 1..groups}
  <1>4. groups \in Nat \ {0} /\ f * groups <= n
    BY <1>1, <1>2
  <1>5. BuildRanges(rows, f) = [g \in 1..groups |-> range(g)]
    BY <1>3, Zenon DEF BuildRanges
  <1>6. ASSUME NEW g \in 1..groups
        PROVE  GoodRange(range(g))
    <2>. DEFINE a == (g - 1) * f
    <2>1. a \in Nat /\ g * f = a + f
      BY <1>2, <1>4
    <2>2. a + f <= n
      <3>1. CASE g = groups
        BY <1>2, <1>4, <2>1, <3>1
      <3>2. CASE g # groups
        <4>1. g \in Nat /\ groups \in Nat /\ g < groups
          BY <1>4, <3>2
        <4>2. g * f + f <= groups * f
          BY <1>2, <4>1, Apart
        <4>. QED
          BY <1>1, <1>2, <1>4, <2>1, <4>2
      <3>. QED
        BY <3>1, <3>2
    <2>. DEFINE s == group(g)
    <2>3. s = SubSeq(rows, a + 1, a + f)
      BY <2>1
    <2>. HIDE DEF a, groups, s
    <2>4. /\ s \in Seq(Nat) /\ Len(s) = f
          /\ \A k \in 1..f : s[k] = rows[a + k]
          /\ s[1] \in Stored /\ s[f] \in Stored /\ s[1] <= s[f]
          /\ s = Covered(s[1], s[f])
      <3>1. a + f <= Cardinality(Stored) /\ s = SubSeq(Ascending(Stored), a + 1, a + f)
        BY <2>2, <2>3 DEF n, rows
      <3>2. Shaped /\ f \in Nat \ {0} /\ a \in Nat
        BY <1>2, <2>1 DEF ChainInv
      <3>3. /\ s \in Seq(Nat) /\ Len(s) = f
            /\ \A k \in 1..f : s[k] = Ascending(Stored)[a + k]
            /\ s[1] \in Stored /\ s[f] \in Stored /\ s[1] <= s[f]
            /\ s = Covered(s[1], s[f])
        BY <3>1, <3>2, Stretch, Zenon
      <3>. QED
        BY <3>3 DEF rows
    <2>. USE DEF s
    <2>. DEFINE r == range(g)
    <2>5. /\ r.from_block = s[1] /\ r.to_block = s[f] /\ r.hashes = Hashes(s)
      OBVIOUS
    <2>. HIDE DEF s, r
    <2>6. r.from_block \in Height /\ r.to_block \in Height /\ r.from_block <= r.to_block
      BY <2>4, <2>5 DEF ChainInv, Shaped
    <2>7. ASSUME Steady(r.to_block)
          PROVE  Group(r)
      <3>1. 0..s[f] \subseteq Stored
        BY <2>5, <2>7 DEF Steady
      <3>2. s[f] = rows[a + f] /\ s[1] = rows[a + 1] /\ a + f \in 1..n /\ a + 1 \in 1..(a + f)
            /\ a + f \in 1..(a + f)
        BY <1>1, <1>2, <2>1, <2>2, <2>4
      <3>3. s[f] = a + f - 1 /\ s[1] = (a + 1) - 1
        <4>1. 0..rows[a + f] \subseteq Stored
          BY <3>1, <3>2
        <4>2. \A l \in 1..(a + f) : rows[l] = l - 1
          BY <1>1, <3>2, <4>1
        <4>3. rows[a + f] = (a + f) - 1 /\ rows[a + 1] = (a + 1) - 1
          BY <3>2, <4>2
        <4>4. (a + f) - 1 = a + f - 1
          BY <1>2, <2>1
        <4>. QED
          BY <3>2, <4>3, <4>4, Zenon
      <3>4. g - 1 \in Nat /\ a = (g - 1) * f
        BY <1>4 DEF a
      <3>5. r.from_block = (g - 1) * f /\ r.to_block = (g - 1) * f + f - 1
        BY <2>1, <2>5, <3>3, <3>4
      <3>. QED
        BY <3>4, <3>5 DEF Group
    <2>8. r.hashes = HashesUnder(r)
      BY <2>4, <2>5, Zenon DEF HashesUnder
    <2>9. GoodRange(r)
      BY <2>4, <2>5, <2>6, <2>7, <2>8 DEF GoodRange, Placed
    <2>. QED
      BY <2>9 DEF r
  <1>. HIDE DEF range, groups
  <1>7. [g \in 1..groups |-> range(g)] \in Seq(R) /\ [g \in 1..groups |-> range(g)] # <<>>
    BY <1>4
  <1>8. \A r \in R : GoodRange(r)
    BY <1>6
  <1>. QED
    BY <1>5, <1>7, <1>8 DEF rows

\* Steady and OnTime in the next state.
SteadyNext(i) == \A j \in 0..i : j \in Stored' /\ j \notin late'
OnTimeNext(r) == edits' = 0 /\ late' \cap (r.from_block..r.to_block) = {}

\* What was late stays so, and edits are only counted up.
LEMMA LateStays ==
    ASSUME ChainInv, [Next]_vars
    PROVE  /\ late \subseteq late'
           /\ edits' = 0 => edits = 0
           /\ \A i \in Stored : i \in Stored' \cup late'
           /\ \A i \in Stored', j \in Stored : i \notin Stored /\ i < j => i \in late'
  <1>1. ASSUME NEW b, StoredNow(b)
        PROVE  /\ late \subseteq late' /\ edits' = edits
               /\ Stored' = Stored \cup {b.index}
               /\ \A j \in Stored : b.index < j => b.index \in late'
    <2>1. Stored \subseteq Nat
      BY StoredFinite DEF ChainInv
    <2>2. b.index \in Nat
      BY <1>1, StoreEffect, StoreAssumption DEF Height
    <2>3. /\ late \subseteq late' /\ edits' = edits /\ Stored' = Stored \cup {b.index}
          /\ \A j \in Stored : j > b.index => b.index \in late'
      BY <1>1, StoreEffect
    <2>. QED
      BY <2>1, <2>2, <2>3
  <1>2. ASSUME NEW i \in Height, Edit(i), Change(i)
        PROVE  late' = late /\ edits' = edits + 1 /\ Stored' = Stored
    BY <1>2, ChangeEffect DEF ChainInv
  <1>3. ASSUME NEW i \in Height, Edit(i), Renumber(i)
        PROVE  \E j \in Height : /\ late' = late \cup {i, j} /\ edits' = edits + 1
                                 /\ Stored' = (Stored \ {i}) \cup {j}
    BY <1>3, RenumberEffect DEF ChainInv
  <1>4. UNCHANGED <<chain, edits, late>> => late' = late /\ edits' = edits /\ Stored' = Stored
    BY DEF Stored
  <1>5. edits \in Nat
    BY DEF ChainInv
  <1>6. \/ late \subseteq late' /\ edits' = edits
           /\ \E i : Stored' = Stored \cup {i} /\ \A j \in Stored : i < j => i \in late'
        \/ late' = late /\ (edits' = edits + 1 \/ edits' = edits) /\ Stored' = Stored
        \/ \E i, j \in Height : /\ late' = late \cup {i, j} /\ edits' = edits + 1
                                /\ Stored' = (Stored \ {i}) \cup {j}
    BY <1>1, <1>2, <1>3, <1>4, ChainEffect DEF vars
  <1>. QED
    BY <1>5, <1>6

\* Where all heights are in their turn they were so before, up to a block that was stored.
LEMMA SteadyBefore ==
    ASSUME ChainInv, [Next]_vars, NEW i \in Height, i \in Stored \cup late, SteadyNext(i)
    PROVE  Steady(i)
  <1>. SUFFICES ASSUME NEW j \in 0..i
                PROVE  j \in Stored /\ j \notin late
    BY DEF Steady
  <1>1. i \in Nat /\ i \in 0..i
    BY StoreAssumption DEF Height
  <1>2. j \in Stored' /\ j \notin late' /\ i \notin late'
    BY <1>1 DEF SteadyNext
  <1>3. j \notin late /\ i \in Stored
    BY <1>2, LateStays
  <1>4. j = i \/ j < i
    BY <1>1
  <1>. QED
    BY <1>2, <1>3, <1>4, LateStays

LEMMA PlacedStays ==
    ASSUME ChainInv, [Next]_vars, NEW r, Placed(r)
    PROVE  Placed(r)'
  <1>1. r.to_block \in Stored' \cup late'
    BY LateStays DEF Placed
  <1>2. SteadyNext(r.to_block) => Group(r)
    BY SteadyBefore DEF Placed
  <1>. QED
    BY <1>1, <1>2 DEF Placed, Steady, SteadyNext, Group

\* While all is on time the blocks of a range are those there were.
LEMMA HashesStay ==
    ASSUME ChainInv, [Next]_vars, NEW r, Placed(r), OnTimeNext(r)
    PROVE  OnTime(r) /\ HashesUnder(r)' = HashesUnder(r)
  <1>. DEFINE a == r.from_block
              c == r.to_block
              S == Stored \cap (a..c)
              rows == Ascending(S)
  <1>1. a \in Nat /\ c \in Nat /\ a <= c
    BY StoreAssumption DEF Placed, Height
  <1>2. edits' = 0 /\ edits = 0 /\ late \subseteq late' /\ late' \cap (a..c) = {}
    BY LateStays DEF OnTimeNext
  <1>3. c \in Stored
    BY <1>1, <1>2 DEF Placed
  <1>4. OnTime(r)
    BY <1>2 DEF OnTime
  <1>5. Stored' \cap (a..c) = S /\ \A i \in S : chain'[i] = chain[i]
    <2>1. ASSUME NEW b, StoredNow(b)
          PROVE  Stored' \cap (a..c) = S /\ \A i \in S : chain'[i] = chain[i]
      <3>1. /\ b.index \in Nat /\ b.index \notin Stored /\ Stored' = Stored \cup {b.index}
            /\ \A j \in Stored' : chain'[j] = IF j = b.index THEN b ELSE chain[j]
            /\ c > b.index => b.index \in late'
        BY <1>3, <2>1, StoreEffect, StoreAssumption DEF Height
      <3>2. b.index \notin a..c
        BY <1>1, <1>2, <1>3, <3>1
      <3>. QED
        BY <3>1, <3>2
    <2>2. ASSUME NEW i \in Height, Edit(i)
          PROVE  FALSE
      BY <1>2, <2>2 DEF Edit
    <2>3. CASE UNCHANGED <<chain, edits, late>>
      BY <2>3 DEF Stored
    <2>. QED
      BY <2>1, <2>2, <2>3, ChainEffect DEF vars
  <1>6. S \subseteq Nat /\ IsFiniteSet(S)
    <2>1. Stored \subseteq Nat /\ IsFiniteSet(Stored)
      BY StoredFinite DEF ChainInv
    <2>2. S \in SUBSET Stored
      OBVIOUS
    <2>3. IsFiniteSet(S)
      <3>. HIDE DEF S
      <3>. QED
        BY <2>1, <2>2, FS_Subset
    <2>. QED
      BY <2>1, <2>2, <2>3
  <1>. HIDE DEF S
  <1>7. rows \in [1..Cardinality(S) -> S]
    BY <1>6, AscendingLists
  <1>. HIDE DEF rows
  <1>8. \A k \in DOMAIN rows : chain'[rows[k]].hash = chain[rows[k]].hash
    BY <1>5, <1>7
  <1>9. HashesUnder(r) = [k \in DOMAIN rows |-> chain[rows[k]].hash]
    BY Zenon DEF HashesUnder, Hashes, Covered, rows, S
  <1>10. HashesUnder(r)' = [k \in DOMAIN rows |-> chain'[rows[k]].hash]
    <2>1. rows = Ascending(Stored' \cap (a..c))
      BY <1>5, Zenon DEF rows
    <2>. QED
      BY <2>1, Zenon DEF HashesUnder, Hashes, Covered
  <1>11. HashesUnder(r)' = HashesUnder(r)
    BY <1>8, <1>9, <1>10, Zenon
  <1>. QED
    BY <1>4, <1>11

LEMMA GoodRangeStays ==
    ASSUME ChainInv, [Next]_vars, NEW r, GoodRange(r)
    PROVE  GoodRange(r)'
  <1>1. Placed(r)' /\ Placed(r)
    BY PlacedStays DEF GoodRange
  <1>2. OnTimeNext(r) => r.hashes = HashesUnder(r)'
    BY <1>1, HashesStay, Zenon DEF GoodRange
  <1>3. OnTime(r)' => r.hashes = HashesUnder(r)'
    BY <1>2, Zenon DEF OnTime, OnTimeNext
  <1>. QED
    BY <1>1, <1>3, Zenon DEF GoodRange

LEMMA GoodCheckpointStays ==
    ASSUME ChainInv, [Next]_vars, NEW c, GoodCheckpoint(c)
    PROVE  GoodCheckpoint(c)'
  <1>1. Placed(c)' /\ Placed(c)
    BY PlacedStays DEF GoodCheckpoint
  <1>2. OnTimeNext(c) => OnTime(c) /\ HashesUnder(c)' = HashesUnder(c)
    BY <1>1, HashesStay
  <1>3. OnTimeNext(c) => c.merkle_root = ComputeMerkleRoot(HashesUnder(c)')
    BY <1>2, Zenon DEF GoodCheckpoint
  <1>4. OnTime(c)' => c.merkle_root = ComputeMerkleRoot(HashesUnder(c))'
    BY <1>3, Zenon DEF OnTime, OnTimeNext, ComputeMerkleRoot
  <1>. QED
    BY <1>1, <1>4, Zenon DEF GoodCheckpoint

LEMMA GoodWorkStays ==
    ASSUME ChainInv, [Next]_vars, NEW w, GoodWork(w)
    PROVE  GoodWork(w)'
  <1>1. PICK R : w.ranges \in Seq(R) /\ \A r \in R : GoodRange(r)
    BY DEF GoodWork
  <1>2. \A r \in R : GoodRange(r)'
    BY <1>1, GoodRangeStays
  <1>. QED
    BY <1>1, <1>2 DEF GoodWork

\* The work of a process after one of its steps.
LEMMA WorkReplaced ==
    ASSUME ChainInv, CheckpointInv, [Next]_vars, NEW p \in Proc, NEW w,
           GoodWork(w), generator' = [generator EXCEPT ![p] = w]
    PROVE  /\ generator' = [q \in Proc |-> generator'[q]]
           /\ \A q \in Proc : GoodWork(generator[q])'
  <1>1. generator' = [q \in Proc |-> generator'[q]]
    BY DEF CheckpointInv
  <1>2. ASSUME NEW q \in Proc
        PROVE  GoodWork(generator[q])'
    <2>1. CASE q = p
      <3>1. generator'[q] = w
        BY <2>1 DEF CheckpointInv
      <3>2. GoodWork(w)'
        BY GoodWorkStays
      <3>. QED
        BY <3>1, <3>2 DEF GoodWork
    <2>2. CASE q # p
      <3>1. PICK u : u = generator[q]
        OBVIOUS
      <3>2. generator'[q] = u
        BY <2>2, <3>1 DEF CheckpointInv
      <3>3. GoodWork(u)
        BY <3>1 DEF CheckpointInv
      <3>4. GoodWork(u)'
        BY <3>3, GoodWorkStays
      <3>. QED
        BY <3>2, <3>4 DEF GoodWork
    <2>. QED
      BY <2>1, <2>2
  <1>. QED
    BY <1>1, <1>2

LEMMA RestingGood == GoodWork(Resting)
  <1>1. Resting.ranges \in Seq({}) /\ \A r \in {} : GoodRange(r)
    BY DEF Resting
  <1>2. Resting = [pc |-> Resting.pc, ranges |-> Resting.ranges] /\ Resting.pc = "idle"
    BY DEF Resting
  <1>. QED
    BY <1>1, <1>2 DEF GoodWork

\* The first range of a process at work, and what is left after it.
LEMMA HeadGood ==
    ASSUME NEW w, GoodWork(w), w.pc # "idle"
    PROVE  /\ GoodRange(Head(w.ranges))
           /\ GoodWork(IF Tail(w.ranges) = <<>> THEN Resting
                       ELSE [pc |-> "check", ranges |-> Tail(w.ranges)])
  <1>1. PICK R : w.ranges \in Seq(R) /\ \A r \in R : GoodRange(r)
    BY DEF GoodWork
  <1>2. w.ranges # <<>>
    BY DEF GoodWork
  <1>3. Head(w.ranges) \in R /\ Tail(w.ranges) \in Seq(R)
    BY <1>1, <1>2, HeadTailProperties
  <1>4. GoodRange(Head(w.ranges))
    BY <1>1, <1>3
  <1>5. GoodWork(Resting)
    BY RestingGood
  <1>6. ASSUME Tail(w.ranges) # <<>>
        PROVE  GoodWork([pc |-> "check", ranges |-> Tail(w.ranges)])
    BY <1>1, <1>3, <1>6 DEF GoodWork
  <1>. QED
    BY <1>4, <1>5, <1>6

LEMMA CheckpointInit == Init => CheckpointInv
  BY RestingGood DEF Init, CheckpointInv

\* A checkpoint is made of the range at the head, as it was read.
LEMMA DocGood ==
    ASSUME NEW p, NEW r, GoodRange(r)
    PROVE  GoodCheckpoint(CheckpointDoc(r))
  <1>. DEFINE doc == CheckpointDoc(r)
  <1>1. /\ doc.from_block = r.from_block /\ doc.to_block = r.to_block
        /\ doc.merkle_root = ComputeMerkleRoot(r.hashes)
    BY DEF CheckpointDoc
  <1>. HIDE DEF doc
  <1>2. Placed(doc)
    BY <1>1 DEF GoodRange, Placed, Group
  <1>3. OnTime(doc) => doc.merkle_root = ComputeMerkleRoot(HashesUnder(doc))
    BY <1>1, Zenon DEF GoodRange, OnTime, HashesUnder
  <1>4. GoodCheckpoint(doc)
    BY <1>2, <1>3 DEF GoodCheckpoint
  <1>. QED
    BY <1>4 DEF doc

LEMMA CheckpointStep ==
    ASSUME ChainInv, CheckpointInv, [Next]_vars
    PROVE  CheckpointInv'
  <1>1. \A c \in checkpoints : GoodCheckpoint(c)'
    BY GoodCheckpointStays DEF CheckpointInv
  <1>2. ASSUME UNCHANGED generator
        PROVE  /\ generator' = [q \in Proc |-> generator'[q]]
               /\ \A q \in Proc : GoodWork(generator[q])'
    <2>1. ASSUME NEW q \in Proc
          PROVE  GoodWork(generator[q])'
      <3>1. PICK u : u = generator[q]
        OBVIOUS
      <3>2. GoodWork(u)
        BY <3>1 DEF CheckpointInv
      <3>3. GoodWork(u)'
        BY <3>2, GoodWorkStays
      <3>4. generator'[q] = u
        BY <1>2, <3>1
      <3>. QED
        BY <3>3, <3>4 DEF GoodWork
    <2>. QED
      BY <1>2, <2>1 DEF CheckpointInv
  <1>3. ASSUME NEW p \in Proc, NEW f \in Frequency, Generate(p, f)
        PROVE  CheckpointInv'
    <2>. DEFINE ranges == BuildRanges(Ascending(Stored), f)
    <2>1. PICK w : w = [pc |-> "check", ranges |-> ranges]
      OBVIOUS
    <2>2. /\ Cardinality(Stored) >= f /\ UNCHANGED checkpoints
          /\ generator' = [generator EXCEPT ![p] = w]
      BY <1>3, <2>1, Zenon DEF Generate
    <2>3. PICK R : ranges \in Seq(R) /\ (\A r \in R : GoodRange(r)) /\ ranges # <<>>
      BY <2>2, RangesGood
    <2>. HIDE DEF ranges
    <2>4. GoodWork(w)
      BY <2>1, <2>3 DEF GoodWork
    <2>. QED
      BY <1>1, <2>2, <2>4, WorkReplaced DEF CheckpointInv
  <1>4. ASSUME NEW p \in Proc, NextRange(p), generator[p].pc # "idle"
        PROVE  /\ generator' = [q \in Proc |-> generator'[q]]
               /\ \A q \in Proc : GoodWork(generator[q])'
    <2>1. PICK u : u = generator[p]
      OBVIOUS
    <2>2. GoodWork(u) /\ u.pc # "idle"
      BY <1>4, <2>1 DEF CheckpointInv
    <2>3. PICK w : w = IF Tail(u.ranges) = <<>> THEN Resting
                       ELSE [pc |-> "check", ranges |-> Tail(u.ranges)]
      OBVIOUS
    <2>4. GoodWork(w)
      BY <2>2, <2>3, HeadGood
    <2>5. generator' = [generator EXCEPT ![p] = w]
      BY <1>4, <2>1, <2>3, Zenon DEF NextRange
    <2>. QED
      BY <2>4, <2>5, WorkReplaced
  <1>5. ASSUME NEW p \in Proc, CheckRange(p)
        PROVE  CheckpointInv'
    <2>1. generator[p].pc = "check" /\ UNCHANGED checkpoints
      BY <1>5 DEF CheckRange
    <2>2. CASE NextRange(p)
      BY <1>1, <1>4, <2>1, <2>2 DEF CheckpointInv
    <2>3. CASE generator' = [generator EXCEPT ![p].pc = "insert"]
      <3>1. PICK u : u = generator[p]
        OBVIOUS
      <3>2. GoodWork(u) /\ u.pc # "idle"
        BY <2>1, <3>1 DEF CheckpointInv
      <3>3. PICK w : w = [u EXCEPT !.pc = "insert"]
        OBVIOUS
      <3>4. w = [pc |-> "insert", ranges |-> u.ranges]
        BY <3>2, <3>3 DEF GoodWork
      <3>5. GoodWork(w)
        BY <3>2, <3>4 DEF GoodWork
      <3>6. generator' = [generator EXCEPT ![p] = w]
        BY <2>3, <3>1, <3>3
      <3>. QED
        BY <1>1, <2>1, <3>5, <3>6, WorkReplaced DEF CheckpointInv
    <2>. QED
      BY <1>5, <2>2, <2>3 DEF CheckRange
  <1>6. ASSUME NEW p \in Proc, InsertCheckpoint(p)
        PROVE  CheckpointInv'
    <2>1. generator[p].pc = "insert" /\ NextRange(p)
      BY <1>6 DEF InsertCheckpoint
    <2>2. PICK doc : doc = CheckpointDoc(Head(generator[p].ranges))
      OBVIOUS
    <2>3. checkpoints' = checkpoints \cup {doc} \/ UNCHANGED checkpoints
      BY <1>6, <2>2 DEF InsertCheckpoint
    <2>4. GoodRange(Head(generator[p].ranges))
      BY <2>1, HeadGood DEF CheckpointInv
    <2>5. GoodCheckpoint(doc)
      BY <2>2, <2>4, DocGood
    <2>6. GoodCheckpoint(doc)'
      BY <2>5, GoodCheckpointStays
    <2>7. \A c \in checkpoints' : GoodCheckpoint(c)'
      BY <1>1, <2>3, <2>6
    <2>. QED
      BY <1>4, <2>1, <2>7 DEF CheckpointInv
  <1>7. ASSUME NEW p \in Proc, Abandon(p)
        PROVE  CheckpointInv'
    <2>1. generator' = [generator EXCEPT ![p] = Resting] /\ UNCHANGED checkpoints
      BY <1>7 DEF Abandon
    <2>2. GoodWork(Resting)
      BY RestingGood
    <2>3. PICK w : w = Resting
      OBVIOUS
    <2>. QED
      BY <1>1, <2>1, <2>2, <2>3, WorkReplaced DEF CheckpointInv
  <1>8. ASSUME UNCHANGED <<checkpoints, generator>>
        PROVE  CheckpointInv'
    BY <1>1, <1>2, <1>8 DEF CheckpointInv
  <1>. QED
    BY <1>3, <1>5, <1>6, <1>7, <1>8 DEF Next, StoreStep, vars

\* The documents and the checkpoints together.
IInv == ChainInv /\ CheckpointInv

\* Documents, ranges at work and checkpoints are good in every state, whatever is stored,
\* late or edited.
THEOREM CheckpointInvariance == Spec => []IInv
  <1>1. Init => IInv
    BY ChainInit, CheckpointInit DEF IInv
  <1>2. IInv /\ [Next]_vars => IInv'
    BY ChainStep, CheckpointStep DEF IInv
  <1>. QED
    BY <1>1, <1>2, PTL DEF Spec

\* RangesOfAFrequencyTile: the groups of a frequency are its multiples, so two of them
\* are the same or apart.
LEMMA Tiles == CheckpointInv => RangesOfAFrequencyTile
  <1>. SUFFICES ASSUME CheckpointInv, NEW c \in checkpoints, NEW d \in checkpoints,
                       c.to_block - c.from_block = d.to_block - d.from_block,
                       Steady(c.to_block), Steady(d.to_block)
                PROVE  \/ c.from_block = d.from_block
                       \/ c.to_block < d.from_block \/ d.to_block < c.from_block
    BY DEF RangesOfAFrequencyTile
  <1>1. PICK f \in Frequency, g \in Nat : c.from_block = g * f /\ c.to_block = g * f + f - 1
    BY DEF CheckpointInv, GoodCheckpoint, Placed, Group
  <1>2. PICK e \in Frequency, h \in Nat : d.from_block = h * e /\ d.to_block = h * e + e - 1
    BY DEF CheckpointInv, GoodCheckpoint, Placed, Group
  <1>3. f \in Nat \ {0} /\ e \in Nat \ {0}
    BY CheckpointAssumption
  <1>4. g * f \in Nat /\ h * e \in Nat
    BY <1>3
  <1>5. e = f
    BY <1>1, <1>2, <1>3, <1>4
  <1>6. CASE g = h
    BY <1>1, <1>2, <1>5, <1>6
  <1>7. CASE g < h
    <2>1. g * f + f <= h * f
      BY <1>3, <1>7, Apart
    <2>. QED
      BY <1>1, <1>2, <1>3, <1>4, <1>5, <2>1
  <1>8. CASE h < g
    <2>1. h * f + f <= g * f
      BY <1>3, <1>8, Apart
    <2>. QED
      BY <1>1, <1>2, <1>3, <1>4, <1>5, <2>1
  <1>. QED
    BY <1>6, <1>7, <1>8

\* Checkpoints of one frequency never overlap, whenever and by whomever they were generated,
\* where every height came in its turn (checkpoint_service.py:459).
THEOREM RangesOfAFrequencyTileAlways == Spec => []RangesOfAFrequencyTile
  <1>. QED
    BY CheckpointInvariance, Tiles, PTL DEF IInv

\* NoFalseAlarm: until the first edit the hashes under a checkpoint are those it was made
\* of, unless a block came late among them.
LEMMA NoAlarm == CheckpointInv => NoFalseAlarm
  <1>. SUFFICES ASSUME CheckpointInv, edits = 0, NEW c \in checkpoints,
                       late \cap (c.from_block..c.to_block) = {}
                PROVE  ~Mismatch(c)
    BY DEF NoFalseAlarm
  <1>1. c.merkle_root = ComputeMerkleRoot(HashesUnder(c))
    BY DEF CheckpointInv, GoodCheckpoint, OnTime
  <1>. QED
    BY <1>1, Zenon DEF Mismatch, HashesUnder

\* Of a chain that nobody edited validate_fast reports only ranges that a block came late in.
THEOREM NoFalseAlarmAlways == Spec => []NoFalseAlarm
  <1>. QED
    BY CheckpointInvariance, NoAlarm, PTL DEF IInv

-----------------------------------------------------------------------------
(* The hash tree. *)

IsSeq(s) == \E S : s \in Seq(S)

LEMMA SeqParts ==
    ASSUME NEW s, IsSeq(s)
    PROVE  Len(s) \in Nat /\ DOMAIN s = 1..Len(s) /\ s = [k \in 1..Len(s) |-> s[k]]
  <1>1. PICK S : s \in Seq(S)
    BY DEF IsSeq
  <1>. QED
    BY <1>1

LEMMA SeqOf ==
    ASSUME NEW n \in Nat, NEW s, s = [k \in 1..n |-> s[k]]
    PROVE  IsSeq(s) /\ Len(s) = n
  <1>. DEFINE S == {s[k] : k \in 1..n}
  <1>1. s \in [1..n -> S]
    OBVIOUS
  <1>. HIDE DEF S
  <1>. QED
    BY <1>1 DEF IsSeq

\* A list of one node or more, and the pairs above it.
LEMMA NextLevelIs ==
    ASSUME NEW s, IsSeq(s)
    PROVE  /\ IsSeq(NextLevel(s))
           /\ Len(NextLevel(s)) = IF Len(s) <= 1 THEN Len(s) ELSE (Len(s) + 1) \div 2
           /\ Len(s) > 1 =>
                  \A k \in 1..((Len(s) + 1) \div 2) :
                      NextLevel(s)[k] =
                          Node(s[2 * k - 1], s[IF 2 * k > Len(s) THEN 2 * k - 1 ELSE 2 * k])
  <1>. DEFINE m == (Len(s) + 1) \div 2
              node(k) == Node(s[2 * k - 1], s[IF 2 * k > Len(s) THEN 2 * k - 1 ELSE 2 * k])
              S == {node(k) : k \in 1..m}
  <1>1. Len(s) \in Nat
    BY SeqParts
  <1>2. CASE Len(s) <= 1
    <2>1. NextLevel(s) = s
      BY <1>2 DEF NextLevel
    <2>. QED
      BY <1>1, <1>2, <2>1
  <1>3. CASE ~(Len(s) <= 1)
    <2>1. NextLevel(s) = [k \in 1..m |-> node(k)]
      BY <1>3, Zenon DEF NextLevel
    <2>2. m \in Nat
      BY <1>1
    <2>. HIDE DEF m, node
    <2>3. [k \in 1..m |-> node(k)] \in Seq(S) /\ Len([k \in 1..m |-> node(k)]) = m
      BY <2>2
    <2>4. IsSeq(NextLevel(s)) /\ Len(NextLevel(s)) = m
      BY <2>1, <2>3 DEF IsSeq
    <2>5. \A k \in 1..m : NextLevel(s)[k] = node(k)
      BY <2>1
    <2>. QED
      BY <1>3, <2>4, <2>5 DEF m, node
  <1>. QED
    BY <1>2, <1>3

\* Lists as long as each other have the same level above only if they are the same.
LEMMA NextLevelInjective ==
    ASSUME NEW s, NEW t, IsSeq(s), IsSeq(t), Len(s) = Len(t), NextLevel(s) = NextLevel(t)
    PROVE  s = t
  <1>. DEFINE n == Len(s)
              m == (n + 1) \div 2
  <1>1. n \in Nat /\ Len(t) = n
    BY SeqParts
  <1>2. CASE n <= 1
    BY <1>1, <1>2 DEF NextLevel
  <1>3. CASE ~(n <= 1)
    <2>1. ASSUME NEW k \in 1..m
          PROVE  s[2 * k - 1] = t[2 * k - 1] /\ (2 * k <= n => s[2 * k] = t[2 * k])
      <3>. DEFINE other == IF 2 * k > n THEN 2 * k - 1 ELSE 2 * k
      <3>1. NextLevel(s)[k] = Node(s[2 * k - 1], s[other])
        BY <1>1, <1>3, NextLevelIs
      <3>2. NextLevel(t)[k] = Node(t[2 * k - 1], t[other])
        <4>1. k \in 1..((Len(t) + 1) \div 2) /\ Len(t) > 1
          BY <1>1, <1>3
        <4>2. NextLevel(t)[k] =
                  Node(t[2 * k - 1], t[IF 2 * k > Len(t) THEN 2 * k - 1 ELSE 2 * k])
          BY <4>1, NextLevelIs
        <4>. QED
          BY <1>1, <4>2, Zenon
      <3>. HIDE DEF other
      <3>3. s[2 * k - 1] = t[2 * k - 1] /\ s[other] = t[other]
        BY <3>1, <3>2 DEF Node
      <3>4. k \in Nat /\ (2 * k <= n => other = 2 * k)
        BY <1>1 DEF other
      <3>. QED
        BY <3>3, <3>4
    <2>2. ASSUME NEW i \in 1..n
          PROVE  s[i] = t[i]
      <3>1. PICK k \in 1..m : i = 2 * k - 1 \/ i = 2 * k
        <4>1. CASE i % 2 = 1
          <5>1. (i + 1) \div 2 \in 1..m /\ i = 2 * ((i + 1) \div 2) - 1
            BY <1>1, <4>1
          <5>. QED
            BY <5>1
        <4>2. CASE i % 2 = 0
          <5>1. i \div 2 \in 1..m /\ i = 2 * (i \div 2)
            BY <1>1, <4>2
          <5>. QED
            BY <5>1
        <4>3. i % 2 = 0 \/ i % 2 = 1
          BY <1>1
        <4>. QED
          BY <4>1, <4>2, <4>3
      <3>2. s[2 * k - 1] = t[2 * k - 1] /\ (2 * k <= n => s[2 * k] = t[2 * k])
        BY <2>1
      <3>3. i <= n
        BY <1>1
      <3>. QED
        BY <3>1, <3>2, <3>3
    <2>3. s = [i \in 1..n |-> s[i]] /\ t = [i \in 1..n |-> t[i]]
      BY <1>1, SeqParts
    <2>. HIDE DEF n
    <2>. QED
      BY <2>2, <2>3, Zenon
  <1>. QED
    BY <1>2, <1>3

\* The levels of a tree, from the leaves to the root.
Levels(g, s) == g = [n \in 0..Len(s) |-> IF n = 0 THEN s ELSE NextLevel(g[n - 1])]

LEMMA RootIs == \A s : ComputeMerkleRoot(s) = (CHOOSE g : Levels(g, s))[Len(s)]
  BY DEF ComputeMerkleRoot, Levels

\* The recursion has a solution, built level by level.
LEMMA LevelsExist ==
    ASSUME NEW s, IsSeq(s)
    PROVE  \E g : Levels(g, s)
  <1>. DEFINE Up(g, n) == IF n = 0 THEN s ELSE NextLevel(g[n - 1])
              T == {n \in 0..Len(s) : \E g : g = [i \in 0..n |-> Up(g, i)]}
  <1>1. Len(s) \in Nat
    BY SeqParts
  <1>2. 0 \in T
    <2>1. PICK z : z = [i \in 0..0 |-> s]
      OBVIOUS
    <2>2. z = [i \in 0..0 |-> Up(z, i)]
      BY <2>1
    <2>. HIDE DEF Up
    <2>. QED
      BY <1>1, <2>2
  <1>3. ASSUME NEW n \in 0..Len(s), n \in T, n < Len(s)
        PROVE  n + 1 \in T
    <2>1. PICK g : g = [i \in 0..n |-> Up(g, i)]
      BY <1>3
    <2>. DEFINE h == [i \in 0..(n + 1) |-> Up(g, i)]
    <2>2. ASSUME NEW i \in 0..(n + 1), i # 0
          PROVE  h[i - 1] = g[i - 1]
      <3>1. i - 1 \in 0..n /\ i - 1 \in 0..(n + 1)
        BY <2>2
      <3>. HIDE DEF Up
      <3>2. g[i - 1] = Up(g, i - 1)
        BY <2>1, <3>1, Zenon
      <3>. QED
        BY <3>1, <3>2, Zenon
    <2>3. \A i \in 0..(n + 1) : Up(g, i) = Up(h, i)
      <3>. HIDE DEF h
      <3>. QED
        BY <2>2
    <2>. HIDE DEF Up
    <2>4. h = [i \in 0..(n + 1) |-> Up(h, i)]
      BY <2>3, Zenon
    <2>5. n + 1 \in 0..Len(s)
      BY <1>1, <1>3
    <2>. QED
      BY <2>4, <2>5
  <1>4. Len(s) \in T
    <2>. HIDE DEF T
    <2>1. 0..Len(s) \subseteq T
      BY <1>1, <1>2, <1>3, Climb
    <2>. QED
      BY <1>1, <2>1
  <1>. QED
    BY <1>4, Zenon DEF Levels

\* The root of a list and the way up to it.
LEMMA WayUp ==
    ASSUME NEW s, IsSeq(s)
    PROVE  \E g : /\ g[0] = s /\ g[Len(s)] = ComputeMerkleRoot(s)
                  /\ \A n \in 0..Len(s) : n < Len(s) => g[n + 1] = NextLevel(g[n])
  <1>. DEFINE g == CHOOSE f : Levels(f, s)
  <1>1. Levels(g, s)
    BY LevelsExist
  <1>2. ComputeMerkleRoot(s) = g[Len(s)]
    BY RootIs, Zenon
  <1>3. Len(s) \in Nat
    BY SeqParts
  <1>. HIDE DEF g
  <1>4. g[0] = s
    BY <1>1, <1>3 DEF Levels
  <1>5. ASSUME NEW n \in 0..Len(s), n < Len(s)
        PROVE  g[n + 1] = NextLevel(g[n])
    <2>1. n + 1 \in 0..Len(s) /\ n + 1 # 0 /\ (n + 1) - 1 = n
      BY <1>3, <1>5
    <2>2. g[n + 1] = IF n + 1 = 0 THEN s ELSE NextLevel(g[(n + 1) - 1])
      BY <1>1, <2>1, Zenon DEF Levels
    <2>. QED
      BY <2>1, <2>2, Zenon
  <1>. QED
    BY <1>2, <1>4, <1>5

\* The root commits to the leaves: two lists as long as each other with one root are one.
LEMMA RootCommits ==
    ASSUME NEW s, NEW t, IsSeq(s), IsSeq(t), Len(s) = Len(t),
           ComputeMerkleRoot(s) = ComputeMerkleRoot(t)
    PROVE  s = t
  <1>. DEFINE m == Len(s)
  <1>1. m \in Nat /\ Len(t) = m
    BY SeqParts
  <1>2. PICK g : /\ g[0] = s /\ g[m] = ComputeMerkleRoot(s)
                 /\ \A n \in 0..m : n < m => g[n + 1] = NextLevel(g[n])
    BY WayUp
  <1>3. PICK h : /\ h[0] = t /\ h[m] = ComputeMerkleRoot(t)
                 /\ \A n \in 0..m : n < m => h[n + 1] = NextLevel(h[n])
    BY <1>1, WayUp
  <1>. HIDE DEF m
  <1>. DEFINE Alike == {n \in 0..m : IsSeq(g[n]) /\ IsSeq(h[n]) /\ Len(g[n]) = Len(h[n])}
              Equal == {n \in 0..m : g[m - n] = h[m - n]}
  <1>4. 0..m \subseteq Alike
    <2>1. 0 \in Alike
      BY <1>1, <1>2, <1>3
    <2>2. ASSUME NEW n \in 0..m, n \in Alike, n < m
          PROVE  n + 1 \in Alike
      <3>1. g[n + 1] = NextLevel(g[n]) /\ h[n + 1] = NextLevel(h[n])
        BY <1>2, <1>3, <2>2
      <3>2. IsSeq(g[n]) /\ IsSeq(h[n]) /\ Len(g[n]) = Len(h[n])
        BY <2>2
      <3>3. IsSeq(NextLevel(g[n])) /\ IsSeq(NextLevel(h[n]))
        BY <3>2, NextLevelIs
      <3>4. Len(NextLevel(g[n])) = Len(NextLevel(h[n]))
        BY <3>2, NextLevelIs
      <3>5. n + 1 \in 0..m
        BY <1>1, <2>2
      <3>. QED
        BY <3>1, <3>3, <3>4, <3>5
    <2>. HIDE DEF Alike
    <2>. QED
      BY <1>1, <2>1, <2>2, Climb
  <1>5. 0..m \subseteq Equal
    <2>1. 0 \in Equal
      BY <1>1, <1>2, <1>3
    <2>2. ASSUME NEW n \in 0..m, n \in Equal, n < m
          PROVE  n + 1 \in Equal
      <3>1. PICK k : k = m - (n + 1)
        OBVIOUS
      <3>2. k \in 0..m /\ k < m /\ k + 1 = m - n /\ n + 1 \in 0..m
        BY <1>1, <2>2, <3>1
      <3>3. g[k + 1] = h[k + 1]
        BY <2>2, <3>2
      <3>4. NextLevel(g[k]) = NextLevel(h[k])
        BY <1>2, <1>3, <3>2, <3>3
      <3>5. IsSeq(g[k]) /\ IsSeq(h[k]) /\ Len(g[k]) = Len(h[k])
        BY <1>4, <3>2
      <3>6. g[k] = h[k]
        BY <3>4, <3>5, NextLevelInjective
      <3>. QED
        BY <3>1, <3>2, <3>6
    <2>. HIDE DEF Equal
    <2>. QED
      BY <1>1, <2>1, <2>2, Climb
  <1>6. m \in Equal /\ m - m = 0
    <2>. HIDE DEF Equal
    <2>. QED
      BY <1>1, <1>5
  <1>. QED
    BY <1>2, <1>3, <1>6

\* A way down a tree along its right edge.
Edge(v, d, x, y) ==
    /\ v[0] = x /\ v[d] = y
    /\ \A n \in 0..d : n < d => \E left : v[n] = Node(left, v[n + 1])

\* From the root of a list of one leaf or more an edge leads to its last leaf.
LEMMA RightEdge ==
    ASSUME NEW s, IsSeq(s), Len(s) > 0
    PROVE  LET root == ComputeMerkleRoot(s) IN
           Len(root) > 0 /\ \E d \in Nat : \E v : Edge(v, d, root[Len(root)], s[Len(s)])
  <1>. DEFINE m == Len(s)
  <1>1. m \in Nat
    BY SeqParts
  <1>2. PICK g : /\ g[0] = s /\ g[m] = ComputeMerkleRoot(s)
                 /\ \A n \in 0..m : n < m => g[n + 1] = NextLevel(g[n])
    BY WayUp
  <1>3. PICK leaf : leaf = s[m]
    OBVIOUS
  <1>. HIDE DEF m
  <1>. DEFINE Reached(t) == \E d \in Nat : \E v : Edge(v, d, t[Len(t)], leaf)
              T == {n \in 0..m : IsSeq(g[n]) /\ Len(g[n]) > 0 /\ Reached(g[n])}
  <1>4. 0 \in T
    <2>1. Edge([n \in {0} |-> leaf], 0, leaf, leaf)
      BY DEF Edge
    <2>2. Reached(s)
      BY <1>3, <2>1 DEF m
    <2>. HIDE DEF Reached
    <2>. QED
      BY <1>1, <1>2, <2>2
  <1>5. ASSUME NEW n \in 0..m, n \in T, n < m
        PROVE  n + 1 \in T
    <2>1. PICK t, u : t = g[n] /\ u = NextLevel(t)
      OBVIOUS
    <2>2. g[n + 1] = u /\ n + 1 \in 0..m
      BY <1>1, <1>2, <1>5, <2>1
    <2>3. IsSeq(t) /\ Len(t) > 0 /\ Reached(t)
      BY <1>5, <2>1
    <2>4. Len(t) \in Nat
      BY <2>3, SeqParts
    <2>. HIDE DEF Reached
    <2>5. /\ IsSeq(u)
          /\ Len(u) = IF Len(t) <= 1 THEN Len(t) ELSE (Len(t) + 1) \div 2
          /\ Len(t) > 1 =>
                 \A k \in 1..((Len(t) + 1) \div 2) :
                     u[k] = Node(t[2 * k - 1], t[IF 2 * k > Len(t) THEN 2 * k - 1 ELSE 2 * k])
      BY <2>1, <2>3, NextLevelIs
    <2>6. Len(u) > 0
      BY <2>3, <2>4, <2>5
    <2>7. Reached(u)
      <3>1. CASE Len(t) <= 1
        BY <2>1, <2>3, <3>1 DEF NextLevel
      <3>2. CASE Len(t) > 1
        <4>. DEFINE k == (Len(t) + 1) \div 2
                    last == IF 2 * k > Len(t) THEN 2 * k - 1 ELSE 2 * k
        <4>1. k \in 1..k /\ last = Len(t)
          BY <2>4, <3>2
        <4>2. u[k] = Node(t[2 * k - 1], t[last]) /\ Len(u) = k
          <5>1. ~(Len(t) <= 1)
            BY <2>4, <3>2
          <5>2. Len(u) = k
            BY <2>5, <5>1, Zenon
          <5>3. u[k] = Node(t[2 * k - 1], t[last])
            BY <2>5, <3>2, <4>1, Zenon
          <5>. QED
            BY <5>2, <5>3
        <4>. HIDE DEF last, k
        <4>3. PICK left : u[Len(u)] = Node(left, t[Len(t)])
          BY <4>1, <4>2
        <4>4. PICK d, v : d \in Nat /\ Edge(v, d, t[Len(t)], leaf)
          BY <2>3 DEF Reached
        <4>5. PICK top : top = u[Len(u)]
          OBVIOUS
        <4>6. PICK w : w = [i \in 0..(d + 1) |-> IF i = 0 THEN top ELSE v[i - 1]]
          OBVIOUS
        <4>7. Edge(w, d + 1, top, leaf)
          <5>1. w[0] = top /\ w[d + 1] = leaf
            BY <4>4, <4>6 DEF Edge
          <5>2. ASSUME NEW i \in 0..(d + 1), i < d + 1
                PROVE  \E l : w[i] = Node(l, w[i + 1])
            <6>1. w[i + 1] = v[i]
              BY <4>4, <4>6, <5>2
            <6>2. CASE i = 0
              BY <4>3, <4>4, <4>5, <5>1, <6>1, <6>2 DEF Edge
            <6>3. CASE i # 0
              <7>1. i - 1 \in 0..d /\ i - 1 < d /\ (i - 1) + 1 = i
                BY <4>4, <5>2, <6>3
              <7>2. \E l : v[i - 1] = Node(l, v[i])
                BY <4>4, <7>1 DEF Edge
              <7>3. w[i] = v[i - 1]
                BY <4>6, <6>3
              <7>. QED
                BY <6>1, <7>2, <7>3
            <6>. QED
              BY <6>2, <6>3
          <5>. QED
            BY <4>4, <5>1, <5>2 DEF Edge
        <4>. QED
          BY <4>4, <4>5, <4>7 DEF Reached
      <3>. QED
        BY <2>4, <3>1, <3>2
    <2>. QED
      BY <2>2, <2>5, <2>6, <2>7
  <1>6. m \in T
    <2>. HIDE DEF T
    <2>1. 0..m \subseteq T
      BY <1>1, <1>4, <1>5, Climb
    <2>. QED
      BY <1>1, <2>1
  <1>. QED
    BY <1>2, <1>3, <1>6 DEF m

\* What is no pair of nodes.
Leaf(x) == \A left, right : x # Node(left, right)

LEMMA NodeParts == \A l, r, k, q : Node(l, r) = Node(k, q) => r = q
  BY DEF Node

\* Two edges from one node that end in leaves are one.
LEMMA EdgesMeet ==
    ASSUME NEW x, NEW y, NEW z, NEW d \in Nat, NEW e \in Nat, NEW v, NEW w, d <= e,
           Edge(v, d, x, y), Edge(w, e, x, z), Leaf(y)
    PROVE  y = z
  <1>. DEFINE T == {n \in 0..d : v[n] = w[n]}
  <1>1. 0 \in T
    BY DEF Edge
  <1>2. ASSUME NEW n \in 0..d, n \in T, n < d
        PROVE  n + 1 \in T
    <2>1. n + 1 \in 0..d /\ n \in 0..e /\ n < e
      BY <1>2
    <2>2. PICK l : v[n] = Node(l, v[n + 1])
      BY <1>2 DEF Edge
    <2>3. PICK k : w[n] = Node(k, w[n + 1])
      BY <2>1 DEF Edge
    <2>4. v[n + 1] = w[n + 1]
      BY <1>2, <2>2, <2>3, NodeParts
    <2>. QED
      BY <2>1, <2>4
  <1>3. d \in T
    <2>. HIDE DEF T
    <2>1. 0..d \subseteq T
      BY <1>1, <1>2, Climb
    <2>. QED
      BY <2>1
  <1>4. w[d] = y
    BY <1>3 DEF Edge
  <1>5. d = e
    <2>. SUFFICES ASSUME d < e
                  PROVE  FALSE
      OBVIOUS
    <2>1. d \in 0..e
      OBVIOUS
    <2>2. \E k : w[d] = Node(k, w[d + 1])
      BY <2>1 DEF Edge
    <2>. QED
      BY <1>4, <2>2 DEF Leaf
  <1>. QED
    BY <1>4, <1>5 DEF Edge

\* The root commits to the last leaf, however many there are: repeating an odd node gives
\* two lists of different lengths one root, but never another end.
LEMMA RootCommitsToLast ==
    ASSUME NEW s, NEW t, IsSeq(s), IsSeq(t), Len(t) > 0,
           ComputeMerkleRoot(s) = ComputeMerkleRoot(t),
           \A k \in 1..Len(s) : Leaf(s[k]), \A k \in 1..Len(t) : Leaf(t[k])
    PROVE  Len(s) > 0 /\ s[Len(s)] = t[Len(t)]
  <1>1. Len(s) \in Nat /\ Len(t) \in Nat
    BY SeqParts
  <1>2. PICK root : root = ComputeMerkleRoot(t)
    OBVIOUS
  <1>3. Len(root) > 0 /\ \E e \in Nat : \E w : Edge(w, e, root[Len(root)], t[Len(t)])
    BY <1>2, RightEdge
  <1>4. Len(s) > 0
    <2>. SUFFICES ASSUME Len(s) = 0
                  PROVE  FALSE
      BY <1>1
    <2>1. PICK g : g[0] = s /\ g[Len(s)] = ComputeMerkleRoot(s)
      BY WayUp
    <2>2. root = s
      BY <1>2, <2>1
    <2>. QED
      BY <1>3, <2>2
  <1>5. \E d \in Nat : \E v : Edge(v, d, root[Len(root)], s[Len(s)])
    BY <1>2, <1>4, RightEdge
  <1>6. PICK d, v : d \in Nat /\ Edge(v, d, root[Len(root)], s[Len(s)])
    BY <1>5
  <1>7. PICK e, w : e \in Nat /\ Edge(w, e, root[Len(root)], t[Len(t)])
    BY <1>3
  <1>8. Leaf(s[Len(s)]) /\ Leaf(t[Len(t)])
    BY <1>1, <1>4
  <1>9. CASE d <= e
    BY <1>4, <1>6, <1>7, <1>8, <1>9, EdgesMeet
  <1>10. CASE e <= d
    BY <1>4, <1>6, <1>7, <1>8, <1>10, EdgesMeet
  <1>. QED
    BY <1>6, <1>7, <1>9, <1>10

LEMMA DigestIsLeaf == \A i, p, q : Leaf(Digest(i, p, q))
  <1>. SUFFICES ASSUME NEW i, NEW p, NEW q, NEW l, NEW r, Digest(i, p, q) = Node(l, r)
                PROVE  FALSE
    BY DEF Leaf
  <1>1. "left" \in DOMAIN Node(l, r)
    BY DEF Node
  <1>2. "left" \notin DOMAIN Digest(i, p, q)
    BY DEF Digest
  <1>. QED
    BY <1>1, <1>2

\* CheckpointPinsHistory: the root of a genuine checkpoint is that of the stored hashes,
\* hence the last of them is the agreed one, and the links pin the rest.
LEMMA Pinned == IInv => CheckpointPinsHistory
  <1>. SUFFICES ASSUME IInv, ValidateChain.chain_valid, ValidateFast.valid,
                       NEW c \in checkpoints, Genuine(c)
                PROVE  c.to_block \in Stored /\ AgreedUpTo(c.to_block)
    BY DEF CheckpointPinsHistory
  <1>. DEFINE a == c.from_block
              b == c.to_block
              S == Stored \cap (a..b)
              rows == Ascending(S)
              n == Cardinality(S)
              m == b - a + 1
              agreed == [k \in 1..m |-> Original[a + k - 1].hash]
  <1>1. /\ a \in Nat /\ b \in Nat /\ a <= b /\ b \in Height
        /\ \A i \in a..b : i \in Height
    BY StoreAssumption DEF IInv, CheckpointInv, GoodCheckpoint, Placed, Height
  <1>2. ~Mismatch(c)
    BY DEF ValidateFast
  <1>3. ComputeMerkleRoot(Hashes(rows)) = ComputeMerkleRoot(agreed)
    BY <1>2, Zenon DEF Mismatch, Genuine, Covered
  <1>4. S \subseteq Nat /\ IsFiniteSet(S)
    <2>1. Stored \subseteq Nat /\ IsFiniteSet(Stored)
      BY StoredFinite DEF IInv, ChainInv
    <2>2. S \in SUBSET Stored
      OBVIOUS
    <2>3. IsFiniteSet(S)
      <3>. HIDE DEF S
      <3>. QED
        BY <2>1, <2>2, FS_Subset
    <2>. QED
      BY <2>1, <2>2, <2>3
  <1>5. \A i \in S : HashValid(chain[i])
    <2>1. Ascending(Stored) \in [1..Cardinality(Stored) -> Stored]
          /\ \A i \in Stored : \E k \in 1..Cardinality(Stored) : Ascending(Stored)[k] = i
      BY StoredFinite, AscendingLists DEF IInv, ChainInv
    <2>. QED
      BY <2>1, ValidChain
  <1>6. m \in Nat /\ m > 0
    BY <1>1
  <1>7. S \subseteq Stored /\ S \subseteq a..b
    OBVIOUS
  <1>. HIDE DEF a, b, S, m
  <1>8. n \in Nat /\ rows \in [1..n -> S]
    BY <1>4, AscendingLists
  <1>. HIDE DEF rows, n
  <1>. DEFINE stored == Hashes(rows)
  <1>9. stored = [k \in 1..n |-> chain[rows[k]].hash]
    BY <1>8 DEF Hashes
  <1>. HIDE DEF stored, agreed
  <1>10. IsSeq(stored) /\ Len(stored) = n /\ IsSeq(agreed) /\ Len(agreed) = m
    <2>1. stored = [k \in 1..n |-> stored[k]] /\ agreed = [k \in 1..m |-> agreed[k]]
      BY <1>9 DEF agreed
    <2>. QED
      BY <1>6, <1>8, <2>1, SeqOf
  <1>11. \A k \in 1..n : Leaf(stored[k])
    <2>. TAKE k \in 1..n
    <2>1. stored[k] = ComputedHash(chain[rows[k]])
      BY <1>5, <1>8, <1>9 DEF HashValid
    <2>. QED
      BY <2>1, DigestIsLeaf DEF ComputedHash
  <1>12. ASSUME NEW k \in 1..m
         PROVE  agreed[k] = Original[a + k - 1].hash /\ Leaf(agreed[k])
    <2>1. agreed[k] = Original[a + k - 1].hash /\ a + k - 1 \in Height
      BY <1>1, <1>12 DEF agreed, m
    <2>2. Original[a + k - 1].hash = Digest(a + k - 1, a + k - 1, Original[a + k - 1].previous_hash)
      BY <2>1, OriginalBlock
    <2>. QED
      BY <2>1, <2>2, DigestIsLeaf
  <1>13. ComputeMerkleRoot(stored) = ComputeMerkleRoot(agreed)
    BY <1>3 DEF stored, agreed
  <1>14. n > 0 /\ stored[n] = agreed[m]
    <2>1. \A k \in 1..Len(stored) : Leaf(stored[k])
      BY <1>10, <1>11
    <2>2. \A k \in 1..Len(agreed) : Leaf(agreed[k])
      BY <1>10, <1>12
    <2>3. Len(agreed) > 0
      BY <1>6, <1>10
    <2>4. Len(stored) > 0 /\ stored[Len(stored)] = agreed[Len(agreed)]
      BY <1>10, <1>13, <2>1, <2>2, <2>3, RootCommitsToLast
    <2>. QED
      BY <1>10, <2>4
  <1>15. n \in 1..n /\ m \in 1..m /\ a + m - 1 = b
    BY <1>1, <1>6, <1>8, <1>14 DEF m
  <1>16. rows[n] \in S /\ chain[rows[n]].hash = Original[b].hash
    <2>1. stored[n] = chain[rows[n]].hash
      BY <1>9, <1>15
    <2>2. agreed[m] = Original[b].hash
      BY <1>12, <1>15
    <2>. QED
      BY <1>8, <1>14, <1>15, <2>1, <2>2
  <1>17. rows[n] = b
    BY <1>1, <1>5, <1>7, <1>16, Recognised DEF IInv, ChainInv
  <1>18. b \in Stored /\ chain[b].hash = Original[b].hash
    BY <1>7, <1>16, <1>17
  <1>. QED
    BY <1>18, HashPinsBelow DEF IInv, ChainInv, b

\* When both validations pass, the end of a genuine checkpoint is stored and every block before
\* it is the agreed one: the root pins its last hash, the links the rest.
THEOREM CheckpointPinsHistoryAlways == Spec => []CheckpointPinsHistory
  <1>. QED
    BY CheckpointInvariance, Pinned, PTL

-----------------------------------------------------------------------------
(* The bisection. *)

\* The roots of some blocks agree only if every one of them has a valid hash.
LEMMA IntactIs ==
    ASSUME NEW rows \in Seq(Nat), Intact(rows)
    PROVE  \A k \in 1..Len(rows) : HashValid(chain[rows[k]])
  <1>. DEFINE n == Len(rows)
              stored == [k \in 1..n |-> chain[rows[k]].hash]
              computed == [k \in 1..n |-> ComputedHash(chain[rows[k]])]
  <1>1. n \in Nat /\ DOMAIN rows = 1..n
    OBVIOUS
  <1>2. ComputeMerkleRoot(stored) = ComputeMerkleRoot(computed)
    BY <1>1, Zenon DEF Intact, Hashes
  <1>. HIDE DEF n
  <1>3. /\ stored = [k \in 1..n |-> stored[k]]
        /\ computed = [k \in 1..n |-> computed[k]]
    OBVIOUS
  <1>4. stored = computed
    <2>. HIDE DEF stored, computed
    <2>1. IsSeq(stored) /\ IsSeq(computed) /\ Len(stored) = n /\ Len(computed) = n
      BY <1>1, <1>3, SeqOf
    <2>. QED
      BY <1>2, <2>1, RootCommits
  <1>5. \A k \in 1..n : chain[rows[k]].hash = ComputedHash(chain[rows[k]])
    <2>. TAKE k \in 1..n
    <2>1. stored[k] = chain[rows[k]].hash /\ computed[k] = ComputedHash(chain[rows[k]])
      OBVIOUS
    <2>. HIDE DEF stored, computed
    <2>. QED
      BY <1>4, <2>1
  <1>. QED
    BY <1>5 DEF HashValid, n

\* A pass of the bisection ends in a part of the blocks before which all are valid.
ValidBefore(rows, part) ==
    \E lo, hi \in 1..Len(rows) :
        /\ lo <= hi /\ part = SubSeq(rows, lo, hi)
        /\ \A k \in 1..(lo - 1) : HashValid(chain[rows[k]])

LEMMA HalfStep ==
    ASSUME NEW rows \in Seq(Nat), NEW part, ValidBefore(rows, part)
    PROVE  ValidBefore(rows, Half(part))
  <1>1. PICK lo \in 1..Len(rows), hi \in 1..Len(rows) :
            /\ lo <= hi /\ part = SubSeq(rows, lo, hi)
            /\ \A k \in 1..(lo - 1) : HashValid(chain[rows[k]])
    BY DEF ValidBefore
  <1>. DEFINE n == hi - lo + 1
              mid == n \div 2
              left == SubSeq(part, 1, mid)
              right == SubSeq(part, mid + 1, n)
  <1>2. part \in Seq(Nat) /\ Len(part) = n
    BY <1>1
  <1>3. CASE n <= 1
    BY <1>2, <1>3 DEF Half
  <1>4. CASE ~(n <= 1)
    <2>1. Half(part) = IF Intact(left) THEN right ELSE left
      BY <1>2, <1>4, Zenon DEF Half
    <2>2. mid \in 1..(n - 1) /\ n \in Nat
      BY <1>1, <1>4
    <2>. HIDE DEF mid
    <2>3. /\ Len(rows) \in Nat
          /\ lo + mid - 1 \in 1..Len(rows) /\ lo <= lo + mid - 1
          /\ lo + mid \in 1..Len(rows) /\ lo + mid <= hi
      BY <1>1, <2>2
    <2>4. left = SubSeq(rows, lo, lo + mid - 1) /\ right = SubSeq(rows, lo + mid, hi)
      <3>1. /\ 1 \in 1..(hi - lo + 1) /\ mid \in 1..(hi - lo + 1)
            /\ mid + 1 \in 1..(hi - lo + 1) /\ n \in 1..(hi - lo + 1)
        BY <2>2
      <3>2. SubSeq(SubSeq(rows, lo, hi), 1, mid) = SubSeq(rows, lo + 1 - 1, lo + mid - 1)
        BY <3>1, SubSeqOfSubSeq
      <3>3. SubSeq(SubSeq(rows, lo, hi), mid + 1, n) = SubSeq(rows, lo + (mid + 1) - 1, lo + n - 1)
        BY <3>1, SubSeqOfSubSeq
      <3>4. lo + 1 - 1 = lo /\ lo + (mid + 1) - 1 = lo + mid /\ lo + n - 1 = hi
        BY <2>2
      <3>. QED
        BY <1>1, <3>2, <3>3, <3>4, Zenon
    <2>. HIDE DEF left, right, n
    <2>5. CASE ~Intact(left)
      BY <1>1, <2>1, <2>3, <2>4, <2>5 DEF ValidBefore
    <2>6. CASE Intact(left)
      <3>1. left \in Seq(Nat) /\ Len(left) = mid /\ \A k \in 1..mid : left[k] = rows[lo + k - 1]
        BY <2>2, <2>3, <2>4
      <3>2. \A k \in 1..mid : HashValid(chain[left[k]])
        BY <2>6, <3>1, IntactIs
      <3>3. ASSUME NEW k \in 1..((lo + mid) - 1)
            PROVE  HashValid(chain[rows[k]])
        <4>1. CASE k < lo
          BY <1>1, <2>3, <4>1
        <4>2. CASE ~(k < lo)
          <5>1. k - lo + 1 \in 1..mid /\ lo + (k - lo + 1) - 1 = k
            BY <2>2, <2>3, <4>2
          <5>2. left[k - lo + 1] = rows[k]
            BY <3>1, <5>1
          <5>. QED
            BY <3>2, <5>1, <5>2
        <4>. QED
          BY <4>1, <4>2
      <3>. QED
        BY <2>1, <2>3, <2>4, <2>6, <3>3 DEF ValidBefore
    <2>. QED
      BY <2>5, <2>6
  <1>. QED
    BY <1>3, <1>4

\* The passes of a bisection.
Passes(g, rows) == g = [n \in 0..Len(rows) |-> IF n = 0 THEN rows ELSE Half(g[n - 1])]

LEMMA CandidateIs == \A rows : Candidate(rows) = Head((CHOOSE g : Passes(g, rows))[Len(rows)])
  BY DEF Candidate, Passes

LEMMA PassesExist ==
    ASSUME NEW rows \in Seq(Nat)
    PROVE  \E g : Passes(g, rows)
  <1>. DEFINE Pass(g, n) == IF n = 0 THEN rows ELSE Half(g[n - 1])
              T == {n \in 0..Len(rows) : \E g : g = [i \in 0..n |-> Pass(g, i)]}
  <1>1. Len(rows) \in Nat
    OBVIOUS
  <1>2. 0 \in T
    <2>1. PICK z : z = [i \in 0..0 |-> rows]
      OBVIOUS
    <2>2. z = [i \in 0..0 |-> Pass(z, i)]
      BY <2>1
    <2>. HIDE DEF Pass
    <2>. QED
      BY <1>1, <2>2
  <1>3. ASSUME NEW n \in 0..Len(rows), n \in T, n < Len(rows)
        PROVE  n + 1 \in T
    <2>1. PICK g : g = [i \in 0..n |-> Pass(g, i)]
      BY <1>3
    <2>. DEFINE h == [i \in 0..(n + 1) |-> Pass(g, i)]
    <2>2. ASSUME NEW i \in 0..(n + 1), i # 0
          PROVE  h[i - 1] = g[i - 1]
      <3>1. i - 1 \in 0..n /\ i - 1 \in 0..(n + 1)
        BY <2>2
      <3>. HIDE DEF Pass
      <3>2. g[i - 1] = Pass(g, i - 1)
        BY <2>1, <3>1, Zenon
      <3>. QED
        BY <3>1, <3>2, Zenon
    <2>3. \A i \in 0..(n + 1) : Pass(g, i) = Pass(h, i)
      <3>. HIDE DEF h
      <3>. QED
        BY <2>2
    <2>. HIDE DEF Pass
    <2>4. h = [i \in 0..(n + 1) |-> Pass(h, i)]
      BY <2>3, Zenon
    <2>5. n + 1 \in 0..Len(rows)
      BY <1>1, <1>3
    <2>. QED
      BY <2>4, <2>5
  <1>4. Len(rows) \in T
    <2>. HIDE DEF T
    <2>1. 0..Len(rows) \subseteq T
      BY <1>1, <1>2, <1>3, Climb
    <2>. QED
      BY <1>1, <2>1
  <1>. QED
    BY <1>4, Zenon DEF Passes

\* The bisection ends at a block before which every hash is valid.
LEMMA CandidateFirst ==
    ASSUME NEW rows \in Seq(Nat), rows # <<>>
    PROVE  \E lo \in 1..Len(rows) :
               /\ Candidate(rows) = rows[lo]
               /\ \A k \in 1..(lo - 1) : HashValid(chain[rows[k]])
  <1>. DEFINE n == Len(rows)
              g == CHOOSE f : Passes(f, rows)
  <1>1. n \in Nat \ {0}
    OBVIOUS
  <1>2. Passes(g, rows)
    BY PassesExist
  <1>3. Candidate(rows) = Head(g[n])
    BY CandidateIs, Zenon
  <1>. HIDE DEF g
  <1>. DEFINE T == {i \in 0..n : ValidBefore(rows, g[i])}
  <1>4. 0 \in T
    <2>1. g[0] = rows
      BY <1>1, <1>2 DEF Passes
    <2>2. rows = SubSeq(rows, 1, n)
      BY SubSeqFull
    <2>3. 1 \in 1..n /\ n \in 1..n /\ 1 <= n /\ 1..(1 - 1) = {}
      BY <1>1
    <2>4. ValidBefore(rows, rows)
      BY <2>2, <2>3, Zenon DEF ValidBefore
    <2>. QED
      BY <1>1, <2>1, <2>4
  <1>5. ASSUME NEW i \in 0..n, i \in T, i < n
        PROVE  i + 1 \in T
    <2>1. i + 1 \in 0..n /\ i + 1 # 0 /\ (i + 1) - 1 = i
      BY <1>1, <1>5
    <2>2. g[i + 1] = IF i + 1 = 0 THEN rows ELSE Half(g[(i + 1) - 1])
      BY <1>2, <2>1, Zenon DEF Passes
    <2>3. g[i + 1] = Half(g[i])
      BY <2>1, <2>2, Zenon
    <2>4. ValidBefore(rows, Half(g[i]))
      BY <1>5, HalfStep
    <2>. QED
      BY <2>1, <2>3, <2>4
  <1>6. n \in T
    <2>. HIDE DEF T, n
    <2>1. 0..n \subseteq T
      BY <1>1, <1>4, <1>5, Climb
    <2>. QED
      BY <1>1, <2>1
  <1>7. PICK lo \in 1..n, hi \in 1..n :
            /\ lo <= hi /\ g[n] = SubSeq(rows, lo, hi)
            /\ \A k \in 1..(lo - 1) : HashValid(chain[rows[k]])
    BY <1>6 DEF ValidBefore
  <1>8. Head(SubSeq(rows, lo, hi)) = rows[lo]
    <2>1. lo \in 1..Len(rows) /\ hi \in lo..Len(rows)
      BY <1>1, <1>7
    <2>. QED
      BY <2>1, HeadTailOfSubSeq
  <1>. QED
    BY <1>3, <1>7, <1>8

\* BisectionFindsFirst: what the bisection answers is what the scan answers.
LEMMA FirstFound ==
    ASSUME NEW rows \in Seq(Nat)
    PROVE  FirstCorrupted(rows) = LinearScan(rows)
  <1>. DEFINE bad == {k \in DOMAIN rows : ~HashValid(chain[rows[k]])}
  <1>1. DOMAIN rows = 1..Len(rows) /\ Len(rows) \in Nat
    OBVIOUS
  <1>2. CASE rows = <<>>
    <2>1. bad = {}
      BY <1>2
    <2>. QED
      BY <1>2, <2>1, Zenon DEF FirstCorrupted, LinearScan
  <1>3. CASE rows # <<>>
    <2>1. PICK lo \in 1..Len(rows) :
              /\ Candidate(rows) = rows[lo]
              /\ \A k \in 1..(lo - 1) : HashValid(chain[rows[k]])
      BY <1>3, CandidateFirst
    <2>2. CASE HashValid(chain[rows[lo]])
      BY <1>3, <2>1, <2>2, Zenon DEF FirstCorrupted
    <2>3. CASE ~HashValid(chain[rows[lo]])
      <3>1. FirstCorrupted(rows) = rows[lo]
        BY <1>3, <2>1, <2>3, Zenon DEF FirstCorrupted
      <3>2. lo \in bad
        BY <1>1, <2>3
      <3>3. ASSUME NEW k \in bad
            PROVE  lo <= k
        <4>1. k \in 1..Len(rows) /\ ~(k \in 1..(lo - 1))
          BY <1>1, <2>1
        <4>. QED
          BY <1>1, <4>1
      <3>4. bad \subseteq 1..Len(rows)
        BY <1>1
      <3>5. LinearScan(rows) =
                IF bad = {} THEN None ELSE rows[CHOOSE k \in bad : \A j \in bad : k <= j]
        BY Zenon DEF LinearScan
      <3>. HIDE DEF bad
      <3>6. \A k \in bad : (\A j \in bad : k <= j) => k = lo
        BY <3>2, <3>3, <3>4
      <3>7. (CHOOSE k \in bad : \A j \in bad : k <= j) = lo
        BY <3>2, <3>3, <3>6
      <3>. QED
        BY <3>1, <3>2, <3>5, <3>7
    <2>. QED
      BY <2>2, <2>3
  <1>. QED
    BY <1>2, <1>3

LEMMA Bisects == ChainInv => BisectionFindsFirst
  <1>. SUFFICES ASSUME ChainInv, NEW c \in checkpoints
                PROVE  LET rows == Covered(c.from_block, c.to_block) IN
                       FirstCorrupted(rows) = LinearScan(rows)
    BY DEF BisectionFindsFirst
  <1>. DEFINE S == Stored \cap (c.from_block..c.to_block)
  <1>1. S \subseteq Nat /\ IsFiniteSet(S)
    <2>1. Stored \subseteq Nat /\ IsFiniteSet(Stored)
      BY StoredFinite DEF ChainInv
    <2>2. S \in SUBSET Stored
      OBVIOUS
    <2>3. IsFiniteSet(S)
      BY <2>1, <2>2, FS_Subset
    <2>. QED
      BY <2>1, <2>2, <2>3
  <1>. HIDE DEF S
  <1>2. Cardinality(S) \in Nat /\ Ascending(S) \in [1..Cardinality(S) -> S]
    BY <1>1, AscendingLists
  <1>3. Ascending(S) \in Seq(Nat)
    <2>1. PICK m, rows : m = Cardinality(S) /\ rows = Ascending(S)
      OBVIOUS
    <2>2. m \in Nat /\ rows \in [1..m -> Nat]
      BY <1>1, <1>2, <2>1
    <2>. QED
      BY <2>1, <2>2
  <1>4. FirstCorrupted(Ascending(S)) = LinearScan(Ascending(S))
    BY <1>3, FirstFound
  <1>. QED
    BY <1>4, Zenon DEF Covered, S

\* The bisection of _find_first_corrupted_block answers what a scan of the range answers, for
\* every collection and every edit.
THEOREM BisectionFindsFirstAlways == Spec => []BisectionFindsFirst
  <1>. QED
    BY ChainInvariance, Bisects, PTL

=============================================================================
