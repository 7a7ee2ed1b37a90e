--------------------- MODULE WalletCreditConsumerProofs ---------------------
(***************************************************************************)
(* Proofs about WalletCreditConsumer, for every set of processes and of    *)
(* credits and every bound: a credit is written once at most and is not    *)
(* lost, and the consumer implements CreditBook.                           *)
(***************************************************************************)
EXTENDS WalletCreditConsumer, SequenceTheorems, TLAPS

\* A task that got past ensure_indexes left the index behind.
IndexedFirst ==
    \A p \in Proc : handler[p].pc \notin {"down", "dead"} => indexed

\* A handler at work has a credit, and an ack comes after the document is there.
HandlerWritten ==
    \A p \in Proc :
        /\ handler[p].pc \in {"persist", "insert", "ack"} => handler[p].credit \in CreditId
        /\ handler[p].pc = "ack" => copies[handler[p].credit] > 0

\* A message is out at a process only while its handler works on that credit.
OutAtHandler ==
    \A p \in Proc :
        unacked[p] # NoCredit =>
            handler[p].pc \in {"persist", "insert", "ack"} /\ handler[p].credit = unacked[p]

IInv ==
    /\ TypeOK
    /\ IndexedFirst
    /\ HandlerWritten
    /\ OutAtHandler
    /\ CreditedOnce
    /\ NoCreditLost

-----------------------------------------------------------------------------
(* Type correctness. *)

\* What a queue holds after a publish, a requeue and a delivery.
LEMMA RangeAround ==
    ASSUME NEW S, NEW q \in Seq(S), NEW x \in S
    PROVE  /\ Range(q \o <<x>>) = Range(q) \cup {x}
           /\ Range(<<x>> \o q) = {x} \cup Range(q)
  <1>. DEFINE one == <<x>>
  <1>1. one \in Seq(S) /\ Range(one) = {x}
    BY DEF Range
  <1>. HIDE DEF one
  <1>2. Range(q \o one) = Range(q) \cup Range(one) /\ Range(one \o q) = Range(one) \cup Range(q)
    BY <1>1, RangeConcatenation
  <1>. QED
    BY <1>1, <1>2 DEF one

LEMMA RangeAppend ==
    ASSUME NEW S, NEW q \in Seq(S), NEW x \in S
    PROVE  Append(q, x) \in Seq(S) /\ Range(Append(q, x)) = Range(q) \cup {x}
  <1>1. Append(q, x) \in Seq(S)
    OBVIOUS
  <1>2. Append(q, x) = q \o <<x>>
    BY AppendIsConcat
  <1>3. Range(q \o <<x>>) = Range(q) \cup {x}
    BY RangeAround
  <1>. QED
    BY <1>1, <1>2, <1>3, Zenon

LEMMA RangePush ==
    ASSUME NEW S, NEW q \in Seq(S), NEW x \in S
    PROVE  <<x>> \o q \in Seq(S) /\ Range(<<x>> \o q) = Range(q) \cup {x}
  <1>1. <<x>> \o q \in Seq(S)
    OBVIOUS
  <1>2. Range(<<x>> \o q) = {x} \cup Range(q)
    BY RangeAround
  <1>. QED
    BY <1>1, <1>2

LEMMA RangeTail ==
    ASSUME NEW S, NEW q \in Seq(S), q # <<>>
    PROVE  /\ Head(q) \in S /\ Tail(q) \in Seq(S)
           /\ Range(q) = Range(Tail(q)) \cup {Head(q)}
  <1>. DEFINE first == Head(q)
              rest == Tail(q)
  <1>1. first \in S /\ rest \in Seq(S) /\ q = <<first>> \o rest
    OBVIOUS
  <1>. HIDE DEF first, rest
  <1>2. Range(<<first>> \o rest) = {first} \cup Range(rest)
    BY <1>1, RangeAround
  <1>3. first \in S /\ rest \in Seq(S) /\ Range(q) = Range(rest) \cup {first}
    BY <1>1, <1>2, Zenon
  <1>. QED
    BY <1>3 DEF first, rest

\* What requeuing does, whether or not a message is out.
LEMMA RequeueEffect ==
    ASSUME TypeOK, NEW p \in Proc, Requeue(p)
    PROVE  /\ queue' \in Seq(CreditId)
           /\ unacked' = [unacked EXCEPT ![p] = NoCredit]
           /\ unacked' \in [Proc -> CreditId \cup {NoCredit}]
           /\ Range(queue') = Range(queue) \cup ({unacked[p]} \ {NoCredit})
  <1>1. CASE unacked[p] = NoCredit
    BY <1>1 DEF Requeue, TypeOK
  <1>2. CASE unacked[p] # NoCredit
    <2>1. unacked[p] \in CreditId /\ queue \in Seq(CreditId) /\ queue' = <<unacked[p]>> \o queue
      BY <1>2 DEF Requeue, TypeOK
    <2>2. queue' \in Seq(CreditId) /\ Range(queue') = Range(queue) \cup {unacked[p]}
      BY <2>1, RangePush
    <2>. QED
      BY <1>2, <2>2 DEF Requeue, TypeOK
  <1>. QED
    BY <1>1, <1>2

LEMMA TypeStep == TypeOK /\ HandlerWritten /\ [Next]_vars => TypeOK'
  <1>. SUFFICES ASSUME TypeOK, HandlerWritten, [Next]_vars
                PROVE  TypeOK'
    OBVIOUS
  <1>. USE CreditAssumption
  <1>1. ASSUME NEW c \in CreditId, Issue(c)
        PROVE  TypeOK'
    BY <1>1, RangeAppend DEF Issue, TypeOK, dbVars
  <1>2. ASSUME NEW p \in Proc, Persist(p)
        PROVE  TypeOK'
    BY <1>2 DEF Persist, Goto, TypeOK, Handler, dbVars, brokerVars
  <1>3. ASSUME NEW p \in Proc, InsertCredit(p)
        PROVE  TypeOK'
    <2>1. handler[p].credit \in CreditId
      BY <1>3 DEF InsertCredit, HandlerWritten
    <2>2. copies' \in [CreditId -> Nat]
      BY <1>3, <2>1 DEF InsertCredit, TypeOK
    <2>3. handler' \in [Proc -> Handler]
      BY <1>3 DEF InsertCredit, Goto, TypeOK, Handler
    <2>. QED
      BY <1>3, <2>2, <2>3 DEF InsertCredit, TypeOK, brokerVars
  <1>4. ASSUME NEW p \in Proc, DbFailure(p)
        PROVE  TypeOK'
    BY <1>4 DEF DbFailure, Finish, At, TypeOK, Handler, HandlerWritten
  <1>5. ASSUME NEW p \in Proc, Ack(p)
        PROVE  TypeOK'
    BY <1>5 DEF Ack, Finish, At, TypeOK, Handler, dbVars
  <1>6. ASSUME NEW p \in Proc, Deliver(p)
        PROVE  TypeOK'
    BY <1>6, RangeTail DEF Deliver, At, TypeOK, Handler, dbVars
  <1>7. ASSUME NEW p \in Proc, LoseConnection(p)
        PROVE  TypeOK'
    BY <1>7, RequeueEffect DEF LoseConnection, TypeOK, dbVars
  <1>8. ASSUME NEW p \in Proc, Crash(p)
        PROVE  TypeOK'
    BY <1>8, RequeueEffect DEF Crash, At, TypeOK, Handler, dbVars
  <1>9. ASSUME NEW p \in Proc, Start(p) \/ StartFails(p)
        PROVE  TypeOK'
    <2>1. handler' \in [Proc -> Handler]
      <3>1. At("idle", NoCredit) \in Handler /\ At("dead", NoCredit) \in Handler
        BY DEF At, Handler
      <3>. QED
        BY <1>9, <3>1 DEF Start, StartFails, TypeOK
    <2>2. indexed' \in BOOLEAN /\ UNCHANGED copies
      BY <1>9 DEF Start, StartFails, TypeOK, dbVars
    <2>3. failures' \in 0..MaxFailures
      BY <1>9 DEF Start, StartFails, TypeOK
    <2>. QED
      BY <1>9, <2>1, <2>2, <2>3 DEF Start, StartFails, TypeOK, brokerVars
  <1>10. CASE UNCHANGED vars
    BY <1>10 DEF TypeOK, vars
  <1>. QED
    BY <1>1, <1>2, <1>3, <1>4, <1>5, <1>6, <1>7, <1>8, <1>9, <1>10 DEF Next, ConsumerStep

-----------------------------------------------------------------------------
(* What a step does to the documents: it writes one that is not there, or none. *)

LEMMA CopiesEffect ==
    ASSUME TypeOK, IndexedFirst, HandlerWritten, [Next]_vars
    PROVE  \/ UNCHANGED copies
           \/ \E c \in CreditId : copies[c] = 0 /\ copies' = [copies EXCEPT ![c] = 1]
  <1>1. ASSUME NEW p \in Proc, InsertCredit(p)
        PROVE  \/ UNCHANGED copies
               \/ \E c \in CreditId : copies[c] = 0 /\ copies' = [copies EXCEPT ![c] = 1]
    <2>. DEFINE c == handler[p].credit
    <2>1. c \in CreditId /\ indexed /\ copies[c] \in Nat
      BY <1>1 DEF InsertCredit, IndexedFirst, HandlerWritten, TypeOK
    <2>2. CASE copies[c] > 0
      <3>1. copies' = copies
        BY <1>1, <2>1, <2>2, Zenon DEF InsertCredit
      <3>. QED
        BY <3>1
    <2>3. CASE copies[c] = 0
      <3>1. ~(copies[c] > 0) /\ copies[c] + 1 = 1
        BY <2>3
      <3>2. copies' = [copies EXCEPT ![c] = copies[c] + 1]
        BY <1>1, <3>1, Zenon DEF InsertCredit
      <3>. QED
        BY <2>1, <2>3, <3>1, <3>2
    <2>. QED
      BY <2>1, <2>2, <2>3
  <1>2. ASSUME NEW p \in Proc, DbFailure(p)
        PROVE  \/ UNCHANGED copies
               \/ \E c \in CreditId : copies[c] = 0 /\ copies' = [copies EXCEPT ![c] = 1]
    BY <1>2 DEF DbFailure, HandlerWritten
  <1>. QED
    BY <1>1, <1>2
       DEF Next, ConsumerStep, Issue, Persist, Ack, Deliver, LoseConnection, Crash, Start,
           StartFails, dbVars, vars

\* A document that is there stays there.
LEMMA CopiesStay ==
    ASSUME TypeOK, IndexedFirst, HandlerWritten, [Next]_vars,
           NEW c \in CreditId, copies[c] > 0
    PROVE  copies'[c] > 0
  BY CopiesEffect DEF TypeOK

-----------------------------------------------------------------------------
(* The inductive invariant, one part at a time. *)

LEMMA InvInit == Init => IInv
  <1>. SUFFICES ASSUME Init
                PROVE  IInv
    OBVIOUS
  <1>1. TypeOK
    <2>1. At("down", NoCredit) \in Handler
      BY DEF At, Handler
    <2>2. handler \in [Proc -> Handler]
      BY <2>1 DEF Init
    <2>3. indexed \in BOOLEAN
      BY DEF Init
    <2>4. queue \in Seq(CreditId)
      BY DEF Init
    <2>. QED
      BY <2>2, <2>3, <2>4, CreditAssumption DEF Init, TypeOK
  <1>2. IndexedFirst /\ HandlerWritten /\ OutAtHandler
    BY DEF Init, At, IndexedFirst, HandlerWritten, OutAtHandler
  <1>3. CreditedOnce /\ NoCreditLost
    BY DEF Init, CreditedOnce, NoCreditLost
  <1>. QED
    BY <1>1, <1>2, <1>3 DEF IInv

LEMMA IndexedFirstStep == TypeOK /\ IndexedFirst /\ [Next]_vars => IndexedFirst'
  <1>. SUFFICES ASSUME TypeOK, IndexedFirst, [Next]_vars
                PROVE  IndexedFirst'
    OBVIOUS
  <1>1. CASE \E p \in Proc : Start(p)
    BY <1>1 DEF Start, IndexedFirst
  <1>2. CASE \E p \in Proc : Crash(p) \/ StartFails(p)
    BY <1>2 DEF Crash, StartFails, IndexedFirst, TypeOK, At, dbVars
  <1>3. CASE \E p \in Proc : ConsumerStep(p) \/ Deliver(p)
    BY <1>3 DEF ConsumerStep, Persist, InsertCredit, DbFailure, Ack, Deliver, Goto, Finish, At,
                IndexedFirst, TypeOK, dbVars
  <1>4. CASE UNCHANGED <<handler, indexed>>
    BY <1>4 DEF IndexedFirst
  <1>. QED
    BY <1>1, <1>2, <1>3, <1>4 DEF Next, Issue, LoseConnection, vars, dbVars

LEMMA HandlerWrittenStep ==
    TypeOK /\ IndexedFirst /\ HandlerWritten /\ [Next]_vars => HandlerWritten'
  <1>. SUFFICES ASSUME TypeOK, IndexedFirst, HandlerWritten, [Next]_vars, NEW q \in Proc
                PROVE  /\ handler'[q].pc \in {"persist", "insert", "ack"} =>
                              handler'[q].credit \in CreditId
                       /\ handler'[q].pc = "ack" => copies'[handler'[q].credit] > 0
    BY DEF HandlerWritten
  <1>1. CASE handler'[q] = handler[q]
    BY <1>1, CopiesStay DEF HandlerWritten
  <1>2. CASE Persist(q)
    BY <1>2 DEF Persist, Goto, HandlerWritten, TypeOK, Handler, dbVars
  <1>3. CASE InsertCredit(q)
    <2>. DEFINE c == handler[q].credit
    <2>1. c \in CreditId /\ copies \in [CreditId -> Nat]
      BY <1>3 DEF InsertCredit, HandlerWritten, TypeOK
    <2>2. copies'[c] > 0
      BY <1>3, <2>1 DEF InsertCredit
    <2>. QED
      BY <1>3, <2>1, <2>2 DEF InsertCredit, Goto, TypeOK, Handler
  <1>4. CASE Deliver(q)
    BY <1>4, RangeTail DEF Deliver, At, TypeOK
  <1>5. CASE DbFailure(q) \/ Ack(q) \/ Crash(q) \/ Start(q) \/ StartFails(q)
    BY <1>5 DEF DbFailure, Ack, Crash, Start, StartFails, Finish, At, TypeOK
  <1>. QED
    BY <1>1, <1>2, <1>3, <1>4, <1>5
       DEF Next, ConsumerStep, Issue, Persist, InsertCredit, DbFailure, Ack, Deliver,
           LoseConnection, Crash, Start, StartFails, Goto, Finish, TypeOK, vars

LEMMA OutAtHandlerStep == TypeOK /\ OutAtHandler /\ [Next]_vars => OutAtHandler'
  <1>. SUFFICES ASSUME TypeOK, OutAtHandler, [Next]_vars
                PROVE  OutAtHandler'
    OBVIOUS
  <1>1. CASE \E p \in Proc : LoseConnection(p) \/ Crash(p)
    BY <1>1, RequeueEffect DEF LoseConnection, Crash, OutAtHandler, TypeOK
  <1>2. CASE \E p \in Proc : Deliver(p)
    BY <1>2 DEF Deliver, At, OutAtHandler, TypeOK
  <1>3. CASE \E p \in Proc : DbFailure(p) \/ Ack(p)
    BY <1>3 DEF DbFailure, Ack, Finish, OutAtHandler, TypeOK
  <1>4. CASE \E p \in Proc : Persist(p) \/ InsertCredit(p)
    <2>1. PICK p \in Proc, pc \in {"insert", "ack"} :
              /\ handler[p].pc \in {"persist", "insert"}
              /\ handler' = [handler EXCEPT ![p].pc = pc]
      BY <1>4, Zenon DEF Persist, InsertCredit, Goto
    <2>2. UNCHANGED unacked
      BY <1>4 DEF Persist, InsertCredit, brokerVars
    <2>. QED
      BY <2>1, <2>2 DEF OutAtHandler, TypeOK, Handler
  <1>5. CASE \E p \in Proc : Start(p) \/ StartFails(p)
    BY <1>5 DEF Start, StartFails, At, OutAtHandler, TypeOK, brokerVars
  <1>6. CASE UNCHANGED <<unacked, handler>>
    BY <1>6 DEF OutAtHandler
  <1>. QED
    BY <1>1, <1>2, <1>3, <1>4, <1>5, <1>6 DEF Next, ConsumerStep, Issue, vars

LEMMA CreditedOnceStep ==
    ASSUME TypeOK, IndexedFirst, HandlerWritten, CreditedOnce, [Next]_vars
    PROVE  CreditedOnce'
  <1>1. CASE copies' = copies
    BY <1>1 DEF CreditedOnce
  <1>2. CASE \E c \in CreditId : copies[c] = 0 /\ copies' = [copies EXCEPT ![c] = 1]
    BY <1>2 DEF CreditedOnce, TypeOK
  <1>. QED
    BY <1>1, <1>2, CopiesEffect

LEMMA NoCreditLostStep ==
    ASSUME TypeOK, IndexedFirst, HandlerWritten, OutAtHandler, NoCreditLost, [Next]_vars
    PROVE  NoCreditLost'
  <1>. SUFFICES ASSUME NEW c \in issued'
                PROVE  InFlight(c)' \/ copies'[c] > 0 \/ c \in dropped'
    BY DEF NoCreditLost
  <1>. USE CreditAssumption
  <1>1. ASSUME NEW d \in CreditId, Issue(d)
        PROVE  InFlight(c)' \/ copies'[c] > 0 \/ c \in dropped'
    <2>1. Range(queue') = Range(queue) \cup {d}
      <3>1. queue' = Append(queue, d) /\ queue \in Seq(CreditId)
        BY <1>1 DEF Issue, TypeOK
      <3>. QED
        BY <3>1, RangeAppend
    <2>. QED
      BY <1>1, <2>1 DEF Issue, NoCreditLost, InFlight, dbVars
  <1>2. ASSUME c \in issued, copies[c] > 0 \/ c \in dropped
        PROVE  InFlight(c)' \/ copies'[c] > 0 \/ c \in dropped'
    <2>1. c \in CreditId /\ dropped \subseteq dropped'
      BY <1>2 DEF TypeOK, Next, ConsumerStep, Issue, Persist, InsertCredit, DbFailure, Ack,
                  Deliver, LoseConnection, Crash, Start, StartFails, vars
    <2>. QED
      BY <1>2, <2>1, CopiesStay
  <1>3. ASSUME InFlight(c), NEW p \in Proc, Deliver(p)
        PROVE  InFlight(c)'
    <2>1. Range(queue) = Range(queue') \cup {Head(queue)} /\ Head(queue) \in CreditId
      BY <1>3, RangeTail DEF Deliver, TypeOK
    <2>2. /\ unacked'[p] = Head(queue)
          /\ \A q \in Proc : unacked[q] # NoCredit => unacked'[q] = unacked[q]
      BY <1>3 DEF Deliver, TypeOK
    <2>. QED
      BY <1>3, <2>1, <2>2 DEF InFlight, Deliver, TypeOK
  <1>4. ASSUME c \in issued, InFlight(c), NEW p \in Proc, LoseConnection(p) \/ Crash(p)
        PROVE  InFlight(c)'
    <2>1. /\ Range(queue') = Range(queue) \cup ({unacked[p]} \ {NoCredit})
          /\ unacked' = [unacked EXCEPT ![p] = NoCredit]
          /\ c # NoCredit
      BY <1>4, RequeueEffect DEF LoseConnection, Crash, TypeOK
    <2>. QED
      BY <1>4, <2>1 DEF InFlight, TypeOK
  <1>5. ASSUME c \in issued, InFlight(c), NEW p \in Proc, DbFailure(p)
        PROVE  InFlight(c)' \/ c \in dropped'
    <2>1. unacked[p] = c => c \in dropped'
      BY <1>5 DEF DbFailure, OutAtHandler, TypeOK
    <2>2. queue' = queue /\ \A q \in Proc \ {p} : unacked'[q] = unacked[q]
      BY <1>5 DEF DbFailure, TypeOK
    <2>. QED
      BY <1>5, <2>1, <2>2 DEF InFlight
  <1>6. ASSUME c \in issued, InFlight(c), NEW p \in Proc, Ack(p)
        PROVE  InFlight(c)' \/ copies'[c] > 0
    <2>1. unacked[p] = c => copies'[c] > 0
      BY <1>6 DEF Ack, OutAtHandler, HandlerWritten, TypeOK, dbVars
    <2>2. queue' = queue /\ \A q \in Proc \ {p} : unacked'[q] = unacked[q]
      BY <1>6 DEF Ack, TypeOK
    <2>. QED
      BY <1>6, <2>1, <2>2 DEF InFlight
  <1>7. CASE UNCHANGED brokerVars
    <2>1. InFlight(c) => InFlight(c)'
      BY <1>7 DEF InFlight, brokerVars
    <2>2. c \in issued \/ \E d \in CreditId : Issue(d)
      BY DEF Next, ConsumerStep, Persist, InsertCredit, DbFailure, Ack, Deliver, LoseConnection,
             Crash, Start, StartFails, vars
    <2>. QED
      BY <1>1, <1>2, <2>1, <2>2 DEF NoCreditLost
  <1>8. ~(\E d \in CreditId : Issue(d)) => c \in issued
    BY DEF Next, ConsumerStep, Persist, InsertCredit, DbFailure, Ack, Deliver, LoseConnection,
           Crash, Start, StartFails, vars
  <1>9. \/ \E d \in CreditId : Issue(d)
        \/ \E p \in Proc : Deliver(p) \/ LoseConnection(p) \/ Crash(p) \/ DbFailure(p) \/ Ack(p)
        \/ UNCHANGED brokerVars
    BY DEF Next, ConsumerStep, Persist, InsertCredit, Start, StartFails, vars, brokerVars
  <1>. QED
    BY <1>1, <1>2, <1>3, <1>4, <1>5, <1>6, <1>7, <1>8, <1>9 DEF NoCreditLost

LEMMA InvStep == IInv /\ [Next]_vars => IInv'
  BY TypeStep, IndexedFirstStep, HandlerWrittenStep, OutAtHandlerStep, CreditedOnceStep,
     NoCreditLostStep DEF IInv

LEMMA Invariance == Spec => []IInv
  BY InvInit, InvStep, PTL DEF Spec

-----------------------------------------------------------------------------
\* A redelivery, a second event or two processes at once never credit a wallet twice.
THEOREM CreditedOnceAlways == Spec => []CreditedOnce
  <1>1. IInv => CreditedOnce
    BY DEF IInv
  <1>. QED
    BY <1>1, Invariance, PTL

\* An issued credit is on its way, in the collection, or its message was rejected.
THEOREM NoCreditLostAlways == Spec => []NoCreditLost
  <1>1. IInv => NoCreditLost
    BY DEF IInv
  <1>. QED
    BY <1>1, Invariance, PTL

LEMMA BookInit == Init => Book!Init
  BY DEF Init, Book!Init

LEMMA BookStep == IInv /\ [Next]_vars => [Book!Next]_copies
  BY CopiesEffect DEF IInv, Book!Next, Book!Record

\* The collection is a CreditBook: a credit is written once, by whichever process, and no
\* step writes it again, replaces it or takes it away.
THEOREM CreditBookRefinement == Spec => ImplementsCreditBook
  BY BookInit, BookStep, Invariance, PTL DEF Spec, ImplementsCreditBook, Book!Spec
=============================================================================
