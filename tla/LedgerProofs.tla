---------------------------- MODULE LedgerProofs ----------------------------
(***************************************************************************)
(* Proofs about Ledger, for every set of requests, wallets, blocks and     *)
(* every bound: what the transfer endpoint and the block.mined consumer do *)
(* to the mempool together.                                                *)
(*                                                                         *)
(* For the consumer a request is a Submit of its environment, so its       *)
(* inductive invariant holds in the whole process; what is added is what a *)
(* request under way knows of its own document, and, when the API is one   *)
(* process, of the number of pending ones.                                 *)
(*                                                                         *)
(* The balance is made of sums over finite sets: SumFunctionOnSet of the   *)
(* community modules folds + in the order CHOOSE finds.  The lemmas on     *)
(* sums show that the order does not matter, and what an element more      *)
(* adds; their inductions are by a smallest counterexample (SmallestSet).  *)
(***************************************************************************)
EXTENDS Ledger, Functions, FiniteSetTheorems, TLAPS

Proven == INSTANCE BlockMinedConsumerProofs

\* Where a request is before its insert, and where it has counted the pending transfers.
BeforeInsert == {"amount", "wallets", "count", "blocks", "credits", "pending", "insert"}
Counted == {"blocks", "credits", "pending", "insert"}

\* A request under way has an id of its own, whose document is not there yet.
CallsApart ==
    /\ call = [p \in Proc |-> call[p]]
    /\ \A p \in Proc :
          /\ call[p].pc \in BeforeInsert \cup {"idle", "publish"}
          /\ call[p].pc # "idle" => call[p].tx \in TxId
          /\ call[p].pc = "idle" => call[p].tx = NoTx
          /\ call[p].pc \in BeforeInsert => transactions[call[p].tx] = Consumer!NoDoc
    /\ \A p, q \in Proc : p # q /\ call[p].pc # "idle" => call[q].tx # call[p].tx

\* M3 takes transactions from the mempool only.
ListedKnown ==
    \A b \in published : \A t \in Consumer!IdsOf(b) \cap TxId : transactions[t] # Consumer!NoDoc

LInv == Proven!IInv /\ CallsApart /\ ListedKnown

-----------------------------------------------------------------------------
(* The steps of the consumer. *)

LEMMA Assumptions == Proven!BlocksAssumption /\ Proven!BoundsAssumption
  BY LedgerAssumption
     DEF Consumer!BlocksAssumption, Consumer!BoundsAssumption, Proven!BlocksAssumption,
         Proven!BoundsAssumption, Consumer!PostedDoc, Consumer!NoIndex, Proven!PostedDoc,
         Proven!NoIndex

\* What a request posts is a document.
LEMMA PostedDocument ==
    \A t \in TxId : Posted[t].status # "ABSENT" /\ Posted[t] # Consumer!NoDoc
  <1>. TAKE t \in TxId
  <1>1. Posted[t].status \in {"PENDING", "CONFIRMED"}
    BY Assumptions DEF Proven!BlocksAssumption, Proven!PostedDoc
  <1>2. Consumer!NoDoc.status = "ABSENT"
    BY DEF Consumer!NoDoc
  <1>. QED
    BY <1>1, <1>2

\* The handler, seen from the proofs about it.
LEMMA HandlerSteps ==
    ASSUME NEW p \in Proc, Consumer!ConsumerStep(p)
    PROVE  Proven!ConsumerStep(p)
  <1>. USE DEF Consumer!At, Consumer!Idle, Consumer!Busy, Consumer!Confirming, Consumer!dbVars,
               Consumer!historyVars, Consumer!brokerVars, Consumer!HeightTaken,
               Consumer!ConfirmEntry, Consumer!NoDoc, Consumer!NoIndex, Consumer!ConfirmedDoc,
               Proven!At, Proven!Idle, Proven!Busy, Proven!Confirming, Proven!dbVars,
               Proven!historyVars, Proven!brokerVars, Proven!HeightTaken,
               Proven!ConfirmEntry, Proven!NoDoc, Proven!NoIndex, Proven!ConfirmedDoc
  <1>1. Consumer!Ack(p) => Proven!Ack(p)
    BY DEF Proven!Ack, Consumer!Ack
  <1>2. Consumer!Persist(p) => Proven!Persist(p)
    BY DEF Proven!Persist, Consumer!Persist
  <1>3. Consumer!InsertBlock(p) => Proven!InsertBlock(p)
    BY DEF Proven!InsertBlock, Proven!Store, Proven!Collide, Proven!RaceLost,
           Consumer!InsertBlock, Consumer!Store, Consumer!Collide, Consumer!RaceLost
  <1>4. Consumer!ConfirmNext(p) => Proven!ConfirmNext(p)
    BY DEF Proven!ConfirmNext, Consumer!ConfirmNext
  <1>5. Consumer!DbFailure(p) => Proven!DbFailure(p)
    BY DEF Proven!DbFailure, Consumer!DbFailure
  <1>. QED
    BY <1>1, <1>2, <1>3, <1>4, <1>5 DEF Proven!ConsumerStep, Consumer!ConsumerStep

\* The broker, the process and the transfers, seen from those proofs.
LEMMA EnvironmentSteps ==
    ASSUME NEW p \in Proc,
           \/ Consumer!Deliver(p) \/ Consumer!LoseConnection(p) \/ Consumer!Crash(p)
           \/ Consumer!Restart(p) \/ Consumer!StartFails(p)
    PROVE  Proven!BrokerStep(p) \/ Proven!ProcessStep(p)
  <1>. USE DEF Consumer!At, Consumer!Idle, Consumer!Down, Consumer!Dead, Consumer!dbVars,
               Consumer!historyVars, Consumer!brokerVars, Consumer!Requeue,
               Proven!At, Proven!Idle, Proven!Down, Proven!Dead, Proven!dbVars,
               Proven!historyVars, Proven!brokerVars, Proven!Requeue
  <1>1. Consumer!Deliver(p) => Proven!Deliver(p)
    BY DEF Proven!Deliver, Consumer!Deliver
  <1>2. Consumer!LoseConnection(p) => Proven!LoseConnection(p)
    BY DEF Proven!LoseConnection, Consumer!LoseConnection
  <1>3. Consumer!Crash(p) => Proven!Crash(p)
    BY DEF Proven!Crash, Consumer!Crash
  <1>4. Consumer!Restart(p) => Proven!Restart(p)
    BY DEF Proven!Restart, Consumer!Restart
  <1>5. Consumer!StartFails(p) => Proven!StartFails(p)
    BY DEF Proven!StartFails, Consumer!StartFails
  <1>. QED
    BY <1>1, <1>2, <1>3, <1>4, <1>5 DEF Proven!BrokerStep, Proven!ProcessStep

LEMMA PublishStep == \A b \in Block : Consumer!Publish(b) => Proven!Publish(b)
  BY DEF Proven!Publish, Proven!IdsOf, Proven!NoDoc, Proven!NoIndex, Proven!dbVars,
         Proven!brokerVars, Proven!historyVars, Consumer!Publish, Consumer!IdsOf,
         Consumer!NoDoc, Consumer!NoIndex, Consumer!dbVars, Consumer!brokerVars,
         Consumer!historyVars

\* The actions of a request, by what they do to the collections: nothing before the
\* insert, and the insert.
LEMMA RequestEffect ==
    ASSUME NEW p \in Proc, Transfers!TransferStep(p)
    PROVE  /\ UNCHANGED <<blocks, credits>>
           /\ \/ UNCHANGED transactions
              \/ /\ call[p].pc = "insert"
                 /\ transactions' = [transactions EXCEPT ![call[p].tx] = Posted[call[p].tx]]
  BY DEF Transfers!TransferStep, Transfers!Receive, Transfers!CheckAmount,
         Transfers!CheckWallets, Transfers!CountPending, Transfers!ReadBlocks,
         Transfers!ReadCredits, Transfers!ReadPending, Transfers!Insert, Transfers!Announce

\* For the consumer, the insert of a request is a Submit.
LEMMA InsertSubmits ==
    ASSUME LInv, NEW p \in Proc, ServeRequest(p)
    PROVE  Proven!Next \/ UNCHANGED Proven!vars
  <1>1. CASE UNCHANGED transactions
    BY <1>1, RequestEffect DEF ServeRequest, messageVars, Proven!vars
  <1>2. CASE /\ call[p].pc = "insert"
             /\ transactions' = [transactions EXCEPT ![call[p].tx] = Posted[call[p].tx]]
    <2>. DEFINE t == call[p].tx
    <2>1. t \in TxId /\ transactions[t] = Consumer!NoDoc
      BY <1>2 DEF LInv, CallsApart, BeforeInsert
    <2>2. \A b \in published : t \notin Proven!IdsOf(b)
      BY <2>1 DEF LInv, ListedKnown, Consumer!IdsOf, Proven!IdsOf
    <2>3. Proven!Submit(t)
      BY <1>2, <2>1, <2>2, RequestEffect
         DEF ServeRequest, messageVars, Proven!Submit, Proven!NoDoc, Proven!NoIndex,
             Proven!brokerVars, Proven!historyVars, Consumer!NoDoc, Consumer!NoIndex
    <2>. QED
      BY <2>1, <2>3 DEF Proven!Next
  <1>. QED
    BY <1>1, <1>2, RequestEffect DEF ServeRequest

\* A step is one of the consumer, or changes no more of its state than the count of
\* failed calls.
LEMMA StepKinds ==
    ASSUME LInv, [Next]_vars
    PROVE  \/ [Proven!Next]_(Proven!vars)
           \/ /\ UNCHANGED <<blocks, transactions, queue, unacked, handler, published, dropped,
                             raced, crashes>>
              /\ failures' \in 0..MaxFailures
  <1>1. ASSUME NEW p \in Proc, FailRequest(p)
        PROVE  /\ UNCHANGED <<blocks, transactions, queue, unacked, handler, published, dropped,
                              raced, crashes>>
               /\ failures' \in 0..MaxFailures
    BY <1>1, Assumptions
       DEF FailRequest, Transfers!Abandon, messageVars, LInv, Proven!IInv, Proven!TypeOK,
           Proven!BoundsAssumption
  <1>2. ASSUME NEW b \in Block, Publish(b)
        PROVE  Proven!Next
    BY <1>2, PublishStep DEF Publish, Proven!Next
  <1>3. ASSUME NEW p \in Proc,
               HandleMessage(p) \/ LoseConnection(p) \/ Crash(p) \/ Restart(p)
        PROVE  Proven!Next
    BY <1>3, HandlerSteps, EnvironmentSteps
       DEF HandleMessage, LoseConnection, Crash, Restart, Proven!Next
  <1>4. ASSUME NEW c \in CreditId, RecordCredit(c)
        PROVE  UNCHANGED Proven!vars
    BY <1>4 DEF RecordCredit, messageVars, Proven!vars
  <1>5. CASE UNCHANGED vars
    BY <1>5 DEF vars, Proven!vars
  <1>. QED
    BY <1>1, <1>2, <1>3, <1>4, <1>5, InsertSubmits DEF Next

LEMMA ConsumerInvStep == LInv /\ [Next]_vars => Proven!IInv'
  <1>. SUFFICES ASSUME LInv, [Next]_vars
                PROVE  Proven!IInv'
    OBVIOUS
  <1>1. CASE [Proven!Next]_(Proven!vars)
    BY <1>1, Proven!InvStep, Assumptions DEF LInv
  <1>2. CASE /\ UNCHANGED <<blocks, transactions, queue, unacked, handler, published, dropped,
                            raced, crashes>>
             /\ failures' \in 0..MaxFailures
    BY <1>2
       DEF LInv, Proven!IInv, Proven!TypeOK, Proven!UniqueHeights,
           Proven!OnlyPublished, Proven!OutAtHandler, Proven!HandlerStored,
           Proven!PassedEntries, Proven!ConfirmedInChain, Proven!NoSilentLoss,
           Proven!NoForgottenConfirmation, Proven!HeightTaken, Proven!InFlight
  <1>. QED
    BY <1>1, <1>2, StepKinds

-----------------------------------------------------------------------------
(* The mempool. *)

\* A step leaves the document of a transfer as it is, inserts the one of the request at
\* its insert, or confirms one that a stored block lists.
LEMMA DocEffect ==
    ASSUME LInv, [Next]_vars, NEW t \in TxId
    PROVE  \/ transactions'[t] = transactions[t]
           \/ \E p \in Proc : /\ call[p].pc = "insert" /\ t = call[p].tx
                              /\ ServeRequest(p)
                              /\ transactions[t] = Consumer!NoDoc
                              /\ transactions'[t] = Posted[t]
           \/ \E b \in blocks : /\ t \in Consumer!IdsOf(b)
                                /\ transactions[t] # Consumer!NoDoc
                                /\ transactions'[t] = Consumer!ConfirmedDoc(BlockIndex[b])
  <1>1. ASSUME NEW p \in Proc, ServeRequest(p)
        PROVE  \/ transactions'[t] = transactions[t]
               \/ /\ call[p].pc = "insert" /\ t = call[p].tx
                  /\ transactions[t] = Consumer!NoDoc
                  /\ transactions'[t] = Posted[t]
    BY <1>1, RequestEffect
       DEF ServeRequest, LInv, CallsApart, BeforeInsert, Proven!IInv, Proven!TypeOK
  <1>2. ASSUME NEW p \in Proc, HandleMessage(p)
        PROVE  \/ transactions'[t] = transactions[t]
               \/ \E b \in blocks : /\ t \in Consumer!IdsOf(b)
                                    /\ transactions[t] # Consumer!NoDoc
                                    /\ transactions'[t] = Consumer!ConfirmedDoc(BlockIndex[b])
    <2>. DEFINE b == handler[p].block
                n == handler[p].next
    <2>1. transactions' = transactions \/ (Consumer!Confirming(p) /\ Consumer!ConfirmEntry(b, n))
      BY <1>2
         DEF HandleMessage, Consumer!ConsumerStep, Consumer!Persist, Consumer!InsertBlock,
             Consumer!ConfirmNext, Consumer!DbFailure, Consumer!Ack, Consumer!Deliver,
             Consumer!dbVars
    <2>2. CASE Consumer!Confirming(p) /\ Consumer!ConfirmEntry(b, n)
      <3>1. b \in blocks /\ b \in Block /\ n \in 1..Len(BlockTxs[b])
        BY <2>2
           DEF Consumer!Confirming, LInv, Proven!IInv, Proven!HandlerStored, Proven!TypeOK,
               Proven!Handler
      <3>2. n \in DOMAIN BlockTxs[b] /\ NoId \notin TxId
        BY <3>1, Assumptions DEF Proven!BlocksAssumption
      <3>3. CASE BlockTxs[b][n] = t /\ transactions[t] # Consumer!NoDoc
        <4>1. t \in Consumer!IdsOf(b)
          BY <3>2, <3>3 DEF Consumer!IdsOf
        <4>. QED
          BY <2>2, <3>1, <3>3, <4>1
             DEF Consumer!ConfirmEntry, LInv, Proven!IInv, Proven!TypeOK
      <3>4. CASE ~(BlockTxs[b][n] = t /\ transactions[t] # Consumer!NoDoc)
        BY <2>2, <3>4 DEF Consumer!ConfirmEntry, LInv, Proven!IInv, Proven!TypeOK
      <3>. QED
        BY <3>3, <3>4
    <2>. QED
      BY <2>1, <2>2
  <1>. QED
    BY <1>1, <1>2
       DEF Next, Publish, FailRequest, LoseConnection, Crash, Restart, RecordCredit,
           Transfers!Abandon, Consumer!Publish, Consumer!LoseConnection, Consumer!Crash,
           Consumer!Restart, Consumer!StartFails, Consumer!dbVars, vars

LEMMA ListedKnownStep == LInv /\ [Next]_vars => ListedKnown'
  <1>. SUFFICES ASSUME LInv, [Next]_vars, NEW b \in published', NEW t \in Consumer!IdsOf(b) \cap TxId
                PROVE  transactions'[t] # Consumer!NoDoc
    BY DEF ListedKnown, Consumer!IdsOf, Consumer!NoDoc, Consumer!NoIndex
  <1>1. b \in published \/ \E c \in Block : Publish(c)
    BY DEF Next, ServeRequest, FailRequest, HandleMessage, LoseConnection, Crash, Restart,
           RecordCredit, messageVars, vars, Consumer!ConsumerStep, Consumer!Persist,
           Consumer!InsertBlock, Consumer!ConfirmNext, Consumer!DbFailure, Consumer!Ack,
           Consumer!Deliver, Consumer!LoseConnection, Consumer!Crash, Consumer!Restart,
           Consumer!StartFails, Consumer!historyVars
  <1>2. CASE b \in published
    <2>1. transactions[t] # Consumer!NoDoc
      BY <1>2 DEF LInv, ListedKnown
    <2>2. \A c \in blocks : Consumer!ConfirmedDoc(BlockIndex[c]) # Consumer!NoDoc
      BY DEF Consumer!NoDoc, Consumer!ConfirmedDoc
    <2>. QED
      BY <2>1, <2>2, DocEffect, PostedDocument
  <1>3. ASSUME NEW c \in Block, Publish(c), b \notin published
        PROVE  transactions'[t] # Consumer!NoDoc
    BY <1>3 DEF Publish, Consumer!Publish, Consumer!dbVars
  <1>. QED
    BY <1>1, <1>2, <1>3

-----------------------------------------------------------------------------
(* The requests. *)

\* Nobody else inserts the document of a request.
LEMMA NotYetInserted ==
    ASSUME LInv, [Next]_vars, NEW t \in TxId, transactions[t] = Consumer!NoDoc,
           ~\E p \in Proc : ServeRequest(p)
    PROVE  transactions'[t] = Consumer!NoDoc
  BY DocEffect

\* What a new value for one process does to the function of the requests.
LEMMA CallUpdate ==
    ASSUME call = [q \in Proc |-> call[q]], NEW p \in Proc, NEW c, call' = [call EXCEPT ![p] = c]
    PROVE  /\ call' = [q \in Proc |-> call'[q]]
           /\ call'[p] = c
           /\ \A q \in Proc \ {p} : call'[q] = call[q]
  OBVIOUS

\* How a step of a request moves it on.
LEMMA RequestMoves ==
    ASSUME NEW p \in Proc, Transfers!TransferStep(p), call = [q \in Proc |-> call[q]]
    PROVE  \E c : /\ call' = [call EXCEPT ![p] = c]
                  /\ \/ c = Transfers!NoCall
                     \/ /\ call[p].pc = "idle" /\ c.pc = "amount"
                        /\ c.tx \in TxId /\ transactions[c.tx] = Consumer!NoDoc
                        /\ \A q \in Proc : call[q].tx # c.tx
                     \/ /\ call[p].pc \in BeforeInsert \ {"insert"} /\ c.pc \in BeforeInsert
                        /\ c.tx = call[p].tx
                     \/ /\ call[p].pc = "insert" /\ c.pc = "publish"
                        /\ c.tx = call[p].tx
  <1>. DEFINE Moved == \E pc \in BeforeInsert : \E n : Transfers!Goto(p, pc, n)
  <1>1. ASSUME NEW t \in TxId, Transfers!Receive(p, t)
        PROVE  /\ call' = [call EXCEPT ![p] = Transfers!Step("amount", t, 0)]
               /\ call[p].pc = "idle" /\ transactions[t] = Consumer!NoDoc
               /\ \A q \in Proc : call[q].tx # t
    BY <1>1
       DEF Transfers!Receive, Transfers!InCall, Transfers!NoDoc, Transfers!NoIndex,
           Consumer!NoDoc, Consumer!NoIndex
  <1>2. ASSUME Transfers!CheckAmount(p) \/ Transfers!CheckWallets(p)
        PROVE  call[p].pc \in BeforeInsert \ {"insert"} /\ (Transfers!Respond(p) \/ Moved)
    BY <1>2 DEF Transfers!CheckAmount, Transfers!CheckWallets, BeforeInsert
  <1>3. ASSUME Transfers!CountPending(p)
        PROVE  call[p].pc \in BeforeInsert \ {"insert"} /\ (Transfers!Respond(p) \/ Moved)
    BY <1>3 DEF Transfers!CountPending, BeforeInsert
  <1>4. ASSUME Transfers!ReadBlocks(p) \/ Transfers!ReadCredits(p)
        PROVE  call[p].pc \in BeforeInsert \ {"insert"} /\ (Transfers!Respond(p) \/ Moved)
    BY <1>4 DEF Transfers!ReadBlocks, Transfers!ReadCredits, BeforeInsert
  <1>5. ASSUME Transfers!ReadPending(p)
        PROVE  call[p].pc \in BeforeInsert \ {"insert"} /\ (Transfers!Respond(p) \/ Moved)
    BY <1>5 DEF Transfers!ReadPending, BeforeInsert
  <1>6. ASSUME Transfers!Insert(p)
        PROVE  call[p].pc = "insert" /\ Transfers!Goto(p, "publish", 0)
    BY <1>6 DEF Transfers!Insert
  <1>7. ASSUME Transfers!Announce(p)
        PROVE  Transfers!Respond(p)
    BY <1>7 DEF Transfers!Announce
  <1>8. CASE \E t \in TxId : Transfers!Receive(p, t)
    BY <1>1, <1>8 DEF Transfers!Step
  <1>9. CASE Transfers!Respond(p)
    BY <1>9 DEF Transfers!Respond
  <1>10. CASE call[p].pc \in BeforeInsert \ {"insert"} /\ Moved
    BY <1>10 DEF Transfers!Goto, Transfers!Step
  <1>11. CASE call[p].pc = "insert" /\ Transfers!Goto(p, "publish", 0)
    <2>1. call' = [call EXCEPT ![p] = [pc |-> "publish", tx |-> call[p].tx, balance |-> 0]]
      BY <1>11 DEF Transfers!Goto, Transfers!Step
    <2>. DEFINE c == [pc |-> "publish", tx |-> call[p].tx, balance |-> 0]
    <2>2. call' = [call EXCEPT ![p] = c] /\ c.pc = "publish" /\ c.tx = call[p].tx
      BY <2>1
    <2>3. call[p].pc = "insert"
      BY <1>11
    <2>. HIDE DEF c
    <2>. QED
      BY <2>2, <2>3
  <1>12. \/ \E t \in TxId : Transfers!Receive(p, t)
         \/ Transfers!Respond(p)
         \/ call[p].pc \in BeforeInsert \ {"insert"} /\ Moved
         \/ call[p].pc = "insert" /\ Transfers!Goto(p, "publish", 0)
    <2>. HIDE DEF Moved
    <2>. QED
      BY <1>2, <1>3, <1>4, <1>5, <1>6, <1>7 DEF Transfers!TransferStep
  <1>. HIDE DEF Moved
  <1>. QED
    BY <1>8, <1>9, <1>10, <1>11, <1>12, Zenon

LEMMA CallsApartStep == LInv /\ [Next]_vars => CallsApart'
  <1>. SUFFICES ASSUME LInv, [Next]_vars
                PROVE  CallsApart'
    OBVIOUS
  <1>. USE LedgerAssumption
  <1>1. CallsApart
    BY DEF LInv
  <1>2. ASSUME NEW p \in Proc, call' = [call EXCEPT ![p] = Transfers!NoCall],
               UNCHANGED transactions
        PROVE  CallsApart'
    BY <1>1, <1>2 DEF Transfers!NoCall, CallsApart, BeforeInsert, Consumer!NoDoc, Consumer!NoIndex
  <1>3. ASSUME NEW p \in Proc, ServeRequest(p)
        PROVE  CallsApart'
    <2>1. Transfers!TransferStep(p)
      BY <1>3 DEF ServeRequest
    <2>2. PICK c : /\ call' = [call EXCEPT ![p] = c]
                   /\ \/ c = Transfers!NoCall
                      \/ /\ call[p].pc = "idle" /\ c.pc = "amount"
                         /\ c.tx \in TxId /\ transactions[c.tx] = Consumer!NoDoc
                         /\ \A q \in Proc : call[q].tx # c.tx
                      \/ /\ call[p].pc \in BeforeInsert \ {"insert"} /\ c.pc \in BeforeInsert
                         /\ c.tx = call[p].tx
                      \/ /\ call[p].pc = "insert" /\ c.pc = "publish"
                         /\ c.tx = call[p].tx
      BY <1>1, <2>1, RequestMoves DEF CallsApart
    <2>3. /\ call' = [q \in Proc |-> call'[q]] /\ call'[p] = c
          /\ \A q \in Proc \ {p} : call'[q] = call[q]
      BY <1>1, <2>2, CallUpdate DEF CallsApart
    <2>4. ASSUME NEW q \in Proc
          PROVE  /\ call'[q].pc \in BeforeInsert \cup {"idle", "publish"}
                 /\ call'[q].pc # "idle" => call'[q].tx \in TxId
                 /\ call'[q].pc = "idle" => call'[q].tx = NoTx
      BY <1>1, <2>2, <2>3 DEF CallsApart, Transfers!NoCall, BeforeInsert
    <2>5. ASSUME NEW q \in Proc, call'[q].pc \in BeforeInsert
          PROVE  transactions[call'[q].tx] = Consumer!NoDoc
      BY <1>1, <2>2, <2>3, <2>5 DEF CallsApart, Transfers!NoCall, BeforeInsert
    <2>6. ASSUME NEW q \in Proc, NEW r \in Proc, q # r, call'[q].pc # "idle"
          PROVE  call'[r].tx # call'[q].tx
      BY <1>1, <2>2, <2>3, <2>4, <2>6 DEF CallsApart, Transfers!NoCall, BeforeInsert
    <2>7. ASSUME NEW q \in Proc, call'[q].pc \in BeforeInsert
          PROVE  transactions'[call'[q].tx] = Consumer!NoDoc
      <3>1. CASE UNCHANGED transactions
        BY <2>5, <2>7, <3>1
      <3>2. CASE /\ call[p].pc = "insert"
                 /\ transactions' = [transactions EXCEPT ![call[p].tx] = Posted[call[p].tx]]
        <4>1. call'[p].pc \in {"idle", "publish"}
          BY <2>2, <2>3, <3>2 DEF Transfers!NoCall, BeforeInsert
        <4>2. q # p /\ call'[q] = call[q] /\ call[q].tx # call[p].tx
          BY <1>1, <2>3, <2>7, <3>2, <4>1 DEF CallsApart, BeforeInsert
        <4>. QED
          BY <2>4, <2>5, <2>7, <3>2, <4>2 DEF LInv, Proven!IInv, Proven!TypeOK, BeforeInsert
      <3>. QED
        BY <2>1, <3>1, <3>2, RequestEffect
    <2>. QED
      BY <2>3, <2>4, <2>6, <2>7 DEF CallsApart, Consumer!NoDoc, Consumer!NoIndex
  <1>4. ASSUME UNCHANGED call, ~\E p \in Proc : ServeRequest(p)
        PROVE  CallsApart'
    <2>1. \A p \in Proc : call[p].pc \in BeforeInsert => transactions'[call[p].tx] = Consumer!NoDoc
      BY <1>1, <1>4, NotYetInserted DEF CallsApart, BeforeInsert
    <2>. QED
      BY <1>1, <1>4, <2>1 DEF CallsApart, Consumer!NoDoc, Consumer!NoIndex
  <1>5. ASSUME NEW p \in Proc, FailRequest(p) \/ Crash(p)
        PROVE  CallsApart'
    BY <1>2, <1>5
       DEF FailRequest, Crash, Transfers!Abandon, Transfers!Respond, Consumer!Crash,
           Consumer!dbVars
  <1>. QED
    BY <1>3, <1>4, <1>5
       DEF Next, Publish, HandleMessage, LoseConnection, Restart, RecordCredit, vars

LEMMA LInvInit == Init => LInv
  <1>. SUFFICES ASSUME Init
                PROVE  LInv
    OBVIOUS
  <1>1. Proven!Init
    BY DEF Init, Consumer!Init, Consumer!NoDoc, Consumer!NoIndex, Consumer!Idle, Proven!Init,
           Proven!NoDoc, Proven!NoIndex, Proven!Idle
  <1>2. Proven!IInv
    BY <1>1, Proven!InvInit, Assumptions
  <1>3. CallsApart
    BY DEF Init, Transfers!NoCall, CallsApart, BeforeInsert
  <1>4. ListedKnown
    BY LedgerAssumption DEF Init, Consumer!Init, ListedKnown
  <1>. QED
    BY <1>2, <1>3, <1>4 DEF LInv

LEMMA LInvStep == LInv /\ [Next]_vars => LInv'
  BY ConsumerInvStep, CallsApartStep, ListedKnownStep DEF LInv

LEMMA LInvariance == Spec => []LInv
  BY LInvInit, LInvStep, PTL DEF Spec

-----------------------------------------------------------------------------
\* A transfer leaves the mempool only into a stored block, and nothing the service has
\* stored is undone (the update of the consumer, block_mined_consumer.py:74).
THEOREM NothingUndoneAlways == Spec => NothingUndone
  <1>. DEFINE Kept ==
         \A t \in TxId :
            transactions[t].status # "ABSENT" /\ transactions'[t] # transactions[t] =>
                \E b \in blocks : t \in Consumer!IdsOf(b)
                                  /\ transactions'[t].block_index = BlockIndex[b]
  <1>1. LInv /\ [Next]_vars => [Kept]_vars
    <2>. SUFFICES ASSUME LInv, [Next]_vars, NEW t \in TxId,
                         transactions[t].status # "ABSENT",
                         transactions'[t] # transactions[t]
                  PROVE  \E b \in blocks : t \in Consumer!IdsOf(b)
                                           /\ transactions'[t].block_index = BlockIndex[b]
      OBVIOUS
    <2>1. transactions[t] # Consumer!NoDoc
      BY DEF Consumer!NoDoc
    <2>2. PICK b \in blocks : /\ t \in Consumer!IdsOf(b)
                              /\ transactions'[t] = Consumer!ConfirmedDoc(BlockIndex[b])
      BY <2>1, DocEffect
    <2>. QED
      BY <2>2 DEF Consumer!ConfirmedDoc
  <1>. QED
    BY <1>1, LInvariance, PTL DEF Spec, NothingUndone

-----------------------------------------------------------------------------
(* The limit of pending transfers, when the API is one process. *)

\* A request that has counted has found room for one more.
RoomCounted ==
    \A p \in Proc :
        call[p].pc \in Counted => Cardinality(Transfers!PendingOf(From[call[p].tx])) < PendingLimit

LimitInv == LInv /\ RoomCounted /\ PendingLimitRespected

LEMMA FewTransfers ==
    ASSUME NEW S, S \subseteq TxId
    PROVE  IsFiniteSet(S) /\ Cardinality(S) \in Nat
  BY LedgerAssumption, FS_Subset, FS_CardinalityType

\* Only the insert of a request adds to the pending transfers of a wallet: its sender.
LEMMA PendingEffect ==
    ASSUME LInv, [Next]_vars, NEW w
    PROVE  \/ Transfers!PendingOf(w)' \subseteq Transfers!PendingOf(w)
           \/ \E p \in Proc :
                /\ call[p].pc = "insert" /\ w = From[call[p].tx]
                /\ ServeRequest(p)
                /\ Transfers!PendingOf(w)' \subseteq Transfers!PendingOf(w) \cup {call[p].tx}
  <1>1. CASE \E p \in Proc : ServeRequest(p) /\ call[p].pc = "insert"
    <2>1. PICK p \in Proc : ServeRequest(p) /\ call[p].pc = "insert"
      BY <1>1
    <2>2. \A t \in TxId \ {call[p].tx} : transactions'[t] = transactions[t]
      BY <2>1, RequestEffect DEF ServeRequest, LInv, Proven!IInv, Proven!TypeOK
    <2>3. Transfers!PendingOf(w)' \subseteq Transfers!PendingOf(w) \cup {call[p].tx}
      BY <2>2 DEF Transfers!PendingOf
    <2>4. CASE w # From[call[p].tx]
      BY <2>3, <2>4 DEF Transfers!PendingOf
    <2>. QED
      BY <2>1, <2>3, <2>4
  <1>2. CASE ~\E p \in Proc : ServeRequest(p) /\ call[p].pc = "insert"
    <2>1. ASSUME NEW t \in TxId
          PROVE  \/ transactions'[t] = transactions[t]
                 \/ transactions'[t].status = "CONFIRMED"
      <3>1. \A b \in blocks : Consumer!ConfirmedDoc(BlockIndex[b]).status = "CONFIRMED"
        BY DEF Consumer!ConfirmedDoc
      <3>. QED
        BY <1>2, <3>1, DocEffect
    <2>. QED
      BY <2>1 DEF Transfers!PendingOf
  <1>. QED
    BY <1>1, <1>2

LEMMA LimitRespectedStep == LimitInv /\ [Next]_vars => PendingLimitRespected'
  <1>. SUFFICES ASSUME LimitInv, [Next]_vars, NEW w \in {From[t] : t \in TxId}
                PROVE  Cardinality(Transfers!PendingOf(w))' <= PendingLimit
    BY DEF PendingLimitRespected
  <1>. DEFINE S == Transfers!PendingOf(w)
              T == Transfers!PendingOf(w)'
  <1>1. S \subseteq TxId /\ T \subseteq TxId
    BY DEF Transfers!PendingOf
  <1>2. /\ IsFiniteSet(S) /\ Cardinality(S) \in Nat /\ Cardinality(S) <= PendingLimit
        /\ IsFiniteSet(T) /\ Cardinality(T) \in Nat
    BY <1>1, FewTransfers DEF LimitInv, PendingLimitRespected
  <1>3. CASE T \subseteq S
    <2>1. Cardinality(T) <= Cardinality(S)
      BY <1>2, <1>3, FS_Subset
    <2>. QED
      BY <1>2, <2>1, LedgerAssumption
  <1>4. ASSUME NEW p \in Proc, call[p].pc = "insert", w = From[call[p].tx],
               T \subseteq S \cup {call[p].tx}
        PROVE  Cardinality(T) <= PendingLimit
    <2>1. Cardinality(S) < PendingLimit
      BY <1>4 DEF LimitInv, RoomCounted, Counted
    <2>2. /\ IsFiniteSet(S \cup {call[p].tx})
          /\ Cardinality(S \cup {call[p].tx}) \in {Cardinality(S), Cardinality(S) + 1}
      BY <1>2, FS_AddElement
    <2>3. Cardinality(T) <= Cardinality(S \cup {call[p].tx})
      BY <1>4, <2>2, FS_Subset
    <2>. QED
      BY <1>2, <2>1, <2>2, <2>3, LedgerAssumption
  <1>. QED
    BY <1>3, <1>4, PendingEffect DEF LimitInv

\* Both modules take the cardinality from FiniteSets.
LEMMA SameCardinality == \A S : Transfers!Cardinality(S) = Cardinality(S)
  BY DEF Cardinality, Transfers!Cardinality

\* The step at which a request has counted.
LEMMA CountEffect ==
    ASSUME LInv, NEW p \in Proc, Transfers!TransferStep(p), call'[p].pc \in Counted
    PROVE  /\ call'[p].tx = call[p].tx
           /\ \/ call[p].pc \in Counted
              \/ Cardinality(Transfers!PendingOf(From[call[p].tx])) < PendingLimit
  <1>. USE DEF Transfers!Goto, Transfers!Respond, Transfers!Step, Transfers!NoCall
  <1>1. call = [q \in Proc |-> call[q]]
    BY DEF LInv, CallsApart
  <1>2. CASE \E t \in TxId : Transfers!Receive(p, t)
    BY <1>1, <1>2 DEF Transfers!Receive, Counted
  <1>3. CASE Transfers!CheckAmount(p) \/ Transfers!CheckWallets(p)
    <2>1. \/ call' = [call EXCEPT ![p] = Transfers!NoCall]
          \/ \E pc \in {"wallets", "count"} :
                call' = [call EXCEPT ![p] = Transfers!Step(pc, call[p].tx, 0)]
      BY <1>3 DEF Transfers!CheckAmount, Transfers!CheckWallets
    <2>. QED
      BY <1>1, <2>1 DEF Counted
  <1>4. CASE Transfers!CountPending(p)
    <2>1. Cardinality(Transfers!PendingOf(From[call[p].tx])) \in Nat
      BY FewTransfers DEF Transfers!PendingOf
    <2>2. ~(Cardinality(Transfers!PendingOf(From[call[p].tx])) >= PendingLimit)
      BY <1>1, <1>4, SameCardinality DEF Transfers!CountPending, Counted
    <2>3. call'[p].tx = call[p].tx
      BY <1>1, <1>4 DEF Transfers!CountPending, Counted
    <2>. QED
      BY <2>1, <2>2, <2>3, LedgerAssumption
  <1>5. CASE \/ Transfers!ReadBlocks(p) \/ Transfers!ReadCredits(p)
             \/ Transfers!ReadPending(p) \/ Transfers!Insert(p) \/ Transfers!Announce(p)
    BY <1>1, <1>5
       DEF Transfers!ReadBlocks, Transfers!ReadCredits, Transfers!ReadPending,
           Transfers!Insert, Transfers!Announce, Counted
  <1>. QED
    BY <1>2, <1>3, <1>4, <1>5 DEF Transfers!TransferStep

\* A request that inserts has then nothing counted any more.
LEMMA InsertLeaves ==
    ASSUME LInv, NEW p \in Proc, Transfers!TransferStep(p), call[p].pc = "insert"
    PROVE  call'[p].pc \notin Counted
  <1>1. PICK c : /\ call' = [call EXCEPT ![p] = c]
                 /\ \/ c = Transfers!NoCall
                    \/ c.pc = "publish"
    BY RequestMoves DEF LInv, CallsApart
  <1>2. call'[p] = c
    BY <1>1, CallUpdate DEF LInv, CallsApart
  <1>. QED
    BY <1>1, <1>2 DEF Counted, Transfers!NoCall

\* With a single process nobody inserts between the count of a request and its insert.
LEMMA RoomCountedStep ==
    ASSUME \A p, q \in Proc : p = q
    PROVE  LimitInv /\ [Next]_vars => RoomCounted'
  <1>. SUFFICES ASSUME LimitInv, [Next]_vars, NEW p \in Proc, call'[p].pc \in Counted,
                       NEW w, w = From[call'[p].tx]
                PROVE  Cardinality(Transfers!PendingOf(w)') < PendingLimit
    BY DEF RoomCounted, Transfers!PendingOf
  <1>. DEFINE S == Transfers!PendingOf(w)
              T == Transfers!PendingOf(w)'
  <1>1. ~(ServeRequest(p) /\ call[p].pc = "insert") /\ Cardinality(S) < PendingLimit
    <2>1. CASE ServeRequest(p)
      <3>1. Transfers!TransferStep(p) /\ LInv
        BY <2>1 DEF ServeRequest, LimitInv
      <3>2. call[p].pc # "insert"
        BY <3>1, InsertLeaves
      <3>. QED
        BY <3>1, <3>2, CountEffect DEF LimitInv, RoomCounted
    <2>2. CASE ~ServeRequest(p)
      <3>1. call'[p] = call[p]
        BY <2>2 
           DEF Next, FailRequest, Crash, Publish, HandleMessage, LoseConnection, Restart,
               RecordCredit, vars, LimitInv, LInv, CallsApart, Transfers!Abandon,
               Transfers!Respond, Transfers!NoCall, Counted
      <3>. QED
        BY <2>2, <3>1 DEF LimitInv, RoomCounted
    <2>. QED
      BY <2>1, <2>2
  <1>2. T \subseteq S
    BY <1>1, PendingEffect DEF LimitInv
  <1>3. S \subseteq TxId /\ T \subseteq TxId
    BY DEF Transfers!PendingOf
  <1>4. Cardinality(T) <= Cardinality(S) /\ Cardinality(T) \in Nat /\ Cardinality(S) \in Nat
    BY <1>2, <1>3, FewTransfers, FS_Subset
  <1>. QED
    BY <1>1, <1>4, LedgerAssumption

\* One process never takes a wallet over the limit of pending transfers; the assumption is
\* needed: two of them both count, and then both insert.
THEOREM PendingLimitAlways ==
    ASSUME \A p, q \in Proc : p = q
    PROVE  Spec => []PendingLimitRespected
  <1>1. Init => LimitInv
    <2>. SUFFICES ASSUME Init
                  PROVE  LimitInv
      OBVIOUS
    <2>1. \A w : Transfers!PendingOf(w) = {}
      BY DEF Init, Consumer!Init, Transfers!PendingOf, Consumer!NoDoc
    <2>2. RoomCounted
      BY DEF Init, RoomCounted, Counted, Transfers!NoCall
    <2>3. PendingLimitRespected
      <3>1. Cardinality({}) = 0
        BY FS_EmptySet
      <3>2. 0 <= PendingLimit
        BY LedgerAssumption
      <3>3. ASSUME NEW w
            PROVE  Cardinality(Transfers!PendingOf(w)) <= PendingLimit
        BY <2>1, <3>1, <3>2
      <3>. QED
        BY <3>3 DEF PendingLimitRespected
    <2>. QED
      BY <2>2, <2>3, LInvInit DEF LimitInv
  <1>2. LimitInv /\ [Next]_vars => LimitInv'
    BY LInvStep, LimitRespectedStep, RoomCountedStep DEF LimitInv
  <1>3. LimitInv => PendingLimitRespected
    BY DEF LimitInv
  <1>. QED
    BY <1>1, <1>2, <1>3, PTL DEF Spec

-----------------------------------------------------------------------------
(* The amounts of the stored transfers. *)

\* What the checks on the amount let pass.
Accepted(t) == Amount[t] > 0

\* Where a request is once its amount is checked, before its insert.
AmountPassed == BeforeInsert \ {"amount"}

AmountsChecked ==
    /\ \A p \in Proc : call[p].pc \in AmountPassed => Accepted(call[p].tx)
    /\ \A t \in TxId : transactions[t] # Consumer!NoDoc => Accepted(t)

AmountsInv == LInv /\ AmountsChecked

\* A step that is not one of a request of p leaves it alone or ends it.
LEMMA OthersRequests ==
    ASSUME LInv, [Next]_vars, NEW p \in Proc, ~ServeRequest(p)
    PROVE  call'[p] = call[p] \/ call'[p] = Transfers!NoCall
  <1>1. call = [q \in Proc |-> call[q]]
    BY DEF LInv, CallsApart
  <1>2. ASSUME NEW q \in Proc, ServeRequest(q)
        PROVE  call'[p] = call[p]
    <2>1. Transfers!TransferStep(q) /\ q # p
      BY <1>2 DEF ServeRequest
    <2>2. PICK c : call' = [call EXCEPT ![q] = c]
      BY <1>1, <2>1, RequestMoves
    <2>. QED
      BY <2>1, <2>2
  <1>3. ASSUME NEW q \in Proc, FailRequest(q) \/ Crash(q)
        PROVE  call'[p] = call[p] \/ call'[p] = Transfers!NoCall
    BY <1>1, <1>3 DEF FailRequest, Crash, Transfers!Abandon, Transfers!Respond
  <1>. QED
    BY <1>2, <1>3 DEF Next, Publish, HandleMessage, LoseConnection, Restart, RecordCredit, vars

\* A request passes the check of the amount with an amount that it accepts.
LEMMA AmountEffect ==
    ASSUME LInv, NEW p \in Proc, Transfers!TransferStep(p), call'[p].pc \in AmountPassed
    PROVE  /\ call'[p].tx = call[p].tx
           /\ call[p].pc \in AmountPassed \/ Accepted(call[p].tx)
  <1>. USE DEF Transfers!Goto, Transfers!Respond, Transfers!Step, Transfers!NoCall
  <1>1. call = [q \in Proc |-> call[q]]
    BY DEF LInv, CallsApart
  <1>2. CASE \E t \in TxId : Transfers!Receive(p, t)
    BY <1>1, <1>2 DEF Transfers!Receive, AmountPassed, BeforeInsert
  <1>3. CASE Transfers!CheckAmount(p)
    <2>. DEFINE a == Amount[call[p].tx]
    <2>1. \/ call' = [call EXCEPT ![p] = Transfers!NoCall]
          \/ ~(a <= 0) /\ call' = [call EXCEPT ![p] = Transfers!Step("wallets", call[p].tx, 0)]
      BY <1>3 DEF Transfers!CheckAmount
    <2>2. call'[p].tx = call[p].tx /\ ~(a <= 0)
      BY <1>1, <2>1 DEF AmountPassed, BeforeInsert
    <2>3. a \in Int
      BY <1>3, LedgerAssumption DEF Transfers!CheckAmount, LInv, CallsApart
    <2>. QED
      BY <2>2, <2>3 DEF Accepted
  <1>4. CASE Transfers!CheckWallets(p) \/ Transfers!CountPending(p)
    <2>1. \/ call' = [call EXCEPT ![p] = Transfers!NoCall]
          \/ \E pc \in {"count", "blocks", "insert"} :
                call' = [call EXCEPT ![p] = Transfers!Step(pc, call[p].tx, 0)]
      BY <1>4 DEF Transfers!CheckWallets, Transfers!CountPending
    <2>2. call[p].pc \in AmountPassed
      BY <1>4 DEF Transfers!CheckWallets, Transfers!CountPending, AmountPassed, BeforeInsert
    <2>. QED
      BY <1>1, <2>1, <2>2 DEF AmountPassed, BeforeInsert
  <1>5. CASE Transfers!ReadBlocks(p) \/ Transfers!ReadCredits(p) \/ Transfers!ReadPending(p)
    <2>1. \/ call' = [call EXCEPT ![p] = Transfers!NoCall]
          \/ \E pc, m : call' = [call EXCEPT ![p] = Transfers!Step(pc, call[p].tx, m)]
      BY <1>5 DEF Transfers!ReadBlocks, Transfers!ReadCredits, Transfers!ReadPending
    <2>2. call[p].pc \in AmountPassed
      BY <1>5 DEF Transfers!ReadBlocks, Transfers!ReadCredits, Transfers!ReadPending,
                  AmountPassed, BeforeInsert
    <2>. QED
      BY <1>1, <2>1, <2>2 DEF AmountPassed, BeforeInsert
  <1>6. CASE Transfers!Insert(p) \/ Transfers!Announce(p)
    BY <1>1, <1>6 DEF Transfers!Insert, Transfers!Announce, AmountPassed, BeforeInsert
  <1>. QED
    BY <1>2, <1>3, <1>4, <1>5, <1>6 DEF Transfers!TransferStep

LEMMA AmountsCheckedStep == AmountsInv /\ [Next]_vars => AmountsChecked'
  <1>. SUFFICES ASSUME AmountsInv, [Next]_vars
                PROVE  AmountsChecked'
    OBVIOUS
  <1>. USE DEF AmountsInv
  <1>1. ASSUME NEW p \in Proc, call'[p].pc \in AmountPassed
        PROVE  Accepted(call'[p].tx)
    <2>1. CASE ServeRequest(p)
      BY <1>1, <2>1, AmountEffect DEF ServeRequest, AmountsChecked
    <2>2. CASE ~ServeRequest(p)
      BY <1>1, <2>2, OthersRequests
         DEF AmountsChecked, Transfers!NoCall, AmountPassed, BeforeInsert
    <2>. QED
      BY <2>1, <2>2
  <1>2. ASSUME NEW t \in TxId, transactions'[t] # Consumer!NoDoc
        PROVE  Accepted(t)
    <2>1. \/ transactions[t] # Consumer!NoDoc
          \/ \E p \in Proc : call[p].pc = "insert" /\ t = call[p].tx
      BY <1>2, DocEffect
    <2>. QED
      BY <2>1 DEF AmountsChecked, AmountPassed, BeforeInsert
  <1>. QED
    BY <1>1, <1>2 DEF AmountsChecked, Accepted, Consumer!NoDoc, Consumer!NoIndex

LEMMA AmountsInvariance == Spec => []AmountsInv
  <1>1. Init => AmountsInv
    BY LInvInit
       DEF AmountsInv, AmountsChecked, AmountPassed, BeforeInsert, Init, Consumer!Init,
           Transfers!NoCall
  <1>2. AmountsInv /\ [Next]_vars => AmountsInv'
    BY LInvStep, AmountsCheckedStep DEF AmountsInv
  <1>. QED
    BY <1>1, <1>2, PTL DEF Spec

-----------------------------------------------------------------------------
(* Least elements. *)

LEMMA LeastNumber ==
    ASSUME NEW T, T \subseteq Nat, T # {}
    PROVE  \E n \in T : \A m \in T : n <= m
  <1>. DEFINE R == {ss \in Nat \X Nat : ss[1] < ss[2]}
  <1>1. IsWellFoundedOn(R, Nat)
    BY NatLessThanWellFounded, Zenon DEF OpToRel
  <1>2. \E x \in T : \A y \in T : ~ (<<y, x>> \in R)
    <2>. HIDE DEF R
    <2>. QED
      BY <1>1, WFMin
  <1>3. PICK x \in T : \A y \in T : ~ (<<y, x>> \in R)
    BY <1>2
  <1>4. \A y \in T : ~ (y < x)
    <2>. TAKE y \in T
    <2>1. y \in Nat /\ x \in Nat /\ <<y, x>> \notin R
      BY <1>3
    <2>. QED
      BY <2>1
  <1>. QED
    BY <1>4

\* A set of finite sets that is not empty has one with the fewest elements.
LEMMA SmallestSet ==
    ASSUME NEW C, C # {}, \A s \in C : IsFiniteSet(s)
    PROVE  \E s \in C : \A u \in C : Cardinality(s) <= Cardinality(u)
  <1>. DEFINE T == {Cardinality(s) : s \in C}
  <1>1. T \subseteq Nat /\ T # {}
    BY FS_CardinalityType
  <1>2. \E n \in T : \A m \in T : n <= m
    <2>. HIDE DEF T
    <2>. QED
      BY <1>1, LeastNumber
  <1>. QED
    BY <1>2

-----------------------------------------------------------------------------
Pick(s) == CHOOSE x \in s : TRUE

\* g is the table of partial sums that the fold of f over S builds.
SumTable(g, f, S) ==
    g = [s \in SUBSET S |-> IF s = {} THEN 0 ELSE f[Pick(s)] + g[s \ {Pick(s)}]]

LEMMA SumIsTable == \A f, S : SumFunctionOnSet(f, S) = (CHOOSE g : SumTable(g, f, S))[S]
  BY DEF SumFunctionOnSet, FoldFunctionOnSet, MapThenFoldSet, SumTable, Pick

LEMMA PickIn == \A s : s # {} => Pick(s) \in s
  BY DEF Pick

\* g is right about the sets of at most n elements.
RightUpTo(g, f, S, n) ==
    \A s \in SUBSET S : Cardinality(s) <= n =>
        /\ g[s] \in Int
        /\ g[s] = IF s = {} THEN 0 ELSE f[Pick(s)] + g[s \ {Pick(s)}]

\* A table up to sets of n elements can be extended to n + 1.
LEMMA TableStep ==
    ASSUME NEW f, NEW S, IsFiniteSet(S), \A x \in S : f[x] \in Int, NEW n \in Nat,
           NEW g, RightUpTo(g, f, S, n)
    PROVE  \E h : RightUpTo(h, f, S, n + 1)
  <1>. DEFINE h == [s \in SUBSET S |-> IF s = {} THEN 0 ELSE f[Pick(s)] + g[s \ {Pick(s)}]]
  <1>1. ASSUME NEW s \in SUBSET S
        PROVE  IsFiniteSet(s) /\ Cardinality(s) \in Nat
    BY FS_Subset, FS_CardinalityType
  <1>2. ASSUME NEW s \in SUBSET S, s # {}
        PROVE  /\ Pick(s) \in S /\ s \ {Pick(s)} \in SUBSET S
               /\ Cardinality(s \ {Pick(s)}) = Cardinality(s) - 1
    BY <1>1, <1>2, PickIn, FS_RemoveElement
  <1>3. ASSUME NEW s \in SUBSET S, Cardinality(s) <= n
        PROVE  h[s] = g[s] /\ g[s] \in Int
    BY <1>3 DEF RightUpTo
  <1>4. ASSUME NEW s \in SUBSET S, Cardinality(s) <= n + 1
        PROVE  /\ h[s] \in Int
               /\ h[s] = IF s = {} THEN 0 ELSE f[Pick(s)] + h[s \ {Pick(s)}]
    <2>1. CASE s = {}
      BY <2>1
    <2>2. CASE s # {}
      <3>. DEFINE r == s \ {Pick(s)}
      <3>1. r \in SUBSET S /\ Pick(s) \in S /\ Cardinality(r) = Cardinality(s) - 1
        BY <1>2, <2>2
      <3>2. Cardinality(r) <= n
        BY <1>1, <1>4, <3>1
      <3>3. h[r] = g[r] /\ g[r] \in Int
        BY <1>3, <3>1, <3>2
      <3>4. h[s] = f[Pick(s)] + g[r]
        BY <2>2
      <3>. QED
        BY <2>2, <3>1, <3>3, <3>4
    <2>. QED
      BY <2>1, <2>2
  <1>5. RightUpTo(h, f, S, n + 1)
    <2>. HIDE DEF h
    <2>. QED
      BY <1>4 DEF RightUpTo
  <1>. QED
    BY <1>5

LEMMA TableExists ==
    ASSUME NEW f, NEW S, IsFiniteSet(S), \A x \in S : f[x] \in Int
    PROVE  \E g : SumTable(g, f, S) /\ \A s \in SUBSET S : g[s] \in Int
  <1>. DEFINE Bad == {n \in Nat : ~\E g : RightUpTo(g, f, S, n)}
  <1>1. ASSUME NEW s \in SUBSET S
        PROVE  IsFiniteSet(s) /\ Cardinality(s) \in Nat /\ Cardinality(s) <= Cardinality(S)
    BY FS_Subset, FS_CardinalityType
  <1>2. 0 \notin Bad
    <2>1. \A s \in SUBSET S : Cardinality(s) <= 0 => s = {}
      BY <1>1, FS_EmptySet
    <2>2. RightUpTo([s \in SUBSET S |-> 0], f, S, 0)
      BY <2>1 DEF RightUpTo
    <2>. QED
      BY <2>2
  <1>3. ASSUME NEW n \in Nat, n \notin Bad
        PROVE  n + 1 \notin Bad
    BY <1>3, TableStep
  <1>4. Bad = {}
    <2>. SUFFICES ASSUME Bad # {}
                  PROVE  FALSE
      OBVIOUS
    <2>. HIDE DEF Bad
    <2>1. Bad \subseteq Nat
      BY DEF Bad
    <2>2. PICK n \in Bad : \A m \in Bad : n <= m
      BY <2>1, LeastNumber
    <2>3. n # 0 /\ n \in Nat
      BY <1>2, <2>1
    <2>4. n - 1 \in Nat /\ n - 1 \notin Bad
      BY <2>2, <2>3, <2>1
    <2>5. (n - 1) + 1 = n
      BY <2>3
    <2>. QED
      BY <1>3, <2>4, <2>5
  <1>5. Cardinality(S) \in Nat
    BY FS_CardinalityType
  <1>6. PICK g : RightUpTo(g, f, S, Cardinality(S))
    BY <1>4, <1>5
  <1>. DEFINE h == [s \in SUBSET S |-> g[s]]
  <1>7. ASSUME NEW s \in SUBSET S
        PROVE  /\ h[s] \in Int
               /\ h[s] = IF s = {} THEN 0 ELSE f[Pick(s)] + h[s \ {Pick(s)}]
    <2>1. /\ g[s] \in Int
          /\ g[s] = IF s = {} THEN 0 ELSE f[Pick(s)] + g[s \ {Pick(s)}]
      BY <1>1, <1>6 DEF RightUpTo
    <2>2. s \ {Pick(s)} \in SUBSET S
      OBVIOUS
    <2>. QED
      BY <2>1, <2>2
  <1>8. SumTable(h, f, S)
    <2>1. h = [s \in SUBSET S |-> h[s]]
      OBVIOUS
    <2>. HIDE DEF h
    <2>. QED
      BY <1>7, <2>1 DEF SumTable
  <1>. QED
    BY <1>7, <1>8

\* Two tables agree on the sets over which the values do.
LEMMA TablesAgree ==
    ASSUME NEW f, NEW S, NEW g, SumTable(g, f, S),
           NEW e, NEW T, NEW h, SumTable(h, e, T),
           NEW u, u \subseteq S, u \subseteq T, IsFiniteSet(u), \A x \in u : f[x] = e[x]
    PROVE  g[u] = h[u]
  <1>. DEFINE C == {s \in SUBSET u : g[s] # h[s]}
  <1>. SUFFICES ASSUME C # {}
                PROVE  FALSE
    OBVIOUS
  <1>1. \A s \in C : IsFiniteSet(s)
    BY FS_Subset
  <1>2. PICK s \in C : \A v \in C : Cardinality(s) <= Cardinality(v)
    <2>. HIDE DEF C
    <2>. QED
      BY <1>1, SmallestSet
  <1>3. s \in SUBSET S /\ s \in SUBSET T /\ s \in SUBSET u
    OBVIOUS
  <1>4. /\ g[s] = IF s = {} THEN 0 ELSE f[Pick(s)] + g[s \ {Pick(s)}]
        /\ h[s] = IF s = {} THEN 0 ELSE e[Pick(s)] + h[s \ {Pick(s)}]
    BY <1>3 DEF SumTable
  <1>5. s # {} /\ Pick(s) \in s
    BY <1>4, PickIn
  <1>6. s \ {Pick(s)} \in C
    BY <1>3, <1>4, <1>5
  <1>7. Cardinality(s \ {Pick(s)}) = Cardinality(s) - 1 /\ Cardinality(s) \in Nat
    BY <1>1, <1>5, FS_RemoveElement, FS_CardinalityType
  <1>. QED
    BY <1>2, <1>6, <1>7

LEMMA SumTableValue ==
    ASSUME NEW f, NEW S, IsFiniteSet(S), NEW g, SumTable(g, f, S),
           \A x \in S : f[x] \in Int, NEW u \in SUBSET S
    PROVE  g[u] = SumFunctionOnSet(f, u) /\ g[u] \in Int
  <1>1. IsFiniteSet(u) /\ \A x \in u : f[x] \in Int
    BY FS_Subset
  <1>2. PICK h : SumTable(h, f, u) /\ \A s \in SUBSET u : h[s] \in Int
    BY <1>1, TableExists
  <1>. DEFINE c == CHOOSE k : SumTable(k, f, u)
  <1>3. SumTable(c, f, u)
    BY <1>2
  <1>. HIDE DEF c
  <1>4. SumFunctionOnSet(f, u) = c[u]
    BY SumIsTable DEF c
  <1>5. g[u] = c[u] /\ g[u] = h[u]
    BY <1>1, <1>2, <1>3, TablesAgree
  <1>. QED
    BY <1>2, <1>4, <1>5

-----------------------------------------------------------------------------
(* The facts that proofs about the models use. *)

LEMMA SumOfNone == \A f : SumFunctionOnSet(f, {}) = 0
  <1>. TAKE f
  <1>1. IsFiniteSet({}) /\ {} \in SUBSET {} /\ \A x \in {} : f[x] \in Int
    BY FS_EmptySet
  <1>2. PICK g : SumTable(g, f, {})
    BY <1>1, TableExists
  <1>3. g[{}] = 0
    BY <1>1, <1>2 DEF SumTable
  <1>4. g[{}] = SumFunctionOnSet(f, {})
    BY <1>1, <1>2, SumTableValue
  <1>. QED
    BY <1>3, <1>4

LEMMA SumType ==
    ASSUME NEW f, NEW S, IsFiniteSet(S), \A x \in S : f[x] \in Int
    PROVE  SumFunctionOnSet(f, S) \in Int
  <1>1. PICK g : SumTable(g, f, S)
    BY TableExists
  <1>2. S \in SUBSET S
    OBVIOUS
  <1>. QED
    BY <1>1, <1>2, SumTableValue

LEMMA SumSame ==
    ASSUME NEW f, NEW e, NEW S, IsFiniteSet(S), \A x \in S : f[x] \in Int /\ f[x] = e[x]
    PROVE  SumFunctionOnSet(f, S) = SumFunctionOnSet(e, S)
  <1>1. PICK g : SumTable(g, f, S)
    BY TableExists
  <1>2. \A x \in S : e[x] \in Int
    OBVIOUS
  <1>3. PICK h : SumTable(h, e, S)
    BY <1>2, TableExists
  <1>4. S \in SUBSET S /\ g[S] = h[S]
    BY <1>1, <1>3, TablesAgree
  <1>. QED
    BY <1>1, <1>2, <1>3, <1>4, SumTableValue

\* In which order the elements are taken makes no difference.
LEMMA SumRemove ==
    ASSUME NEW f, NEW S, IsFiniteSet(S), \A x \in S : f[x] \in Int, NEW y \in S
    PROVE  SumFunctionOnSet(f, S) = f[y] + SumFunctionOnSet(f, S \ {y})
  <1>1. PICK g : SumTable(g, f, S) /\ \A s \in SUBSET S : g[s] \in Int
    BY TableExists
  <1>. DEFINE C == {s \in SUBSET S : \E x \in s : g[s] # f[x] + g[s \ {x}]}
  <1>2. C = {}
    <2>. SUFFICES ASSUME C # {}
                  PROVE  FALSE
      OBVIOUS
    <2>1. \A s \in C : IsFiniteSet(s)
      BY FS_Subset
    <2>2. PICK s \in C : \A v \in C : Cardinality(s) <= Cardinality(v)
      <3>. HIDE DEF C
      <3>. QED
        BY <2>1, SmallestSet
    <2>3. PICK x \in s : g[s] # f[x] + g[s \ {x}]
      OBVIOUS
    <2>. DEFINE p == Pick(s)
    <2>4. p \in s /\ g[s] = f[p] + g[s \ {p}] /\ s \subseteq S
      BY <1>1, <2>3, PickIn DEF SumTable
    <2>5. p # x
      BY <2>3, <2>4
    <2>. HIDE DEF p
    <2>6. \A v \in {s \ {p}, s \ {x}} : Cardinality(v) < Cardinality(s)
      BY <2>1, <2>3, <2>4, FS_RemoveElement, FS_CardinalityType
    <2>7. s \ {p} \notin C /\ s \ {x} \notin C
      <3>. HIDE DEF C
      <3>1. \A v \in C : Cardinality(v) \in Nat
        BY <2>1, FS_CardinalityType
      <3>. QED
        BY <2>2, <2>6, <3>1
    <2>8. g[s \ {p}] = f[x] + g[(s \ {p}) \ {x}]
      BY <2>3, <2>4, <2>5, <2>7
    <2>9. g[s \ {x}] = f[p] + g[(s \ {x}) \ {p}]
      BY <2>3, <2>4, <2>5, <2>7
    <2>10. (s \ {p}) \ {x} = (s \ {x}) \ {p}
      OBVIOUS
    <2>11. f[p] \in Int /\ f[x] \in Int /\ g[(s \ {p}) \ {x}] \in Int
      BY <1>1, <2>3, <2>4
    <2>12. \A a, b, c \in Int : a + (b + c) = b + (a + c)
      OBVIOUS
    <2>13. g[s] = f[p] + (f[x] + g[(s \ {p}) \ {x}])
      BY <2>4, <2>8
    <2>14. f[x] + g[s \ {x}] = f[x] + (f[p] + g[(s \ {p}) \ {x}])
      BY <2>9, <2>10
    <2>15. g[s] = f[x] + g[s \ {x}]
      BY <2>11, <2>12, <2>13, <2>14
    <2>. QED
      BY <2>3, <2>15
  <1>3. g[S] = f[y] + g[S \ {y}]
    BY <1>2
  <1>4. S \in SUBSET S /\ S \ {y} \in SUBSET S
    OBVIOUS
  <1>. QED
    BY <1>1, <1>3, <1>4, SumTableValue

LEMMA SumAdd ==
    ASSUME NEW f, NEW S, IsFiniteSet(S), NEW y, y \notin S,
           \A x \in S \cup {y} : f[x] \in Int
    PROVE  SumFunctionOnSet(f, S \cup {y}) = SumFunctionOnSet(f, S) + f[y]
  <1>1. IsFiniteSet(S \cup {y}) /\ y \in S \cup {y} /\ (S \cup {y}) \ {y} = S
    BY FS_AddElement
  <1>2. SumFunctionOnSet(f, S) \in Int /\ f[y] \in Int
    BY SumType
  <1>3. SumFunctionOnSet(f, S \cup {y}) = f[y] + SumFunctionOnSet(f, (S \cup {y}) \ {y})
    BY <1>1, SumRemove
  <1>4. SumFunctionOnSet(f, S \cup {y}) = f[y] + SumFunctionOnSet(f, S)
    BY <1>1, <1>3
  <1>. QED
    BY <1>2, <1>4

\* Greater values, greater sum.
LEMMA SumMonotone ==
    ASSUME NEW f, NEW e, NEW S, IsFiniteSet(S),
           \A x \in S : f[x] \in Int /\ e[x] \in Int /\ f[x] <= e[x]
    PROVE  SumFunctionOnSet(f, S) <= SumFunctionOnSet(e, S)
  <1>. DEFINE C == {s \in SUBSET S : ~(SumFunctionOnSet(f, s) <= SumFunctionOnSet(e, s))}
  <1>. SUFFICES ASSUME C # {}
                PROVE  FALSE
    OBVIOUS
  <1>1. \A s \in C : IsFiniteSet(s)
    BY FS_Subset
  <1>2. PICK s \in C : \A v \in C : Cardinality(s) <= Cardinality(v)
    <2>. HIDE DEF C
    <2>. QED
      BY <1>1, SmallestSet
  <1>3. s # {}
    BY SumOfNone
  <1>4. PICK x \in s : TRUE
    BY <1>3
  <1>5. Cardinality(s \ {x}) = Cardinality(s) - 1 /\ Cardinality(s) \in Nat
    BY <1>1, FS_RemoveElement, FS_CardinalityType
  <1>6. SumFunctionOnSet(f, s \ {x}) <= SumFunctionOnSet(e, s \ {x})
    BY <1>2, <1>5
  <1>7. /\ SumFunctionOnSet(f, s) = f[x] + SumFunctionOnSet(f, s \ {x})
        /\ SumFunctionOnSet(e, s) = e[x] + SumFunctionOnSet(e, s \ {x})
    BY <1>1, SumRemove
  <1>8. SumFunctionOnSet(f, s \ {x}) \in Int /\ SumFunctionOnSet(e, s \ {x}) \in Int
    BY <1>1, FS_Subset, SumType
  <1>. QED
    BY <1>6, <1>7, <1>8

\* A sum falls into those over two disjoint parts.
LEMMA SumSplit ==
    ASSUME NEW f, NEW S, NEW T, IsFiniteSet(S), IsFiniteSet(T), S \cap T = {},
           \A x \in S \cup T : f[x] \in Int
    PROVE  SumFunctionOnSet(f, S \cup T) = SumFunctionOnSet(f, S) + SumFunctionOnSet(f, T)
  <1>. DEFINE Falls(s) ==
                SumFunctionOnSet(f, S \cup s) = SumFunctionOnSet(f, S) + SumFunctionOnSet(f, s)
              C == {s \in SUBSET T : ~Falls(s)}
  <1>. SUFFICES ASSUME C # {}
                PROVE  FALSE
    OBVIOUS
  <1>1. \A s \in C : IsFiniteSet(s)
    BY FS_Subset
  <1>2. PICK s \in C : \A v \in C : Cardinality(s) <= Cardinality(v)
    <2>. HIDE DEF C
    <2>. QED
      BY <1>1, SmallestSet
  <1>3. s # {}
    <2>1. SumFunctionOnSet(f, S) \in Int
      BY SumType
    <2>2. S \cup {} = S
      OBVIOUS
    <2>. QED
      BY <2>1, <2>2, SumOfNone
  <1>4. PICK x \in s : TRUE
    BY <1>3
  <1>. DEFINE r == s \ {x}
  <1>5. Cardinality(r) = Cardinality(s) - 1 /\ Cardinality(s) \in Nat
    BY <1>1, FS_RemoveElement, FS_CardinalityType
  <1>6. Falls(r)
    BY <1>2, <1>5
  <1>7. IsFiniteSet(S \cup r) /\ IsFiniteSet(r) /\ x \notin S \cup r
    BY <1>1, FS_Subset, FS_Union
  <1>8. S \cup s = (S \cup r) \cup {x} /\ s = r \cup {x}
    OBVIOUS
  <1>9. \A y \in S \cup s : f[y] \in Int
    OBVIOUS
  <1>10. /\ SumFunctionOnSet(f, S \cup s) = SumFunctionOnSet(f, S \cup r) + f[x]
         /\ SumFunctionOnSet(f, s) = SumFunctionOnSet(f, r) + f[x]
    <2>1. x \notin r /\ (\A y \in (S \cup r) \cup {x} : f[y] \in Int) /\ (\A y \in r \cup {x} : f[y] \in Int)
      BY <1>9
    <2>. HIDE DEF r
    <2>2. SumFunctionOnSet(f, (S \cup r) \cup {x}) = SumFunctionOnSet(f, S \cup r) + f[x]
      BY <1>7, <2>1, SumAdd
    <2>3. SumFunctionOnSet(f, r \cup {x}) = SumFunctionOnSet(f, r) + f[x]
      BY <1>7, <2>1, SumAdd
    <2>. QED
      BY <1>8, <2>2, <2>3
  <1>11. SumFunctionOnSet(f, S) \in Int /\ SumFunctionOnSet(f, r) \in Int /\ f[x] \in Int
    BY <1>7, <1>9, SumType
  <1>. QED
    BY <1>6, <1>10, <1>11

LEMMA SumNotNegative ==
    ASSUME NEW f, NEW S, IsFiniteSet(S), \A x \in S : f[x] \in Nat
    PROVE  SumFunctionOnSet(f, S) \in Nat
  <1>. DEFINE C == {s \in SUBSET S : SumFunctionOnSet(f, s) \notin Nat}
  <1>. SUFFICES ASSUME C # {}
                PROVE  FALSE
    OBVIOUS
  <1>1. \A s \in C : IsFiniteSet(s)
    BY FS_Subset
  <1>2. PICK s \in C : \A v \in C : Cardinality(s) <= Cardinality(v)
    <2>. HIDE DEF C
    <2>. QED
      BY <1>1, SmallestSet
  <1>3. s # {}
    BY SumOfNone
  <1>4. PICK x \in s : TRUE
    BY <1>3
  <1>5. Cardinality(s \ {x}) = Cardinality(s) - 1 /\ Cardinality(s) \in Nat
    BY <1>1, FS_RemoveElement, FS_CardinalityType
  <1>6. SumFunctionOnSet(f, s \ {x}) \in Nat
    BY <1>2, <1>5
  <1>7. SumFunctionOnSet(f, s) = f[x] + SumFunctionOnSet(f, s \ {x})
    BY <1>1, SumRemove
  <1>. QED
    BY <1>6, <1>7

\* More elements, none negative, greater sum.
LEMMA SumSubset ==
    ASSUME NEW f, NEW T, IsFiniteSet(T), NEW S, S \subseteq T, \A x \in T : f[x] \in Int,
           \A x \in T \ S : f[x] >= 0
    PROVE  SumFunctionOnSet(f, S) <= SumFunctionOnSet(f, T)
  <1>1. IsFiniteSet(S) /\ IsFiniteSet(T \ S) /\ S \cap (T \ S) = {} /\ S \cup (T \ S) = T
    BY FS_Subset
  <1>2. SumFunctionOnSet(f, S \cup (T \ S)) = SumFunctionOnSet(f, S) + SumFunctionOnSet(f, T \ S)
    BY <1>1, SumSplit
  <1>3. SumFunctionOnSet(f, S) \in Int
    BY <1>1, SumType
  <1>4. SumFunctionOnSet(f, T \ S) \in Nat
    BY <1>1, SumNotNegative
  <1>5. SumFunctionOnSet(f, T) = SumFunctionOnSet(f, S) + SumFunctionOnSet(f, T \ S)
    BY <1>1, <1>2
  <1>. QED
    BY <1>3, <1>4, <1>5

\* A sum taken over the images under a function that is one to one on the set.
LEMMA SumReindex ==
    ASSUME NEW f, NEW e, NEW h, NEW S, IsFiniteSet(S),
           \A x \in S : f[x] = e[h[x]], \A x \in S : f[x] \in Int,
           IsInjective([x \in S |-> h[x]])
    PROVE  /\ IsFiniteSet({h[x] : x \in S})
           /\ SumFunctionOnSet(f, S) = SumFunctionOnSet(e, {h[x] : x \in S})
  <1>. DEFINE Image(s) == {h[x] : x \in s}
              Holds(s) == /\ IsFiniteSet(Image(s))
                          /\ SumFunctionOnSet(f, s) = SumFunctionOnSet(e, Image(s))
              C == {s \in SUBSET S : ~Holds(s)}
  <1>. SUFFICES ASSUME C # {}
                PROVE  FALSE
    <2>. HIDE DEF Holds
    <2>1. Holds(S)
      OBVIOUS
    <2>. QED
      BY <2>1 DEF Holds
  <1>1. \A s \in C : IsFiniteSet(s)
    BY FS_Subset
  <1>2. PICK s \in C : \A v \in C : Cardinality(s) <= Cardinality(v)
    <2>. HIDE DEF C
    <2>. QED
      BY <1>1, SmallestSet
  <1>3. s # {}
    <2>1. Image({}) = {} /\ Holds({})
      BY SumOfNone, FS_EmptySet
    <2>. QED
      BY <2>1
  <1>4. PICK x \in s : TRUE
    BY <1>3
  <1>. DEFINE r == s \ {x}
  <1>5. /\ Cardinality(r) = Cardinality(s) - 1 /\ Cardinality(s) \in Nat
        /\ IsFiniteSet(s) /\ s \subseteq S
    BY <1>1, FS_RemoveElement, FS_CardinalityType
  <1>6. Holds(r)
    <2>. HIDE DEF Holds
    <2>. QED
      BY <1>2, <1>5
  <1>7. /\ Image(s) = Image(r) \cup {h[x]} /\ h[x] \notin Image(r)
        /\ \A y \in Image(s) : e[y] \in Int
    BY <1>5 DEF IsInjective
  <1>8. f[x] = e[h[x]]
    BY <1>5
  <1>9. SumFunctionOnSet(f, s) = f[x] + SumFunctionOnSet(f, r)
    <2>. HIDE DEF C
    <2>1. \A y \in s : f[y] \in Int
      BY <1>5
    <2>. QED
      BY <1>5, <2>1, SumRemove
  <1>10. IsFiniteSet(r) /\ SumFunctionOnSet(f, r) \in Int
    BY <1>5, FS_Subset, SumType
  <1>. HIDE DEF Image, C, r
  <1>11. SumFunctionOnSet(e, Image(s)) = SumFunctionOnSet(e, Image(r)) + e[h[x]]
    BY <1>6, <1>7, SumAdd
  <1>12. IsFiniteSet(Image(s))
    BY <1>6, <1>7, FS_AddElement
  <1>13. f[x] \in Int
    BY <1>5
  <1>14. Holds(s)
    BY <1>6, <1>8, <1>9, <1>10, <1>11, <1>12, <1>13
  <1>. QED
    BY <1>2, <1>14 DEF C

-----------------------------------------------------------------------------
(* The balance of a wallet. *)

\* The sums have finitely many terms, each an integer.
FiniteBooks == IsFiniteSet(blocks) /\ credits \in [CreditId -> 0..1]

AbsentIsNoDoc ==
    \A t \in TxId : transactions[t].status = "ABSENT" => transactions[t] = Consumer!NoDoc

BooksInv == AmountsInv /\ FiniteBooks /\ AbsentIsNoDoc

\* Both modules take the sum from Functions.
LEMMA SameSum == \A f, S : Transfers!SumFunctionOnSet(f, S) = SumFunctionOnSet(f, S)
  BY DEF Transfers!SumFunctionOnSet, Transfers!FoldFunctionOnSet, Transfers!MapThenFoldSet,
         SumFunctionOnSet, FoldFunctionOnSet, MapThenFoldSet

\* A step stores no block, or a published one, and then nothing else of the books changes.
LEMMA StoreEffect ==
    ASSUME LInv, [Next]_vars
    PROVE  \/ blocks' = blocks
           \/ \E b \in published \ blocks : /\ b \in Block
                                            /\ blocks' = blocks \cup {b}
                                            /\ \E p \in Proc : HandleMessage(p)
                                            /\ UNCHANGED <<transactions, credits, call>>
  <1>1. ASSUME NEW p \in Proc, HandleMessage(p)
        PROVE  \/ blocks' = blocks
               \/ /\ blocks' = blocks \cup {handler[p].block}
                  /\ handler[p].pc = "insert"
                  /\ UNCHANGED <<transactions, credits, call>>
    BY <1>1
       DEF HandleMessage, Consumer!ConsumerStep, Consumer!Persist, Consumer!InsertBlock,
           Consumer!Store, Consumer!Collide, Consumer!RaceLost, Consumer!ConfirmNext,
           Consumer!DbFailure, Consumer!Ack, Consumer!Deliver, Consumer!dbVars,
           Consumer!Confirming
  <1>2. ASSUME NEW p \in Proc, handler[p].pc = "insert"
        PROVE  handler[p].block \in published /\ handler[p].block \in Block
    BY <1>2 DEF LInv, Proven!IInv, Proven!TypeOK, Proven!OnlyPublished, Proven!Handler
  <1>3. ASSUME NEW p \in Proc, HandleMessage(p), blocks' # blocks
        PROVE  \E b \in published \ blocks : /\ b \in Block
                                             /\ blocks' = blocks \cup {b}
                                             /\ UNCHANGED <<transactions, credits, call>>
    BY <1>1, <1>2, <1>3
  <1>4. ASSUME NEW p \in Proc, ServeRequest(p)
        PROVE  blocks' = blocks
    BY <1>4, RequestEffect DEF ServeRequest
  <1>. QED
    BY <1>3, <1>4
       DEF Next, Publish, FailRequest, LoseConnection, Crash, Restart, RecordCredit,
           Transfers!Abandon, Consumer!Publish, Consumer!LoseConnection, Consumer!Crash,
           Consumer!Restart, Consumer!StartFails, Consumer!dbVars, vars

\* A credit is recorded once, and then nothing else of the books changes.
LEMMA CreditEffect ==
    ASSUME LInv, [Next]_vars, credits \in [CreditId -> 0..1]
    PROVE  \/ credits' = credits
           \/ \E c \in CreditId : /\ credits[c] = 0 /\ credits' = [credits EXCEPT ![c] = 1]
                                  /\ UNCHANGED <<blocks, transactions, call>>
  <1>1. ASSUME NEW p \in Proc, ServeRequest(p)
        PROVE  credits' = credits
    BY <1>1, RequestEffect DEF ServeRequest
  <1>. QED
    BY <1>1
       DEF Next, Publish, FailRequest, HandleMessage, LoseConnection, Crash, Restart,
           RecordCredit, Credits!Record, Transfers!Abandon, vars

LEMMA BooksInvariance == Spec => []BooksInv
  <1>1. Init => FiniteBooks
    <2>. SUFFICES ASSUME Init
                  PROVE  FiniteBooks
      OBVIOUS
    <2>1. blocks = {Genesis} /\ credits = [c \in CreditId |-> 0]
      BY DEF Init, Consumer!Init, Credits!Init
    <2>2. IsFiniteSet({Genesis})
      BY FS_Singleton
    <2>. QED
      BY <2>1, <2>2 DEF FiniteBooks
  <1>2. BooksInv /\ [Next]_vars => FiniteBooks'
    <2>. SUFFICES ASSUME BooksInv, [Next]_vars
                  PROVE  FiniteBooks'
      OBVIOUS
    <2>. USE DEF BooksInv, AmountsInv
    <2>1. IsFiniteSet(blocks')
      BY StoreEffect, FS_AddElement DEF FiniteBooks
    <2>2. credits' \in [CreditId -> 0..1]
      BY CreditEffect DEF FiniteBooks
    <2>. QED
      BY <2>1, <2>2 DEF FiniteBooks, IsFiniteSet
  <1>3. Init => AbsentIsNoDoc
    BY DEF Init, Consumer!Init, AbsentIsNoDoc
  <1>4. BooksInv /\ [Next]_vars => AbsentIsNoDoc'
    <2>. SUFFICES ASSUME BooksInv, [Next]_vars, NEW t \in TxId, transactions'[t].status = "ABSENT"
                  PROVE  transactions'[t] = Consumer!NoDoc
      BY DEF AbsentIsNoDoc, Consumer!NoDoc, Consumer!NoIndex
    <2>1. \A b \in blocks : Consumer!ConfirmedDoc(BlockIndex[b]).status # "ABSENT"
      BY DEF Consumer!ConfirmedDoc
    <2>2. transactions'[t] = transactions[t]
      BY <2>1, DocEffect, PostedDocument DEF BooksInv, AmountsInv
    <2>. QED
      BY <2>2 DEF BooksInv, AbsentIsNoDoc
  <1>. QED
    BY <1>1, <1>2, <1>3, <1>4, AmountsInvariance, PTL DEF Spec, BooksInv

\* The entries of a block are finitely many, and so their amounts add up.
LEMMA EntriesType ==
    ASSUME NEW b \in Block, NEW S, S \subseteq DOMAIN BlockTxs[b]
    PROVE  /\ IsFiniteSet(S)
           /\ \A i \in S : /\ Transfers!EntryAmounts(b)[i] = Amount[BlockTxs[b][i]]
                           /\ Transfers!EntryAmounts(b)[i] \in Int
           /\ SumFunctionOnSet(Transfers!EntryAmounts(b), S) \in Int
  <1>1. IsFiniteSet(DOMAIN BlockTxs[b])
    <2>1. BlockTxs[b] \in Seq(TxId \cup ForeignId \cup {NoId})
      BY Assumptions DEF Proven!BlocksAssumption
    <2>2. DOMAIN BlockTxs[b] = 1..Len(BlockTxs[b]) /\ Len(BlockTxs[b]) \in Nat
      BY <2>1
    <2>3. IsFiniteSet(1..Len(BlockTxs[b]))
      BY <2>2, FS_Interval
    <2>. QED
      BY <2>2, <2>3
  <1>2. IsFiniteSet(S)
    BY <1>1, FS_Subset
  <1>3. \A i \in S : /\ Transfers!EntryAmounts(b)[i] = Amount[BlockTxs[b][i]]
                     /\ Transfers!EntryAmounts(b)[i] \in Int
    BY LedgerAssumption DEF Transfers!EntryAmounts
  <1>. QED
    BY <1>2, <1>3, SumType

LEMMA MovementType ==
    ASSUME NEW b \in Block, NEW w
    PROVE  Transfers!BlockMovement(b, w) \in Int
  <1>1. /\ Transfers!ReceivedIn(b, w) \subseteq DOMAIN BlockTxs[b]
        /\ Transfers!SentIn(b, w) \subseteq DOMAIN BlockTxs[b]
    BY DEF Transfers!ReceivedIn, Transfers!SentIn
  <1>. QED
    BY <1>1, EntriesType, SameSum DEF Transfers!BlockMovement

LEMMA BalanceTypes ==
    ASSUME BooksInv, NEW w
    PROVE  Transfers!BlocksTotal(w) \in Int /\ Transfers!IssuedTotal(w) \in Int
  <1>. DEFINE movement == [b \in blocks |-> Transfers!BlockMovement(b, w)]
              credit == [c \in CreditId |-> credits[c] * CreditAmount[c]]
              mine == {c \in CreditId : CreditTo[c] = w}
  <1>1. IsFiniteSet(blocks) /\ blocks \subseteq Block
    BY DEF BooksInv, FiniteBooks, AmountsInv, LInv, Proven!IInv, Proven!TypeOK
  <1>2. \A b \in blocks : movement[b] \in Int
    BY <1>1, MovementType
  <1>3. IsFiniteSet(mine) /\ \A c \in mine : credit[c] \in Int
    <2>1. ASSUME NEW c \in CreditId
          PROVE  credits[c] * CreditAmount[c] \in Int
      <3>1. credits[c] \in {0, 1} /\ CreditAmount[c] \in Int
        BY LedgerAssumption DEF BooksInv, FiniteBooks
      <3>2. \A a \in Int : 0 * a = 0 /\ 1 * a = a
        OBVIOUS
      <3>. QED
        BY <3>1, <3>2
    <2>2. IsFiniteSet(mine)
      BY LedgerAssumption, FS_Subset
    <2>. QED
      BY <2>1, <2>2
  <1>. HIDE DEF movement, credit, mine
  <1>4. SumFunctionOnSet(movement, blocks) \in Int /\ SumFunctionOnSet(credit, mine) \in Int
    BY <1>1, <1>2, <1>3, SumType
  <1>. QED
    BY <1>4, SameSum DEF Transfers!BlocksTotal, Transfers!IssuedTotal, movement, credit, mine

\* A wallet to whom no document of a credit is posted has those that were issued to it: what
\* the consumer confirms has the height of a block.
LEMMA OwnCredits ==
    ASSUME BooksInv, NEW w \in Wallets
    PROVE  Transfers!CreditsTotal(w) = Transfers!IssuedTotal(w)
  <1>1. ASSUME NEW t \in TxId, To[t] = w
        PROVE  transactions[t] # Transfers!ConfirmedDoc(Transfers!NoIndex)
    <2>. SUFFICES ASSUME transactions[t] = Transfers!ConfirmedDoc(Transfers!NoIndex)
                  PROVE  FALSE
      OBVIOUS
    <2>1. /\ transactions[t].status = "CONFIRMED" /\ transactions[t].block_index = -1
          /\ transactions[t] # Posted[t]
      BY <1>1 DEF Wallets, Transfers!ConfirmedDoc, Transfers!NoIndex
    <2>2. PICK b \in blocks : BlockIndex[b] = transactions[t].block_index
      BY <2>1 DEF BooksInv, AmountsInv, LInv, Proven!IInv, Proven!ConfirmedInChain
    <2>3. BlockIndex[b] \in Nat
      BY Assumptions
         DEF BooksInv, AmountsInv, LInv, Proven!IInv, Proven!TypeOK, Proven!BlocksAssumption
    <2>. QED
      BY <2>1, <2>2, <2>3
  <1>2. Transfers!PostedAsCredit(w) = {}
    BY <1>1 DEF Transfers!PostedAsCredit
  <1>3. Transfers!SumFunctionOnSet(Amount, Transfers!PostedAsCredit(w)) = 0
    BY <1>2, SumOfNone, SameSum
  <1>4. Transfers!IssuedTotal(w) \in Int
    BY BalanceTypes
  <1>. QED
    BY <1>3, <1>4 DEF Transfers!CreditsTotal

\* The same of the next state.
LEMMA OwnCreditsNext ==
    BooksInv' => \A w \in Wallets : Transfers!CreditsTotal(w)' = Transfers!IssuedTotal(w)'
  <1>. DEFINE Own == \A u \in Wallets : Transfers!CreditsTotal(u) = Transfers!IssuedTotal(u)
  <1>1. BooksInv => Own
    BY OwnCredits
  <1>2. BooksInv' => Own'
    <2>. HIDE DEF Own
    <2>. QED
      BY <1>1, PTL
  <1>. QED
    BY <1>2 DEF Wallets, TransferWallets

\* What is pending is finite, and each amount of it positive.
LEMMA PendingType ==
    ASSUME BooksInv, NEW w
    PROVE  /\ IsFiniteSet(Transfers!PendingOf(w))
           /\ \A t \in Transfers!PendingOf(w) : Amount[t] \in Int /\ Amount[t] > 0
           /\ Transfers!PendingTotal(w) \in Int
  <1>1. IsFiniteSet(Transfers!PendingOf(w))
    BY FewTransfers DEF Transfers!PendingOf
  <1>2. ASSUME NEW t \in Transfers!PendingOf(w)
        PROVE  Amount[t] \in Int /\ Amount[t] > 0
    BY LedgerAssumption
       DEF BooksInv, AmountsInv, Transfers!PendingOf, AmountsChecked, Accepted, Consumer!NoDoc
  <1>. QED
    BY <1>1, <1>2, SumType, SameSum DEF Transfers!PendingTotal

\* What is to be paid is pending: a transfer that no stored block lists has the status that
\* was posted.
LEMMA OutstandingPending ==
    ASSUME BooksInv, NEW w \in Wallets
    PROVE  /\ Outstanding(w) \subseteq Transfers!PendingOf(w)
           /\ (\A b \in blocks : Consumer!IdsOf(b) \cap Transfers!PendingOf(w) = {})
                  => Transfers!PendingOf(w) = Outstanding(w)
  <1>. USE DEF BooksInv, AmountsInv, LInv
  <1>1. Outstanding(w) \subseteq Transfers!PendingOf(w)
    <2>. SUFFICES ASSUME NEW t \in Outstanding(w)
                  PROVE  t \in Transfers!PendingOf(w)
      OBVIOUS
    <2>1. transactions[t].status \in {"ABSENT", "PENDING", "CONFIRMED"}
      BY DEF Proven!IInv, Proven!TypeOK, Proven!Doc, Proven!PostedDoc, Proven!NoDoc, Outstanding
    <2>2. Posted[t].status = "PENDING"
      BY DEF Wallets, Outstanding
    <2>3. transactions[t].status # "CONFIRMED"
      BY <2>2 DEF Proven!IInv, Proven!ConfirmedInChain, Proven!IdsOf, Consumer!IdsOf, Outstanding
    <2>. QED
      BY <2>1, <2>3 DEF Outstanding, Transfers!PendingOf
  <1>2. (\A b \in blocks : Consumer!IdsOf(b) \cap Transfers!PendingOf(w) = {})
            => Transfers!PendingOf(w) \subseteq Outstanding(w)
    BY DEF Transfers!PendingOf, Outstanding
  <1>. QED
    BY <1>1, <1>2

LEMMA BooksSound == BooksInv => BalanceSound
  <1>. SUFFICES ASSUME BooksInv, NEW w \in Wallets
                PROVE  /\ Transfers!CalculateBalance(w) <= Holdings(w)
                       /\ (\A b \in blocks : Consumer!IdsOf(b) \cap Transfers!PendingOf(w) = {})
                              => Transfers!CalculateBalance(w) = Holdings(w)
    BY DEF BalanceSound
  <1>. DEFINE B == Transfers!BlocksTotal(w)
              C == Transfers!IssuedTotal(w)
              P == SumFunctionOnSet(Amount, Transfers!PendingOf(w))
              O == SumFunctionOnSet(Amount, Outstanding(w))
  <1>1. B \in Int /\ C \in Int
    BY BalanceTypes
  <1>2. P \in Int /\ O \in Int /\ O <= P
    <2>1. /\ IsFiniteSet(Transfers!PendingOf(w)) /\ IsFiniteSet(Outstanding(w))
          /\ \A t \in Outstanding(w) : Amount[t] \in Int
          /\ \A t \in Transfers!PendingOf(w) : Amount[t] \in Int /\ Amount[t] >= 0
      BY OutstandingPending, PendingType, FS_Subset
    <2>. QED
      BY <2>1, OutstandingPending, SumSubset, SumType
  <1>3. Transfers!CalculateBalance(w) = B + C - P /\ Holdings(w) = B + C - O
    BY SameSum, OwnCredits DEF Transfers!CalculateBalance, Transfers!PendingTotal, Holdings
  <1>4. (\A b \in blocks : Consumer!IdsOf(b) \cap Transfers!PendingOf(w) = {}) => P = O
    BY OutstandingPending
  <1>. HIDE DEF B, C, P, O
  <1>. QED
    BY <1>1, <1>2, <1>3, <1>4

\* The balance that is checked never promises more than the wallet owns, and is exact once
\* the transactions of every stored block are confirmed (calculate_balance,
\* transaction_service.py:28), for any number of API processes, of the wallets whose requests
\* leave the status to the service.
THEOREM BalanceSoundAlways == Spec => []BalanceSound
  BY BooksSound, BooksInvariance, PTL

-----------------------------------------------------------------------------
(* Overdrafts, when the API is one process. *)

\* What a request has read still bounds what it reads next: the blocks and the mempool
\* stand still while it is under way, and the credits only grow.
ReadsHold ==
    \A p \in Proc :
        LET t == call[p].tx
            w == From[t]
        IN
        w \in Wallets =>
        /\ call[p].pc = "credits" => call[p].balance = Transfers!BlocksTotal(w)
        /\ call[p].pc = "pending" =>
              /\ call[p].balance \in Int
              /\ call[p].balance <= Transfers!BlocksTotal(w) + Transfers!IssuedTotal(w)
        /\ call[p].pc = "insert" /\ Type[t] = "TRANSFER" =>
              Amount[t] <= Transfers!CalculateBalance(w)

OverdraftInv == BooksInv /\ ReadsHold /\ NoOverdraft

\* The credits of a wallet only grow.
LEMMA CreditsGrow ==
    ASSUME BooksInv, BooksInv', [Next]_vars, NEW w \in Wallets
    PROVE  /\ Transfers!IssuedTotal(w)' \in Int
           /\ Transfers!IssuedTotal(w) <= Transfers!IssuedTotal(w)'
  <1>. DEFINE credit == [c \in CreditId |-> credits[c] * CreditAmount[c]]
              later == [c \in CreditId |-> credits'[c] * CreditAmount[c]]
              mine == {c \in CreditId : CreditTo[c] = w}
  <1>1. IsFiniteSet(mine)
    BY LedgerAssumption, FS_Subset
  <1>2. ASSUME NEW c \in mine
        PROVE  credit[c] \in Int /\ later[c] \in Int /\ credit[c] <= later[c]
    <2>1. CreditAmount[c] \in Int /\ CreditAmount[c] >= 0
      BY LedgerAssumption DEF Wallets, TransferWallets
    <2>2. credits[c] \in {0, 1} /\ credits'[c] \in {0, 1}
      BY DEF BooksInv, FiniteBooks
    <2>3. credits'[c] = credits[c] \/ (credits[c] = 0 /\ credits'[c] = 1)
      BY CreditEffect DEF BooksInv, FiniteBooks, AmountsInv
    <2>4. \A a \in Int : 0 * a = 0 /\ 1 * a = a
      OBVIOUS
    <2>5. credit[c] = credits[c] * CreditAmount[c] /\ later[c] = credits'[c] * CreditAmount[c]
      OBVIOUS
    <2>. HIDE DEF credit, later
    <2>. QED
      BY <2>1, <2>2, <2>3, <2>4, <2>5
  <1>. HIDE DEF credit, later, mine
  <1>3. /\ SumFunctionOnSet(later, mine) \in Int
        /\ SumFunctionOnSet(credit, mine) <= SumFunctionOnSet(later, mine)
    BY <1>1, <1>2, SumMonotone, SumType
  <1>. QED
    BY <1>3, SameSum DEF Transfers!IssuedTotal, credit, later, mine

\* Only a request or a message changes the record or the mempool.
LEMMA QuietEffect ==
    ASSUME [Next]_vars, ~\E p \in Proc : ServeRequest(p) \/ HandleMessage(p)
    PROVE  UNCHANGED <<blocks, transactions>>
  BY DEF Next, Publish, FailRequest, LoseConnection, Crash, Restart, RecordCredit,
         Transfers!Abandon, Consumer!Publish, Consumer!LoseConnection, Consumer!Crash,
         Consumer!Restart, Consumer!StartFails, Consumer!dbVars, messageVars, vars

\* A request that goes on is at a read or at its insert because of what it read.
LEMMA ReadEffect ==
    ASSUME LInv, NEW p \in Proc, Transfers!TransferStep(p),
           call'[p].pc \in {"credits", "pending", "insert"}
    PROVE  LET t == call[p].tx
               w == From[t]
           IN
           /\ UNCHANGED <<blocks, transactions, credits>>
           /\ call'[p].tx = t /\ t \in TxId
           /\ \/ call'[p].pc = "credits" /\ call'[p].balance = Transfers!BlocksTotal(w)
              \/ /\ call'[p].pc = "pending" /\ call[p].pc = "credits"
                 /\ call'[p].balance = call[p].balance + Transfers!CreditsTotal(w)
              \/ /\ call'[p].pc = "insert" /\ call[p].pc = "pending"
                 /\ ~(call[p].balance - Transfers!PendingTotal(w) < Amount[t])
              \/ call'[p].pc = "insert" /\ Type[t] # "TRANSFER"
  <1>. USE DEF Transfers!Goto, Transfers!Respond, Transfers!Step, Transfers!NoCall
  <1>1. call = [q \in Proc |-> call[q]]
    BY DEF LInv, CallsApart
  <1>2. CASE \E t \in TxId : Transfers!Receive(p, t)
    BY <1>1, <1>2 DEF Transfers!Receive
  <1>3. CASE Transfers!CheckAmount(p) \/ Transfers!CheckWallets(p)
    <2>1. \/ call' = [call EXCEPT ![p] = Transfers!NoCall]
          \/ \E pc \in {"wallets", "count"} :
                call' = [call EXCEPT ![p] = Transfers!Step(pc, call[p].tx, 0)]
      BY <1>3 DEF Transfers!CheckAmount, Transfers!CheckWallets
    <2>. QED
      BY <1>1, <2>1
  <1>4. CASE Transfers!CountPending(p)
    <2>. DEFINE pc == IF Type[call[p].tx] = "TRANSFER" THEN "blocks" ELSE "insert"
    <2>1. \/ call' = [call EXCEPT ![p] = Transfers!NoCall]
          \/ call' = [call EXCEPT ![p] = Transfers!Step(pc, call[p].tx, 0)]
      BY <1>4 DEF Transfers!CountPending
    <2>2. call'[p].pc = pc /\ call'[p].tx = call[p].tx
      BY <1>1, <2>1
    <2>3. call'[p].pc = "insert" /\ Type[call[p].tx] # "TRANSFER"
      BY <2>2
    <2>4. UNCHANGED <<blocks, transactions, credits>> /\ call[p].pc = "count"
      BY <1>4 DEF Transfers!CountPending
    <2>. QED
      BY <2>2, <2>3, <2>4 DEF LInv, CallsApart
  <1>5. CASE Transfers!ReadBlocks(p)
    BY <1>1, <1>5 DEF Transfers!ReadBlocks, LInv, CallsApart
  <1>6. CASE Transfers!ReadCredits(p)
    BY <1>1, <1>6 DEF Transfers!ReadCredits, LInv, CallsApart
  <1>7. CASE Transfers!ReadPending(p)
    <2>. DEFINE short == call[p].balance - Transfers!PendingTotal(From[call[p].tx])
                            < Amount[call[p].tx]
    <2>1. /\ call[p].pc = "pending"
          /\ UNCHANGED <<blocks, transactions, credits>>
          /\ \/ short /\ call' = [call EXCEPT ![p] = Transfers!NoCall]
             \/ ~short /\ call' = [call EXCEPT ![p] = Transfers!Step("insert", call[p].tx, 0)]
      BY <1>7 DEF Transfers!ReadPending
    <2>. HIDE DEF short
    <2>2. call'[p].pc = "insert" /\ call'[p].tx = call[p].tx /\ ~short
      BY <1>1, <2>1
    <2>. QED
      BY <2>1, <2>2 DEF LInv, CallsApart, short
  <1>8. CASE Transfers!Insert(p) \/ Transfers!Announce(p)
    BY <1>1, <1>8 DEF Transfers!Insert, Transfers!Announce
  <1>. QED
    BY <1>2, <1>3, <1>4, <1>5, <1>6, <1>7, <1>8 DEF Transfers!TransferStep

LEMMA ReadsHoldStep ==
    ASSUME \A p, q \in Proc : p = q
    PROVE  OverdraftInv /\ BooksInv' /\ [Next]_vars => ReadsHold'
  <1>. SUFFICES ASSUME OverdraftInv, BooksInv', [Next]_vars, NEW p \in Proc,
                       NEW t, t = call'[p].tx, NEW w \in Wallets, w = From[t],
                       call'[p].pc \in {"credits", "pending", "insert"}
                PROVE  /\ call'[p].pc = "credits" =>
                             call'[p].balance = Transfers!BlocksTotal(w)'
                       /\ call'[p].pc = "pending" =>
                             /\ call'[p].balance \in Int
                             /\ call'[p].balance <=
                                   Transfers!BlocksTotal(w)' + Transfers!IssuedTotal(w)'
                       /\ call'[p].pc = "insert" /\ Type[t] = "TRANSFER" =>
                             Amount[t] <= Transfers!CalculateBalance(w)'
    BY DEF ReadsHold, Wallets, TransferWallets
  <1>. DEFINE B == Transfers!BlocksTotal(w)
              C == Transfers!IssuedTotal(w)
              P == Transfers!PendingTotal(w)
  <1>1. LInv /\ BooksInv
    BY DEF OverdraftInv, BooksInv, AmountsInv
  <1>2. B \in Int /\ C \in Int /\ C' \in Int /\ P \in Int
    <2>1. P \in Int
      BY <1>1, PendingType
    <2>2. C' \in Int
      BY <1>1, CreditsGrow
    <2>. QED
      BY <1>1, <2>1, <2>2, BalanceTypes
  <1>3. /\ Transfers!CalculateBalance(w) = B + C - P
        /\ Transfers!CalculateBalance(w)' = B' + C' - P'
    <2>1. Transfers!CreditsTotal(w) = C
      BY <1>1, OwnCredits
    <2>2. Transfers!CreditsTotal(w)' = C'
      BY OwnCreditsNext
    <2>. QED
      BY <2>1, <2>2 DEF Transfers!CalculateBalance
  <1>4. CASE ServeRequest(p)
    <2>1. Transfers!TransferStep(p)
      BY <1>4 DEF ServeRequest
    <2>2. /\ UNCHANGED <<blocks, transactions, credits>>
          /\ t = call[p].tx /\ t \in TxId
          /\ \/ call'[p].pc = "credits" /\ call'[p].balance = B
             \/ /\ call'[p].pc = "pending" /\ call[p].pc = "credits"
                /\ call'[p].balance = call[p].balance + C
             \/ /\ call'[p].pc = "insert" /\ call[p].pc = "pending"
                /\ ~(call[p].balance - P < Amount[t])
             \/ call'[p].pc = "insert" /\ Type[t] # "TRANSFER"
      BY <1>1, <2>1, ReadEffect, OwnCredits
    <2>3. B' = B /\ C' = C /\ P' = P
      BY <2>2
         DEF Transfers!BlocksTotal, Transfers!IssuedTotal, Transfers!PendingTotal,
             Transfers!PendingOf
    <2>4. Transfers!CalculateBalance(w)' = B + C - P
      BY <1>3, <2>3
    <2>5. /\ call[p].pc = "credits" => call[p].balance = B
          /\ call[p].pc = "pending" => call[p].balance \in Int /\ call[p].balance <= B + C
      BY <2>2 DEF OverdraftInv, ReadsHold
    <2>6. Amount[t] \in Int
      BY <2>2, LedgerAssumption
    <2>7. CASE call'[p].pc = "credits" /\ call'[p].balance = B
      BY <2>3, <2>7
    <2>8. CASE /\ call'[p].pc = "pending" /\ call[p].pc = "credits"
               /\ call'[p].balance = call[p].balance + C
      BY <1>2, <2>3, <2>5, <2>8
    <2>9. CASE /\ call'[p].pc = "insert" /\ call[p].pc = "pending"
               /\ ~(call[p].balance - P < Amount[t])
      <3>1. Amount[t] <= B + C - P
        <4>. HIDE DEF B, C, P
        <4>. QED
          BY <1>2, <2>5, <2>6, <2>9
      <3>. QED
        BY <2>4, <2>9, <3>1
    <2>. QED
      BY <2>2, <2>7, <2>8, <2>9
  <1>5. CASE ~ServeRequest(p)
    <2>1. call'[p] = call[p]
      BY <1>1, <1>5, OthersRequests DEF Transfers!NoCall
    <2>2. ~\E q \in Proc : ServeRequest(q) \/ HandleMessage(q)
      BY <1>5, <2>1 DEF HandleMessage, LoopFreeForMessages, Transfers!InCall
    <2>3. UNCHANGED <<blocks, transactions>>
      BY <2>2, QuietEffect
    <2>4. B' = B /\ P' = P
      BY <2>3 DEF Transfers!BlocksTotal, Transfers!PendingTotal, Transfers!PendingOf
    <2>5. C <= C'
      BY <1>1, CreditsGrow
    <2>6. Transfers!CalculateBalance(w)' = B + C' - P
      BY <1>3, <2>4
    <2>7. /\ call[p].pc = "credits" => call[p].balance = B
          /\ call[p].pc = "pending" => call[p].balance \in Int /\ call[p].balance <= B + C
          /\ call[p].pc = "insert" /\ Type[t] = "TRANSFER" => Amount[t] <= B + C - P
      BY <1>3, <2>1 DEF OverdraftInv, ReadsHold
    <2>8. call[p].pc = "insert" => Amount[t] \in Int
      BY <1>1, <2>1, LedgerAssumption DEF LInv, CallsApart
    <2>9. CASE call'[p].pc = "credits"
      BY <2>1, <2>4, <2>7, <2>9
    <2>10. CASE call'[p].pc = "pending"
      <3>1. call[p].balance \in Int /\ call[p].balance <= B + C
        BY <2>1, <2>7, <2>10
      <3>2. call[p].balance <= B + C'
        <4>. HIDE DEF B, C
        <4>. QED
          BY <1>2, <2>5, <3>1
      <3>. QED
        BY <2>1, <2>4, <2>10, <3>1, <3>2
    <2>11. CASE call'[p].pc = "insert"
      <3>1. Type[t] = "TRANSFER" => Amount[t] <= B + C - P
        BY <2>1, <2>7, <2>11
      <3>2. Amount[t] \in Int
        BY <2>1, <2>8, <2>11
      <3>3. Type[t] = "TRANSFER" => Amount[t] <= B + C' - P
        <4>. HIDE DEF B, C, P
        <4>. QED
          BY <1>2, <2>5, <3>1, <3>2
      <3>. QED
        BY <2>6, <2>11, <3>3
    <2>. QED
      BY <2>9, <2>10, <2>11
  <1>. QED
    BY <1>4, <1>5

\* What a wallet has to pay changes with the status of its documents and the record only.
LEMMA OutstandingSame ==
    ASSUME NEW w, UNCHANGED blocks,
           \A t \in TxId : (transactions'[t].status = "ABSENT") <=> (transactions[t].status = "ABSENT")
    PROVE  Outstanding(w)' = Outstanding(w)
  BY DEF Outstanding, Consumer!IdsOf

LEMMA OutstandingType ==
    ASSUME BooksInv, NEW w
    PROVE  /\ IsFiniteSet(Outstanding(w))
           /\ \A t \in Outstanding(w) : t \in TxId /\ Amount[t] \in Int /\ Amount[t] > 0
           /\ SumFunctionOnSet(Amount, Outstanding(w)) \in Int
  <1>1. /\ IsFiniteSet(Outstanding(w))
        /\ \A t \in Outstanding(w) : t \in TxId /\ Amount[t] \in Int /\ Amount[t] > 0
    BY FewTransfers, LedgerAssumption
       DEF BooksInv, AmountsInv, AmountsChecked, Accepted, Outstanding, Consumer!NoDoc
  <1>. QED
    BY <1>1, SumType

\* A request that inserts takes no more than the wallet still owns.
LEMMA InsertCovered ==
    ASSUME OverdraftInv, [Next]_vars, NEW p \in Proc, ServeRequest(p), call[p].pc = "insert",
           NEW w \in Wallets, Holdings(w) >= 0
    PROVE  Holdings(w)' >= 0
  <1>. DEFINE t == call[p].tx
              B == Transfers!BlocksTotal(w)
              C == Transfers!IssuedTotal(w)
              O == SumFunctionOnSet(Amount, Outstanding(w))
              N == SumFunctionOnSet(Amount, Outstanding(w)')
  <1>1. LInv /\ BooksInv /\ AmountsInv
    BY DEF OverdraftInv, BooksInv, AmountsInv
  <1>2. /\ t \in TxId /\ transactions[t] = Consumer!NoDoc
        /\ UNCHANGED <<blocks, credits>>
        /\ \A u \in TxId \ {t} : transactions'[u] = transactions[u]
    BY <1>1, RequestEffect
       DEF ServeRequest, LInv, CallsApart, BeforeInsert, Proven!IInv, Proven!TypeOK
  <1>3. B' = B /\ C' = C
    BY <1>2 DEF Transfers!BlocksTotal, Transfers!IssuedTotal
  <1>4. B \in Int /\ C \in Int
    BY <1>1, BalanceTypes
  <1>5. Holdings(w) = B + C - O /\ Holdings(w)' = B + C - N
    BY <1>3, SameSum DEF Holdings
  <1>6. O \in Int
    BY <1>1, OutstandingType
  <1>7. CASE w # From[t]
    <2>1. Outstanding(w)' = Outstanding(w)
      BY <1>2, <1>7 DEF Outstanding, Consumer!IdsOf
    <2>. QED
      BY <1>5, <2>1
  <1>8. CASE w = From[t]
    <2>1. /\ t \notin Outstanding(w)
          /\ Outstanding(w)' \subseteq Outstanding(w) \cup {t}
      BY <1>2 DEF Outstanding, Consumer!IdsOf, Consumer!NoDoc
    <2>2. Amount[t] \in Int /\ Amount[t] > 0
      BY <1>1, <1>2, LedgerAssumption
         DEF AmountsInv, AmountsChecked, AmountPassed, BeforeInsert, Accepted
    <2>3. /\ IsFiniteSet(Outstanding(w) \cup {t})
          /\ \A u \in Outstanding(w) \cup {t} : Amount[u] \in Int /\ Amount[u] >= 0
      BY <1>1, <2>2, OutstandingType, FS_AddElement
    <2>4. SumFunctionOnSet(Amount, Outstanding(w) \cup {t}) = O + Amount[t]
      BY <1>1, <2>1, <2>3, OutstandingType, SumAdd
    <2>5. N <= O + Amount[t] /\ N \in Int
      <3>1. N <= SumFunctionOnSet(Amount, Outstanding(w) \cup {t})
        BY <2>1, <2>3, SumSubset
      <3>2. IsFiniteSet(Outstanding(w)') /\ \A u \in Outstanding(w)' : Amount[u] \in Int
        BY <2>1, <2>3, FS_Subset
      <3>. QED
        BY <2>4, <3>1, <3>2, SumType
    <2>6. Type[t] = "TRANSFER"
      BY <1>2, <1>8 DEF Wallets, TransferWallets
    <2>7. Amount[t] <= Transfers!CalculateBalance(w)
      BY <1>8, <2>6 DEF OverdraftInv, ReadsHold
    <2>8. Transfers!CalculateBalance(w) <= Holdings(w) /\ Transfers!CalculateBalance(w) \in Int
      <3>1. Transfers!PendingTotal(w) \in Int
        BY <1>1, PendingType
      <3>2. Transfers!CalculateBalance(w) = B + C - Transfers!PendingTotal(w)
        BY <1>1, OwnCredits DEF Transfers!CalculateBalance
      <3>3. Transfers!CalculateBalance(w) <= Holdings(w)
        BY <1>1, BooksSound DEF BalanceSound
      <3>. HIDE DEF B, C
      <3>. QED
        BY <1>4, <3>1, <3>2, <3>3
    <2>. HIDE DEF B, C, O, N, t
    <2>. QED
      BY <1>4, <1>5, <1>6, <2>2, <2>5, <2>7, <2>8
  <1>. QED
    BY <1>7, <1>8

\* A block that is stored takes from a wallet what it had still to pay, once, and no more.
LEMMA StoreCovered ==
    ASSUME OverdraftInv, NEW b \in published \ blocks, b \in Block, blocks' = blocks \cup {b},
           UNCHANGED <<transactions, credits>>,
           ChargedOnce(Wallets)', NEW w \in Wallets, Holdings(w) >= 0
    PROVE  Holdings(w)' >= 0
  <1>. DEFINE listed == Transfers!SentIn(b, w)
              gained == Transfers!ReceivedIn(b, w)
              paid == {BlockTxs[b][i] : i \in listed}
              amounts == Transfers!EntryAmounts(b)
              B == Transfers!BlocksTotal(w)
              C == Transfers!IssuedTotal(w)
              O == SumFunctionOnSet(Amount, Outstanding(w))
              N == SumFunctionOnSet(Amount, Outstanding(w)')
              D == SumFunctionOnSet(Amount, paid)
              I == SumFunctionOnSet(amounts, gained)
              M == Transfers!BlockMovement(b, w)
  <1>1. LInv /\ BooksInv /\ blocks \subseteq Block /\ IsFiniteSet(blocks)
    BY DEF OverdraftInv, BooksInv, AmountsInv, LInv, Proven!IInv, Proven!TypeOK, FiniteBooks
  <1>2. ASSUME NEW i \in DOMAIN BlockTxs[b]
        PROVE  /\ Amount[BlockTxs[b][i]] >= 0
               /\ From[BlockTxs[b][i]] = w =>
                     /\ BlockTxs[b][i] \in TxId
                     /\ \A c \in blocks \cup {b} : \A j \in DOMAIN BlockTxs[c] :
                           BlockTxs[c][j] = BlockTxs[b][i] => c = b /\ j = i
    BY DEF ChargedOnce
  <1>3. listed \subseteq DOMAIN BlockTxs[b] /\ gained \subseteq DOMAIN BlockTxs[b]
    BY DEF Transfers!SentIn, Transfers!ReceivedIn
  <1>4. IsFiniteSet(paid) /\ SumFunctionOnSet(amounts, listed) = D
    <2>. DEFINE txs == BlockTxs[b]
    <2>1. IsFiniteSet(listed)
      BY <1>3, EntriesType
    <2>2. \A i \in listed : amounts[i] = Amount[txs[i]]
      BY <1>3, EntriesType
    <2>3. \A i \in listed : amounts[i] \in Int
      BY <1>3, EntriesType
    <2>4. IsInjective([i \in listed |-> txs[i]])
      BY <1>2 DEF Transfers!SentIn, IsInjective
    <2>5. paid = {txs[i] : i \in listed}
      OBVIOUS
    <2>. HIDE DEF listed, amounts, txs, paid
    <2>. QED
      BY <2>1, <2>2, <2>3, <2>4, <2>5, SumReindex
  <1>5. I \in Nat
    <2>1. IsFiniteSet(gained)
      BY <1>3, EntriesType
    <2>2. ASSUME NEW i \in gained
          PROVE  amounts[i] \in Nat
      <3>1. amounts[i] = Amount[BlockTxs[b][i]] /\ amounts[i] \in Int
        BY <1>3, EntriesType
      <3>2. Amount[BlockTxs[b][i]] >= 0
        BY <1>2, <1>3
      <3>. QED
        BY <3>1, <3>2
    <2>. HIDE DEF gained, amounts
    <2>. QED
      BY <2>1, <2>2, SumNotNegative
  <1>6. M = I - D
    BY <1>4, SameSum DEF Transfers!BlockMovement
  <1>7. paid \subseteq Outstanding(w) /\ Outstanding(w)' = Outstanding(w) \ paid
    <2>1. ASSUME NEW t \in paid
          PROVE  t \in Outstanding(w) /\ t \notin Outstanding(w)'
      <3>1. PICK i \in listed : t = BlockTxs[b][i]
        OBVIOUS
      <3>2. i \in DOMAIN BlockTxs[b] /\ From[t] = w
        BY <3>1 DEF Transfers!SentIn
      <3>3. /\ t \in TxId
            /\ \A c \in blocks \cup {b} : \A j \in DOMAIN BlockTxs[c] :
                  BlockTxs[c][j] = t => c = b /\ j = i
        BY <1>2, <3>1, <3>2
      <3>4. t \in Consumer!IdsOf(b)
        BY <3>1, <3>2, <3>3, Assumptions DEF Consumer!IdsOf, Proven!BlocksAssumption
      <3>5. transactions[t].status # "ABSENT"
        BY <1>1, <3>3, <3>4 DEF LInv, ListedKnown, BooksInv, AbsentIsNoDoc
      <3>6. \A c \in blocks : t \notin Consumer!IdsOf(c)
        BY <3>3 DEF Consumer!IdsOf
      <3>. QED
        BY <3>2, <3>3, <3>4, <3>5, <3>6 DEF Outstanding, Consumer!IdsOf
    <2>2. ASSUME NEW t \in Outstanding(w), t \notin paid
          PROVE  t \in Outstanding(w)'
      <3>1. t \notin Consumer!IdsOf(b)
        BY <2>2 DEF Outstanding, Consumer!IdsOf, Transfers!SentIn
      <3>. QED
        BY <3>1 DEF Outstanding, Consumer!IdsOf
    <2>3. Outstanding(w)' \subseteq Outstanding(w)
      BY DEF Outstanding, Consumer!IdsOf
    <2>. HIDE DEF paid
    <2>. QED
      BY <2>1, <2>2, <2>3
  <1>8. O = N + D /\ N \in Int /\ D \in Int
    <2>. DEFINE rest == Outstanding(w) \ paid
    <2>1. /\ IsFiniteSet(rest) /\ IsFiniteSet(paid) /\ rest \cap paid = {}
          /\ rest \cup paid = Outstanding(w)
          /\ \A t \in rest \cup paid : Amount[t] \in Int
      <3>. HIDE DEF paid
      <3>. QED
        BY <1>1, <1>4, <1>7, OutstandingType, FS_Subset
    <2>2. SumFunctionOnSet(Amount, rest \cup paid) = SumFunctionOnSet(Amount, rest) + D
      <3>. HIDE DEF paid, rest
      <3>. QED
        BY <2>1, SumSplit
    <2>3. SumFunctionOnSet(Amount, rest) \in Int /\ D \in Int
      <3>. HIDE DEF paid, rest
      <3>. QED
        BY <2>1, SumType
    <2>. QED
      BY <1>7, <2>1, <2>2, <2>3
  <1>9. B \in Int /\ C \in Int /\ M \in Int
    BY <1>1, BalanceTypes, MovementType
  <1>10. C' = C
    BY DEF Transfers!IssuedTotal
  <1>11. B' = B + M
    <2>. DEFINE before == [c \in blocks |-> Transfers!BlockMovement(c, w)]
                after == [c \in blocks \cup {b} |-> Transfers!BlockMovement(c, w)]
    <2>1. B = SumFunctionOnSet(before, blocks)
      BY SameSum DEF Transfers!BlocksTotal
    <2>2. B' = SumFunctionOnSet(after, blocks \cup {b})
      <3>1. B' = Transfers!SumFunctionOnSet([c \in blocks' |-> Transfers!BlockMovement(c, w)], blocks')
        BY DEF Transfers!BlocksTotal, Transfers!BlockMovement, Transfers!EntryAmounts,
               Transfers!ReceivedIn, Transfers!SentIn
      <3>. QED
        BY <3>1, SameSum
    <2>3. ASSUME NEW c \in blocks \cup {b}
          PROVE  after[c] \in Int /\ (c \in blocks => after[c] = before[c]) /\ (c = b => after[c] = M)
      BY <1>1, MovementType
    <2>. HIDE DEF before, after, B, M
    <2>4. SumFunctionOnSet(after, blocks \cup {b}) = SumFunctionOnSet(after, blocks) + after[b]
      BY <1>1, <2>3, SumAdd
    <2>5. SumFunctionOnSet(after, blocks) = SumFunctionOnSet(before, blocks)
      BY <1>1, <2>3, SumSame
    <2>. QED
      BY <2>1, <2>2, <2>3, <2>4, <2>5
  <1>12. Holdings(w) = B + C - O /\ Holdings(w)' = B' + C' - N
    BY SameSum DEF Holdings
  <1>13. Holdings(w)' = (B + M) + C - N
    BY <1>10, <1>11, <1>12
  <1>. HIDE DEF B, C, O, N, D, I, M
  <1>. QED
    BY <1>5, <1>6, <1>8, <1>9, <1>12, <1>13

LEMMA NoOverdraftStep == OverdraftInv /\ BooksInv' /\ [Next]_vars => NoOverdraft'
  <1>. SUFFICES ASSUME OverdraftInv, BooksInv', [Next]_vars, ChargedOnce(Wallets)',
                       NEW w \in Wallets
                PROVE  Holdings(w)' >= 0
    BY DEF NoOverdraft, Wallets, TransferWallets
  <1>1. LInv /\ BooksInv
    BY DEF OverdraftInv, BooksInv, AmountsInv
  <1>2. Holdings(w) >= 0
    <2>1. blocks \subseteq blocks'
      BY <1>1, StoreEffect
    <2>2. ChargedOnce(Wallets)
      BY <2>1 DEF ChargedOnce, Wallets, TransferWallets
    <2>. QED
      BY <2>2 DEF OverdraftInv, NoOverdraft
  <1>3. CASE \E p \in Proc : ServeRequest(p) /\ call[p].pc = "insert"
    BY <1>2, <1>3, InsertCovered
  <1>4. CASE blocks' # blocks
    BY <1>1, <1>2, <1>4, StoreEffect, StoreCovered
  <1>5. CASE /\ ~\E p \in Proc : ServeRequest(p) /\ call[p].pc = "insert"
             /\ blocks' = blocks
    <2>1. ASSUME NEW t \in TxId
          PROVE  (transactions'[t].status = "ABSENT") <=> (transactions[t].status = "ABSENT")
      <3>1. \A b \in blocks : Consumer!ConfirmedDoc(BlockIndex[b]).status # "ABSENT"
        BY DEF Consumer!ConfirmedDoc
      <3>2. transactions[t] # Consumer!NoDoc => transactions[t].status # "ABSENT"
        BY <1>1 DEF BooksInv, AbsentIsNoDoc
      <3>3. \/ transactions'[t] = transactions[t]
            \/ \E b \in blocks : /\ transactions[t] # Consumer!NoDoc
                                 /\ transactions'[t] = Consumer!ConfirmedDoc(BlockIndex[b])
        BY <1>1, <1>5, DocEffect
      <3>. QED
        BY <3>1, <3>2, <3>3
    <2>. DEFINE B == Transfers!BlocksTotal(w)
                C == Transfers!IssuedTotal(w)
                O == SumFunctionOnSet(Amount, Outstanding(w))
    <2>2. Outstanding(w)' = Outstanding(w)
      BY <1>5, <2>1, OutstandingSame
    <2>3. B' = B
      BY <1>5 DEF Transfers!BlocksTotal
    <2>4. C' \in Int /\ C <= C'
      BY <1>1, CreditsGrow
    <2>5. Holdings(w) = B + C - O /\ Holdings(w)' = B' + C' - SumFunctionOnSet(Amount, Outstanding(w)')
      BY SameSum DEF Holdings
    <2>6. Holdings(w)' = B + C' - O
      BY <2>2, <2>3, <2>5
    <2>7. B \in Int /\ C \in Int /\ O \in Int
      BY <1>1, BalanceTypes, OutstandingType
    <2>. HIDE DEF B, C, O
    <2>. QED
      BY <1>2, <2>4, <2>5, <2>6, <2>7
  <1>. QED
    BY <1>3, <1>4, <1>5

\* Nobody sends more than it owns (the check of create_transfer, transaction_service.py:82-85),
\* as far as the record charges a wallet once for a transfer, when the API is one process: with
\* two, both check the same balance.  Wallets says whom it is about.
THEOREM NoOverdraftAlways ==
    ASSUME \A p, q \in Proc : p = q
    PROVE  Spec => []NoOverdraft
  <1>1. Init => ReadsHold /\ NoOverdraft
    <2>. SUFFICES ASSUME Init
                  PROVE  ReadsHold /\ NoOverdraft
      OBVIOUS
    <2>1. ReadsHold
      BY DEF Init, ReadsHold, Transfers!NoCall
    <2>2. ASSUME ChargedOnce(Wallets), NEW w \in Wallets
          PROVE  Holdings(w) >= 0
      <3>. DEFINE B == Transfers!BlocksTotal(w)
                  C == Transfers!IssuedTotal(w)
                  movement == [b \in blocks |-> Transfers!BlockMovement(b, w)]
                  credit == [c \in CreditId |-> credits[c] * CreditAmount[c]]
                  mine == {c \in CreditId : CreditTo[c] = w}
      <3>1. blocks = {Genesis} /\ Genesis \in Block /\ \A t \in TxId : transactions[t].status = "ABSENT"
        BY Assumptions DEF Init, Consumer!Init, Consumer!NoDoc, Proven!BlocksAssumption
      <3>2. Outstanding(w) = {}
        BY <3>1 DEF Outstanding
      <3>3. C \in Nat
        <4>1. IsFiniteSet(mine)
          BY LedgerAssumption, FS_Subset
        <4>2. ASSUME NEW c \in mine
              PROVE  credit[c] \in Nat
          <5>1. credits[c] = 0 /\ CreditAmount[c] \in Int
            BY LedgerAssumption DEF Init, Credits!Init
          <5>2. \A a \in Int : 0 * a = 0
            OBVIOUS
          <5>. QED
            BY <5>1, <5>2
        <4>. HIDE DEF credit, mine
        <4>3. SumFunctionOnSet(credit, mine) \in Nat
          BY <4>1, <4>2, SumNotNegative
        <4>. QED
          BY <4>3, SameSum DEF Transfers!IssuedTotal, credit, mine
      <3>4. B \in Nat
        <4>1. Transfers!SentIn(Genesis, w) = {}
          <5>. SUFFICES ASSUME NEW i \in DOMAIN BlockTxs[Genesis], From[BlockTxs[Genesis][i]] = w
                        PROVE  FALSE
            BY DEF Transfers!SentIn
          <5>1. BlockTxs[Genesis][i] \in TxId
            BY <2>2, <3>1 DEF ChargedOnce
          <5>. QED
            BY <3>1, <5>1, LedgerAssumption, Assumptions
               DEF Consumer!IdsOf, Proven!BlocksAssumption
        <4>. DEFINE amounts == Transfers!EntryAmounts(Genesis)
                    gained == Transfers!ReceivedIn(Genesis, w)
        <4>2. IsFiniteSet(gained) /\ \A i \in gained : amounts[i] \in Nat
          <5>1. gained \subseteq DOMAIN BlockTxs[Genesis]
            BY DEF Transfers!ReceivedIn
          <5>2. \A i \in gained : amounts[i] = Amount[BlockTxs[Genesis][i]] /\ amounts[i] \in Int
            BY <3>1, <5>1, EntriesType
          <5>3. \A i \in gained : Amount[BlockTxs[Genesis][i]] >= 0
            BY <2>2, <3>1, <5>1 DEF ChargedOnce
          <5>4. IsFiniteSet(gained)
            BY <3>1, <5>1, EntriesType
          <5>. QED
            BY <5>2, <5>3, <5>4
        <4>3. SumFunctionOnSet(amounts, gained) \in Nat
          <5>. HIDE DEF amounts, gained
          <5>. QED
            BY <4>2, SumNotNegative
        <4>4. SumFunctionOnSet(amounts, {}) = 0
          BY SumOfNone
        <4>5. Transfers!BlockMovement(Genesis, w) \in Nat
          <5>1. Transfers!BlockMovement(Genesis, w)
                  = SumFunctionOnSet(amounts, gained) - SumFunctionOnSet(amounts, {})
            BY <4>1, SameSum DEF Transfers!BlockMovement
          <5>. QED
            BY <4>3, <4>4, <5>1
        <4>6. IsFiniteSet(blocks) /\ \A b \in blocks : movement[b] \in Nat
          BY <3>1, <4>5, FS_Singleton
        <4>7. SumFunctionOnSet(movement, blocks) \in Nat
          <5>. HIDE DEF movement
          <5>. QED
            BY <4>6, SumNotNegative
        <4>. QED
          BY <4>7, SameSum DEF Transfers!BlocksTotal
      <3>5. Holdings(w) = B + C - 0
        BY <3>2, SumOfNone, SameSum DEF Holdings
      <3>. HIDE DEF B, C
      <3>. QED
        BY <3>3, <3>4, <3>5
    <2>. QED
      BY <2>1, <2>2 DEF NoOverdraft
  <1>2. OverdraftInv /\ BooksInv' /\ [Next]_vars => ReadsHold' /\ NoOverdraft'
    BY ReadsHoldStep, NoOverdraftStep
  <1>. QED
    BY <1>1, <1>2, BooksInvariance, PTL DEF Spec, OverdraftInv
=============================================================================
