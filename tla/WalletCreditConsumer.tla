------------------------ MODULE WalletCreditConsumer ------------------------
(***************************************************************************)
(* The wallet.credit.issued consumer                                       *)
(* (src/src/workers/genesis_credit_consumer.py): every API process takes   *)
(* the credits the wallet module issues from one durable queue and writes  *)
(* each as a CONFIRMED document with no block, keyed by its credit_id.     *)
(*                                                                         *)
(* The collection is a bag here, the number of documents of every          *)
(* credit_id, because a document of a credit is money: the balance counts  *)
(* each one.  What keeps that number at one is the upsert together with    *)
(* the unique index, which the task itself creates before it consumes.     *)
(***************************************************************************)
EXTENDS Integers, Sequences, Functions

CONSTANTS
    Proc,          \* API processes, each with one consumer
    CreditId,      \* credits the wallet module can issue
    NoCredit,      \* no message
    MaxQueue,      \* bound: messages waiting in the queue
    MaxCrashes,    \* bound: crashes and lost connections
    MaxFailures    \* bound: database calls that raise

ASSUME CreditAssumption ==
    /\ NoCredit \notin CreditId
    /\ MaxQueue \in Nat /\ MaxCrashes \in Nat /\ MaxFailures \in Nat

VARIABLES
    copies,        \* [CreditId -> Nat]: documents of each credit_id
    indexed,       \* the unique index on credit_id exists
    queue,         \* the durable queue of wallet.credit.issued
    unacked,       \* the message the broker has out at a process (prefetch 1)
    handler,       \* _handle_message of a process: where it is, on which credit
    issued,        \* every credit ever published (history)
    dropped,       \* credits of a message rejected without requeue (history)
    crashes,       \* crashes and lost connections so far
    failures       \* failed database calls so far

brokerVars == <<queue, unacked>>
dbVars == <<copies, indexed>>
vars == <<copies, indexed, queue, unacked, handler, issued, dropped, crashes, failures>>

At(pc, c) == [pc |-> pc, credit |-> c]
Handler == [pc : {"down", "dead", "idle", "persist", "insert", "ack"},
            credit : CreditId \cup {NoCredit}]

\* Every process starts down: its lifespan has not run the consumer yet.
Init ==
    /\ copies = [c \in CreditId |-> 0]
    /\ indexed = FALSE
    /\ queue = <<>>
    /\ unacked = [p \in Proc |-> NoCredit]
    /\ handler = [p \in Proc |-> At("down", NoCredit)]
    /\ issued = {}
    /\ dropped = {}
    /\ crashes = 0
    /\ failures = 0

-----------------------------------------------------------------------------
(* The environment: the wallet module, the broker, the process. *)

\* The wallet module issues a credit, or publishes the event of one again.
Issue(c) ==
    /\ Len(queue) < MaxQueue
    /\ queue' = Append(queue, c)
    /\ issued' = issued \cup {c}
    /\ UNCHANGED <<dbVars, unacked, handler, dropped, crashes, failures>>

\* Mutant: the consumer subscribes with no_ack, the broker forgets what it delivers.
DeliverNoAck(p) ==
    /\ handler[p].pc = "idle"
    /\ queue # <<>>
    /\ queue' = Tail(queue)
    /\ handler' = [handler EXCEPT ![p] = At("persist", Head(queue))]
    /\ UNCHANGED <<dbVars, unacked, issued, dropped, crashes, failures>>

\* The broker hands the head of the queue to a consumer that owes it no ack.
Deliver(p) ==
    /\ handler[p].pc = "idle"
    /\ unacked[p] = NoCredit
    /\ queue # <<>>
    /\ unacked' = [unacked EXCEPT ![p] = Head(queue)]
    /\ queue' = Tail(queue)
    /\ handler' = [handler EXCEPT ![p] = At("persist", Head(queue))]
    /\ UNCHANGED <<dbVars, issued, dropped, crashes, failures>>

\* A message without ack returns to the head of the queue, where it was taken from.
Requeue(p) ==
    /\ queue' = IF unacked[p] = NoCredit THEN queue ELSE <<unacked[p]>> \o queue
    /\ unacked' = [unacked EXCEPT ![p] = NoCredit]

\* The broker takes the message back while the handler goes on.
LoseConnection(p) ==
    /\ crashes < MaxCrashes
    /\ unacked[p] # NoCredit
    /\ Requeue(p)
    /\ crashes' = crashes + 1
    /\ UNCHANGED <<dbVars, handler, issued, dropped, failures>>

Crash(p) ==
    /\ crashes < MaxCrashes
    /\ handler[p].pc # "down"
    /\ Requeue(p)
    /\ handler' = [handler EXCEPT ![p] = At("down", NoCredit)]
    /\ crashes' = crashes + 1
    /\ UNCHANGED <<dbVars, issued, dropped, failures>>

\* Mutant: the index is left to initialize_database, which does not create it.
StartUnindexed(p) ==
    /\ handler[p].pc = "down"
    /\ handler' = [handler EXCEPT ![p] = At("idle", NoCredit)]
    /\ UNCHANGED <<dbVars, brokerVars, issued, dropped, crashes, failures>>

\* The lifespan starts the task: ensure_indexes, then the loop that consumes.
Start(p) ==
    /\ handler[p].pc = "down"
    /\ indexed' = TRUE
    /\ handler' = [handler EXCEPT ![p] = At("idle", NoCredit)]
    /\ UNCHANGED <<copies, brokerVars, issued, dropped, crashes, failures>>

\* ensure_indexes raises: it is outside the loop that retries, and the task ends.
StartFails(p) ==
    /\ handler[p].pc = "down"
    /\ failures < MaxFailures
    /\ handler' = [handler EXCEPT ![p] = At("dead", NoCredit)]
    /\ failures' = failures + 1
    /\ UNCHANGED <<dbVars, brokerVars, issued, dropped, crashes>>

-----------------------------------------------------------------------------
(* _handle_message: the upsert of persist_credit in its two halves, ack or nack. *)

Goto(p, pc) == handler' = [handler EXCEPT ![p].pc = pc]
Finish(p) == handler' = [handler EXCEPT ![p] = At("idle", NoCredit)]

\* Mutant: a document found is deleted to be written again (delete and insert for the
\* upsert).
PersistByReplacing(p) ==
    /\ handler[p].pc = "persist"
    /\ copies' = [copies EXCEPT ![handler[p].credit] = 0]
    /\ Goto(p, "insert")
    /\ UNCHANGED <<indexed, brokerVars, issued, dropped, crashes, failures>>

\* The server looks for the credit_id; when it is there nothing is written.
Persist(p) ==
    /\ handler[p].pc = "persist"
    /\ Goto(p, IF copies[handler[p].credit] > 0 THEN "ack" ELSE "insert")
    /\ UNCHANGED <<dbVars, brokerVars, issued, dropped, crashes, failures>>

\* The document goes in unless the unique index refuses it; then the server repeats
\* the upsert, which now finds the document of the other process.
InsertCredit(p) ==
    LET c == handler[p].credit IN
    /\ handler[p].pc = "insert"
    /\ copies' = IF indexed /\ copies[c] > 0 THEN copies ELSE [copies EXCEPT ![c] = @ + 1]
    /\ Goto(p, "ack")
    /\ UNCHANGED <<indexed, brokerVars, issued, dropped, crashes, failures>>

\* A call raises before or after it was applied, the DuplicateKeyError of the index
\* included: the handler has one branch for all of them, nack without requeue.
DbFailure(p) ==
    LET c == handler[p].credit IN
    /\ failures < MaxFailures
    /\ handler[p].pc \in {"persist", "insert"}
    /\ \/ UNCHANGED copies
       \/ handler[p].pc = "insert" /\ copies[c] = 0 /\ copies' = [copies EXCEPT ![c] = 1]
    /\ dropped' = IF unacked[p] = NoCredit THEN dropped ELSE dropped \cup {c}
    /\ unacked' = [unacked EXCEPT ![p] = NoCredit]
    /\ Finish(p)
    /\ failures' = failures + 1
    /\ UNCHANGED <<indexed, queue, issued, crashes>>

\* Mutant: the handler returns without an ack.
AckForgotten(p) ==
    /\ handler[p].pc = "ack"
    /\ Finish(p)
    /\ UNCHANGED <<dbVars, brokerVars, issued, dropped, crashes, failures>>

Ack(p) ==
    /\ handler[p].pc = "ack"
    /\ unacked' = [unacked EXCEPT ![p] = NoCredit]
    /\ Finish(p)
    /\ UNCHANGED <<dbVars, queue, issued, dropped, crashes, failures>>

-----------------------------------------------------------------------------
ConsumerStep(p) == Persist(p) \/ InsertCredit(p) \/ DbFailure(p) \/ Ack(p)

Next ==
    \/ \E c \in CreditId : Issue(c)
    \/ \E p \in Proc : ConsumerStep(p) \/ Deliver(p) \/ LoseConnection(p)
    \/ \E p \in Proc : Crash(p) \/ Start(p) \/ StartFails(p)

Spec == Init /\ [][Next]_vars

\* The event loop runs a handler to its ack, the broker delivers what it has to a
\* free consumer, and the container of a dead process is started again.
FairSpec ==
    /\ Spec
    /\ \A p \in Proc :
        WF_vars(Persist(p) \/ InsertCredit(p) \/ Ack(p))
        /\ WF_vars(Deliver(p)) /\ WF_vars(Start(p))

-----------------------------------------------------------------------------
TypeOK ==
    /\ copies \in [CreditId -> Nat]
    /\ indexed \in BOOLEAN
    /\ queue \in Seq(CreditId)
    /\ unacked \in [Proc -> CreditId \cup {NoCredit}]
    /\ handler \in [Proc -> Handler]
    /\ issued \subseteq CreditId
    /\ dropped \subseteq CreditId
    /\ crashes \in 0..MaxCrashes
    /\ failures \in 0..MaxFailures

InFlight(c) == c \in Range(queue) \/ \E p \in Proc : unacked[p] = c

\* A redelivery, a second event or two processes at once never credit a wallet twice
\* (genesis_credit_consumer.py:6-7 and the unique index of line 70).
CreditedOnce == \A c \in CreditId : copies[c] <= 1

\* An issued credit is on its way, in the collection, or its message was rejected.
NoCreditLost == \A c \in issued : InFlight(c) \/ copies[c] > 0 \/ c \in dropped

\* The collection behaves as the credit book: a credit is written once and no step of
\* any process writes it again, replaces it or takes it away.
Book == INSTANCE CreditBook WITH credits <- copies
ImplementsCreditBook == Book!Spec

AllDead == \A p \in Proc : handler[p].pc = "dead"

\* Every issued credit reaches its wallet, unless its message was rejected after a
\* failed call or no process has a consumer left.
EventuallyCredited ==
    \A c \in CreditId : c \in issued ~> copies[c] > 0 \/ c \in dropped \/ AllDead
=============================================================================
