---------------------------- MODULE PaymentFlow ----------------------------
(***************************************************************************)
(* The buyer's side of one process: X402PaymentMiddleware.handle_request   *)
(* running concurrently for several requests, the AgentWallet ledger it    *)
(* deducts from, the PaymentOrderStore it records every step in, the chain *)
(* payment made through the provider, and the background DeliveryWorker    *)
(* that re-sends paid requests whose answer never came.                    *)
(*                                                                         *)
(* One action is the code between two awaits that another coroutine can    *)
(* run in, or between two commits a crash can fall in.  The ledger, the    *)
(* order rows and the chain survive a crash; the in-memory orders, the     *)
(* payment lock and the worker's batch do not.                             *)
(***************************************************************************)
EXTENDS Integers, FiniteSetsExt

CONSTANTS
  Requests,      \* the calls of handle_request
  Price,         \* the amount each request's challenge asks for
  Funds,         \* what has been deposited in the wallet
  DailyLimit,    \* config.daily_spend_limit
  Storing,       \* the requests whose middleware has an order_store and worker
  MaxRetries,    \* delivery_max_retries
  StaleAge,      \* DEFAULT_STALE_AGE, in ticks
  BaseBackoff,   \* DEFAULT_BASE_BACKOFF, in ticks
  MaxAge,        \* ages are counted up to this many ticks
  MaxFaults,     \* bound: crashes and failed worker cycles in one behaviour
  NoOne          \* nobody holds the lock, nothing is being re-sent

ASSUME PriceAssumption == Price \in [Requests -> Nat \ {0}]
ASSUME LimitAssumption == Funds \in Nat /\ DailyLimit \in Nat
ASSUME StoreAssumption == Storing \subseteq Requests
ASSUME BoundAssumption ==
  /\ MaxRetries \in Nat /\ MaxAge \in Nat /\ MaxFaults \in Nat
  /\ StaleAge \in Nat /\ BaseBackoff \in Nat
ASSUME NoOneAssumption == NoOne \notin Requests

VARIABLES
  pc,          \* where each handle_request coroutine is
  lock,        \* the holder of _payment_lock
  deduction,   \* the ledger: the deduction row of each request
  chain,       \* what really happened to each request's transaction
  order,       \* the persisted payment_orders rows
  mem,         \* the PaymentOrder object each coroutine holds
  batch,       \* the worker's copies, as get_stale_deliveries returned them
  sending,     \* the order the worker is re-sending
  outcome,     \* the answer to the worker's re-send
  served,      \* history: how often the seller did the work, up to 2
  lost,        \* history: an answer to work done never reached the order
  raced,       \* history: the worker took an order up before its coroutine,
               \* StaleAge after the paid retry began, had done with it
  faults       \* crashes and failed worker cycles so far

middlewareVars == <<pc, lock, mem>>
workerVars     == <<batch, sending, outcome>>
historyVars    == <<served, lost, raced, faults>>
vars == <<pc, lock, deduction, chain, order, mem, batch, sending, outcome,
          served, lost, raced, faults>>

-----------------------------------------------------------------------------
(* Orders *)

Lifecycle == INSTANCE OrderLifecycle
               WITH Orders <- Requests,
                    state  <- [r \in Requests |-> order[r].state]

\* The fields of an order the flow depends on: its state, whether it has a
\* tx_hash, retry_count, and the ticks passed since updated_at.
Order == [state   : Lifecycle!OrderState \cup {Lifecycle!Absent},
          tx      : BOOLEAN,
          retries : Nat,
          age     : Nat]

NoOrder == [state |-> Lifecycle!Absent, tx |-> FALSE, retries |-> 0, age |-> 0]

\* Variant: the first save writes a state the enumeration does not have.
NewOrder_UnknownState == [NoOrder EXCEPT !.state = "NEW"]
NewOrder == [NoOrder EXCEPT !.state = "CREATED"]

CanTransition(o, s) ==
  /\ o.state \in Lifecycle!OrderState
  /\ s \in Lifecycle!AllowedTransitions[o.state]

TransitionTo(o, s) == [o EXCEPT !.state = s, !.age = 0]

\* updated_at is compared with the clock for DELIVERING rows only.
Older(o) ==
  IF o.state = "DELIVERING" /\ o.age < MaxAge
  THEN [o EXCEPT !.age = @ + 1]
  ELSE o

\* Variant: the poll forgets the updated_at filter.
Stale_AnyAge(o) == o.state = "DELIVERING"
Stale(o) == o.state = "DELIVERING" /\ o.age > StaleAge

Backoff(o) == BaseBackoff * 2 ^ o.retries

-----------------------------------------------------------------------------
(* The wallet *)

Confirmed == {r \in Requests : deduction[r] = "confirmed"}
Spent     == MapThenSumSet(LAMBDA r : Price[r], Confirmed)
Balance   == Funds - Spent

\* The budget guard's last two layers and deduct's own checks read the same
\* two sums: the day's spend and the balance.
Affordable(r) ==
  /\ Spent + Price[r] <= DailyLimit
  /\ Balance >= Price[r]

-----------------------------------------------------------------------------

PC == {"idle", "waitLock", "check", "create", "deduct", "recordDeduct",
       "pay", "rollback", "recordRefund", "recordTx", "recordDelivering",
       "retry", "recordSuccess", "recordFailure", "done", "dead"}

Finished == {"done", "dead"}

Goto(r, from, to) ==
  /\ pc[r] = from
  /\ pc' = [pc EXCEPT ![r] = to]

\* _transition_order: nothing for an order that is None, else mutate and
\* persist.
RecordState(r, s, o) ==
  \/ /\ r \notin Storing
     /\ UNCHANGED <<mem, order>>
  \/ /\ r \in Storing
     /\ CanTransition(mem[r], s)
     /\ mem'   = [mem   EXCEPT ![r] = TransitionTo(o, s)]
     /\ order' = [order EXCEPT ![r] = TransitionTo(o, s)]

Init ==
  /\ pc        = [r \in Requests |-> "idle"]
  /\ lock      = NoOne
  /\ deduction = [r \in Requests |-> "none"]
  /\ chain     = [r \in Requests |-> "none"]
  /\ order     = [r \in Requests |-> NoOrder]
  /\ mem       = [r \in Requests |-> NoOrder]
  /\ batch     = [r \in Requests |-> NoOrder]
  /\ sending   = NoOne
  /\ outcome   = "pending"
  /\ served    = [r \in Requests |-> 0]
  /\ lost      = [r \in Requests |-> FALSE]
  /\ raced     = [r \in Requests |-> FALSE]
  /\ faults    = 0

-----------------------------------------------------------------------------
(* handle_request *)

\* The first send is answered with a valid x402 challenge.
Challenged(r) ==
  /\ Goto(r, "idle", "waitLock")
  /\ UNCHANGED <<lock, deduction, chain, order, mem, workerVars, historyVars>>

\* Any other answer to the first send is handed back as it is.
PassThrough(r) ==
  /\ Goto(r, "idle", "done")
  /\ UNCHANGED <<lock, deduction, chain, order, mem, workerVars, historyVars>>

AcquireLock(r) ==
  /\ lock = NoOne
  /\ Goto(r, "waitLock", "check")
  /\ lock' = r
  /\ UNCHANGED <<deduction, chain, order, mem, workerVars, historyVars>>

BudgetDenied(r) ==
  /\ ~Affordable(r)
  /\ Goto(r, "check", "done")
  /\ lock' = NoOne
  /\ UNCHANGED <<deduction, chain, order, mem, workerVars, historyVars>>

BudgetApproved(r) ==
  /\ Affordable(r)
  /\ Goto(r, "check", "create")
  /\ UNCHANGED <<lock, deduction, chain, order, mem, workerVars, historyVars>>

CreateOrder(r) ==
  /\ Goto(r, "create", "deduct")
  /\ \/ r \notin Storing /\ UNCHANGED <<mem, order>>
     \/ /\ r \in Storing
        /\ mem'   = [mem   EXCEPT ![r] = NewOrder]
        /\ order' = [order EXCEPT ![r] = NewOrder]
  /\ UNCHANGED <<lock, deduction, chain, workerVars, historyVars>>

\* wallet.deduct commits the ledger row before the order says so.  When it
\* raises, the coroutine ends: see Abort.
Deduct(r) ==
  /\ Affordable(r)
  /\ Goto(r, "deduct", "recordDeduct")
  /\ deduction' = [deduction EXCEPT ![r] = "confirmed"]
  /\ UNCHANGED <<lock, chain, order, mem, workerVars, historyVars>>

RecordDeducted(r) ==
  /\ Goto(r, "recordDeduct", "pay")
  /\ RecordState(r, "LOCAL_DEDUCTED", mem[r])
  /\ lock' = NoOne
  /\ UNCHANGED <<deduction, chain, workerVars, historyVars>>

\* pay returns success: the transaction was sent, and confirmed or not.  A
\* confirmation that times out or fails is reported as success as well.
PayOk(r) ==
  /\ chain[r] # "none"
  /\ Goto(r, "pay", "recordTx")
  /\ UNCHANGED <<lock, deduction, chain, order, mem, workerVars, historyVars>>

\* pay returns success=False: an error before the send, an error answer or a
\* timeout of the send itself (whatever became of the transaction), or a
\* confirmation that says the transaction failed.
PayFailed(r) ==
  /\ Goto(r, "pay", "rollback")
  /\ UNCHANGED <<lock, deduction, chain, order, mem, workerVars, historyVars>>

Rollback(r) ==
  /\ Goto(r, "rollback", "recordRefund")
  /\ deduction[r] = "confirmed"
  /\ deduction' = [deduction EXCEPT ![r] = "rolled_back"]
  /\ UNCHANGED <<lock, chain, order, mem, workerVars, historyVars>>

\* Variant: the rollback is not recorded in the order.
RecordRefunded_Unrecorded(r) ==
  /\ Goto(r, "recordRefund", "done")
  /\ UNCHANGED <<lock, deduction, chain, order, mem, workerVars, historyVars>>

RecordRefunded(r) ==
  /\ Goto(r, "recordRefund", "done")
  /\ RecordState(r, "REFUNDED", mem[r])
  /\ UNCHANGED <<lock, deduction, chain, workerVars, historyVars>>

\* Variant: the transition is persisted without the tx_hash.
RecordBroadcast_NoTxHash(r) ==
  /\ Goto(r, "recordTx", "recordDelivering")
  /\ RecordState(r, "CHAIN_BROADCASTED", mem[r])
  /\ UNCHANGED <<lock, deduction, chain, workerVars, historyVars>>

RecordBroadcast(r) ==
  /\ Goto(r, "recordTx", "recordDelivering")
  /\ RecordState(r, "CHAIN_BROADCASTED", [mem[r] EXCEPT !.tx = TRUE])
  /\ UNCHANGED <<lock, deduction, chain, workerVars, historyVars>>

RecordDelivering(r) ==
  /\ Goto(r, "recordDelivering", "retry")
  /\ RecordState(r, "DELIVERING", mem[r])
  /\ UNCHANGED <<lock, deduction, chain, workerVars, historyVars>>

Serve(r) == served' = [served EXCEPT ![r] = IF @ < 2 THEN @ + 1 ELSE @]

\* The paid retry comes back below 400.
RetryServed(r) ==
  /\ Goto(r, "retry", "recordSuccess")
  /\ Serve(r)
  /\ UNCHANGED <<lock, deduction, chain, order, mem, workerVars, lost, raced, faults>>

\* Variants: a rejected retry rolls the deduction back; is taken for a good
\* answer; is repeated at once and without end.
RetryRejected_RollsBack(r) ==
  /\ Goto(r, "retry", "rollback")
  /\ UNCHANGED <<lock, deduction, chain, order, mem, workerVars, historyVars>>

RetryRejected_TakenAsGood(r) ==
  /\ Goto(r, "retry", "recordSuccess")
  /\ UNCHANGED <<lock, deduction, chain, order, mem, workerVars, historyVars>>

RetryRejected_Repeats(r) ==
  /\ Goto(r, "retry", "recordDelivering")
  /\ UNCHANGED <<lock, deduction, chain, order, mem, workerVars, historyVars>>

\* The paid retry comes back with 400 or above.
RetryRejected(r) ==
  /\ Goto(r, "retry", "recordFailure")
  /\ UNCHANGED <<lock, deduction, chain, order, mem, workerVars, historyVars>>

\* The paid retry raises (timeout, connection reset): nothing catches it.
\* The seller may have done the work.
RetryRaised(r) ==
  /\ Goto(r, "retry", "dead")
  /\ \/ UNCHANGED <<served, lost>>
     \/ Serve(r) /\ lost' = [lost EXCEPT ![r] = TRUE]
  /\ mem' = [mem EXCEPT ![r] = NoOrder]
  /\ UNCHANGED <<lock, deduction, chain, order, workerVars, raced, faults>>

RecordSuccess(r) ==
  /\ Goto(r, "recordSuccess", "done")
  /\ RecordState(r, "SUCCESS", mem[r])
  /\ UNCHANGED <<lock, deduction, chain, workerVars, historyVars>>

\* _save_order: the row is overwritten with the coroutine's copy, whose
\* state and updated_at are those of RecordDelivering.
RecordFailure(r) ==
  /\ Goto(r, "recordFailure", "done")
  /\ \/ r \notin Storing /\ UNCHANGED <<mem, order>>
     \/ /\ r \in Storing
        /\ order' = [order EXCEPT ![r] = [mem[r] EXCEPT !.retries = @ + 1]]
        /\ mem'   = [mem   EXCEPT ![r] = NoOrder]
  /\ UNCHANGED <<lock, deduction, chain, workerVars, historyVars>>

\* Work whose good answer was received but not yet recorded.
Unrecorded(r) ==
  \/ pc[r] = "recordSuccess"
  \/ sending = r /\ outcome = "ok"

\* The coroutine ends by an exception nothing catches (the ledger or the
\* store raises, the ledger refuses) or is cancelled at an await.  async with
\* releases the lock.
Abort(r) ==
  /\ pc[r] \notin Finished \cup {"idle"}
  /\ pc'   = [pc EXCEPT ![r] = "dead"]
  /\ mem'  = [mem EXCEPT ![r] = NoOrder]
  /\ lock' = IF lock = r THEN NoOne ELSE lock
  /\ lost' = [lost EXCEPT ![r] = @ \/ pc[r] = "recordSuccess"]
  /\ UNCHANGED <<deduction, chain, order, workerVars, served, raced, faults>>

-----------------------------------------------------------------------------
(* The chain *)

\* The transaction reaches the cluster while pay is sending it.
Broadcast(r) ==
  /\ pc[r] = "pay"
  /\ chain[r] = "none"
  /\ chain' = [chain EXCEPT ![r] = "broadcast"]
  /\ UNCHANGED <<middlewareVars, deduction, order, workerVars, historyVars>>

\* A broadcast transaction is included, or fails, or its blockhash expires.
Settle(r) ==
  /\ chain[r] = "broadcast"
  /\ \E result \in {"landed", "reverted"} :
       chain' = [chain EXCEPT ![r] = result]
  /\ UNCHANGED <<middlewareVars, deduction, order, workerVars, historyVars>>

-----------------------------------------------------------------------------
(* DeliveryWorker *)

InBatch == {r \in Requests : batch[r] # NoOrder}

\* ORDER BY updated_at ASC.
NextInBatch(r) ==
  /\ sending = NoOne
  /\ r \in InBatch
  /\ \A s \in InBatch : batch[s].age <= batch[r].age

Drop(r) == batch' = [batch EXCEPT ![r] = NoOrder]

\* The coroutine waits for the answer to its paid retry, or records it.
InRetry(r) == pc[r] \in {"retry", "recordSuccess", "recordFailure"}

Poll ==
  /\ InBatch = {}
  /\ \E r \in Requests : Stale(order[r])
  /\ batch' = [r \in Requests |-> IF Stale(order[r]) THEN order[r] ELSE NoOrder]
  /\ raced' = [r \in Requests |->
                 \/ raced[r]
                 \/ Stale(order[r]) /\ order[r].age > StaleAge /\ InRetry(r)]
  /\ UNCHANGED <<middlewareVars, deduction, chain, order, sending, outcome,
                 served, lost, faults>>

\* Variants: exhaustion is tested with > against the re-send's <; an exhausted
\* order is marked refunded without asking the state machine.
Exhausted_OffByOne(r) ==
  /\ NextInBatch(r)
  /\ batch[r].retries > MaxRetries
  /\ order' = [order EXCEPT ![r] = TransitionTo(batch[r], "FAILED")]
  /\ Drop(r)
  /\ UNCHANGED <<middlewareVars, deduction, chain, sending, outcome, historyVars>>

Exhausted_MarksRefunded(r) ==
  /\ NextInBatch(r)
  /\ batch[r].retries >= MaxRetries
  /\ order' = [order EXCEPT ![r] = TransitionTo(batch[r], "REFUNDED")]
  /\ Drop(r)
  /\ UNCHANGED <<middlewareVars, deduction, chain, sending, outcome, historyVars>>

Exhausted(r) ==
  /\ NextInBatch(r)
  /\ batch[r].retries >= MaxRetries
  /\ CanTransition(batch[r], "FAILED")
  /\ order' = [order EXCEPT ![r] = TransitionTo(batch[r], "FAILED")]
  /\ Drop(r)
  /\ UNCHANGED <<middlewareVars, deduction, chain, sending, outcome, historyVars>>

NotDue(r) ==
  /\ NextInBatch(r)
  /\ batch[r].retries < MaxRetries
  /\ batch[r].age < Backoff(batch[r])
  /\ Drop(r)
  /\ UNCHANGED <<middlewareVars, deduction, chain, order, sending, outcome,
                 historyVars>>

Resend(r) ==
  /\ NextInBatch(r)
  /\ batch[r].retries < MaxRetries
  /\ batch[r].age >= Backoff(batch[r])
  /\ sending' = r
  /\ outcome' = "pending"
  /\ UNCHANGED <<middlewareVars, deduction, chain, order, batch, historyVars>>

\* A failure is a status of 400 or above, or an exception; after an exception
\* the work may have been done.
Answered(r) ==
  /\ sending = r
  /\ outcome = "pending"
  /\ \/ outcome' = "ok" /\ Serve(r) /\ UNCHANGED lost
     \/ outcome' = "failed" /\ UNCHANGED <<served, lost>>
     \/ /\ outcome' = "failed"
        /\ Serve(r)
        /\ lost' = [lost EXCEPT ![r] = TRUE]
  /\ UNCHANGED <<middlewareVars, deduction, chain, order, batch, sending, raced, faults>>

\* The row is overwritten with the worker's copy.
RecordResend(r) ==
  /\ sending = r
  /\ \/ /\ outcome = "ok"
        /\ CanTransition(batch[r], "SUCCESS")
        /\ order' = [order EXCEPT ![r] = TransitionTo(batch[r], "SUCCESS")]
     \/ /\ outcome = "failed"
        /\ order' = [order EXCEPT ![r] =
                       TransitionTo([batch[r] EXCEPT !.retries = @ + 1],
                                    "DELIVERING")]
  /\ Drop(r)
  /\ sending' = NoOne
  /\ outcome' = "pending"
  /\ UNCHANGED <<middlewareVars, deduction, chain, historyVars>>

\* The store raises: run catches it and the rest of the batch is dropped.
WorkerFault ==
  /\ faults < MaxFaults
  /\ InBatch # {}
  /\ batch'   = [r \in Requests |-> NoOrder]
  /\ sending' = NoOne
  /\ outcome' = "pending"
  /\ lost'    = [r \in Requests |->
                   lost[r] \/ (sending = r /\ outcome = "ok")]
  /\ faults'  = faults + 1
  /\ UNCHANGED <<middlewareVars, deduction, chain, order, served, raced>>

-----------------------------------------------------------------------------
(* Time and crashes *)

Tick ==
  /\ \E r \in Requests : \/ Older(order[r]) # order[r]
                         \/ Older(mem[r])   # mem[r]
                         \/ Older(batch[r]) # batch[r]
  /\ order' = [r \in Requests |-> Older(order[r])]
  /\ mem'   = [r \in Requests |-> Older(mem[r])]
  /\ batch' = [r \in Requests |-> Older(batch[r])]
  /\ UNCHANGED <<pc, lock, deduction, chain, sending, outcome, historyVars>>

\* The process dies and is started again; its requests are not resumed.
Crash ==
  /\ faults < MaxFaults
  /\ pc'      = [r \in Requests |->
                   IF pc[r] \in Finished \cup {"idle"} THEN pc[r] ELSE "dead"]
  /\ lock'    = NoOne
  /\ mem'     = [r \in Requests |-> NoOrder]
  /\ batch'   = [r \in Requests |-> NoOrder]
  /\ sending' = NoOne
  /\ outcome' = "pending"
  /\ lost'    = [r \in Requests |-> lost[r] \/ Unrecorded(r)]
  /\ faults'  = faults + 1
  /\ UNCHANGED <<deduction, chain, order, served, raced>>

-----------------------------------------------------------------------------

HandleRequest(r) ==
  \/ AcquireLock(r) \/ BudgetDenied(r) \/ BudgetApproved(r)
  \/ CreateOrder(r) \/ Deduct(r) \/ RecordDeducted(r)
  \/ PayOk(r) \/ PayFailed(r) \/ Rollback(r) \/ RecordRefunded(r)
  \/ RecordBroadcast(r) \/ RecordDelivering(r)
  \/ RetryServed(r) \/ RetryRejected(r) \/ RetryRaised(r)
  \/ RecordSuccess(r) \/ RecordFailure(r)

WorkerStep ==
  \/ Poll
  \/ \E r \in Requests :
       Exhausted(r) \/ NotDue(r) \/ Resend(r) \/ Answered(r) \/ RecordResend(r)

\* Every request was handled and every order has been dealt with.
AllHandled ==
  /\ \A r \in Requests : /\ pc[r] \in Finished
                         /\ order[r].state # "DELIVERING"
                         /\ chain[r] # "broadcast"
  /\ InBatch = {}
  /\ UNCHANGED vars

Next ==
  \/ \E r \in Requests :
       \/ Challenged(r) \/ PassThrough(r) \/ HandleRequest(r) \/ Abort(r)
       \/ Broadcast(r) \/ Settle(r)
  \/ WorkerStep
  \/ WorkerFault
  \/ Tick
  \/ Crash
  \/ AllHandled

\* The event loop runs every coroutine that can run, awaits have timeouts,
\* and time passes.  New requests, broken coroutines and crashes are not
\* promised.
Fairness ==
  /\ \A r \in Requests : WF_vars(HandleRequest(r))
  /\ WF_vars(WorkerStep)
  /\ WF_vars(Tick)

Spec == Init /\ [][Next]_vars /\ Fairness

-----------------------------------------------------------------------------

TypeOK ==
  /\ pc        \in [Requests -> PC]
  /\ lock      \in Requests \cup {NoOne}
  /\ deduction \in [Requests -> {"none", "confirmed", "rolled_back"}]
  /\ chain     \in [Requests -> {"none", "broadcast", "landed", "reverted"}]
  /\ order     \in [Requests -> Order]
  /\ mem       \in [Requests -> Order]
  /\ batch     \in [Requests -> Order]
  /\ sending   \in Requests \cup {NoOne}
  /\ outcome   \in {"pending", "ok", "failed"}
  /\ served    \in [Requests -> 0..2]
  /\ lost      \in [Requests -> BOOLEAN]
  /\ raced     \in [Requests -> BOOLEAN]
  /\ faults    \in Nat

-----------------------------------------------------------------------------
(* Properties *)

\* What the ledger may say while an order is persisted in a given state.
LedgerFor(s) ==
  CASE s = "CREATED"                        -> {"none", "confirmed"}
    [] s = "LOCAL_DEDUCTED"                 -> {"confirmed", "rolled_back"}
    [] s = "REFUNDED"                       -> {"rolled_back"}
    [] s \in {"CHAIN_BROADCASTED", "DELIVERING",
              "SUCCESS", "FAILED"}          -> {"confirmed"}
    [] OTHER                                -> {"none", "confirmed", "rolled_back"}

\* The ledger and the order store are two databases written one after the
\* other, and a crash can fall between the two writes.  Whatever falls where,
\* a persisted order never claims a deduction the ledger does not hold, never
\* says REFUNDED for money still deducted, and from CHAIN_BROADCASTED on (the
\* point of no return) the deduction is never rolled back.
LedgerLeadsOrder ==
  \A r \in Storing : deduction[r] \in LedgerFor(order[r].state)

\* An order the worker may re-send, or that ended delivered or failed, has a
\* tx_hash, and that transaction really was sent.
ProofIsReal ==
  \A r \in Requests :
    order[r].state \in {"CHAIN_BROADCASTED", "DELIVERING", "SUCCESS", "FAILED"}
      => order[r].tx /\ chain[r] # "none"

\* An order is SUCCESS only if the seller did the work at least once, whoever
\* of the coroutine and the worker wrote it.
SuccessMeansServed ==
  \A r \in Requests : order[r].state = "SUCCESS" => served[r] > 0

\* When handle_request returns, the two stores agree about the money: kept
\* for an order that was paid, given back for a refunded one, never taken
\* when no order exists.
ReturnsConsistent ==
  \A r \in Storing : pc[r] = "done" =>
    /\ deduction[r] = "none"        <=> order[r].state = Lifecycle!Absent
    /\ deduction[r] = "rolled_back" <=> order[r].state = "REFUNDED"

\* The seller does the work of one payment twice only if an answer to the
\* first time was lost on the way to the order row, or if the worker took the
\* order up while its first paid retry had been out for more than StaleAge
\* (both are 30 s: delivery_worker.py:28, x402_middleware.py:83).
DuplicateOnlyAfterLoss ==
  \A r \in Requests : served[r] > 1 => lost[r] \/ raced[r]

\* Every order whose transaction was sent ends delivered or given up, unless its
\* coroutine died between the commits of CHAIN_BROADCASTED and DELIVERING
\* (x402_middleware.py:267-288): the worker never looks at the former.
EveryDeliveryEnds ==
  \A r \in Requests :
    order[r].state \in {"CHAIN_BROADCASTED", "DELIVERING"} ~>
      \/ order[r].state \in {"SUCCESS", "FAILED"}
      \/ order[r].state = "CHAIN_BROADCASTED" /\ pc[r] = "dead"

\* Every request that asked to pay returns or raises; none waits forever for
\* the payment lock, whatever happened to its holder.
EveryRequestEnds ==
  \A r \in Requests : pc[r] = "waitLock" ~> pc[r] \in Finished

\* payment_order.py: the persisted order follows the uni-directional state
\* machine, terminal states included, for as long as it has one writer at a
\* time.  One that coroutine and worker write by turns may leave a terminal
\* state, but never the states of a delivery.
OneWriter == INSTANCE OrderLifecycle
               WITH Orders <- Requests,
                    state  <- [r \in Requests |->
                                 IF raced[r] THEN "DELIVERING" ELSE order[r].state]

FollowsLifecycle ==
  /\ OneWriter!Spec
  /\ [](\A r \in Requests :
         raced[r] => order[r].state \in {"DELIVERING", "SUCCESS", "FAILED"})

=============================================================================
