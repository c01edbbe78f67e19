------------------------ MODULE PaymentFlow_proofs -------------------------
(***************************************************************************)
(* What PaymentFlow's runs show for two requests, proved for any set of    *)
(* requests, any prices and limits, and any number of crashes: the type    *)
(* invariant and the safety invariants; that work is repeated only after a *)
(* loss or a race of coroutine and worker, and that the persisted orders   *)
(* implement OrderLifecycle while they have one writer.  Then of the       *)
(* clocks that these requests meet at the gateway's door, GatewayClocks:   *)
(* no message is let through twice, and the table of nonces keeps what is  *)
(* recent; no caller gets more than its rate, and none is refused without  *)
(* a reason; and a paid order that is given up had its chances.            *)
(***************************************************************************)
EXTENDS PaymentFlow, GatewayClocks, Sequences, SumTheorems

-----------------------------------------------------------------------------
(* The inductive invariant *)

DeliveryStates == {"DELIVERING", "SUCCESS", "FAILED"}
PaidStates     == DeliveryStates \cup {"CHAIN_BROADCASTED"}

BothIn(r, s) == order[r].state = s /\ mem[r].state = s

\* What each place of the coroutine knows of the ledger, the chain and the
\* two copies of its order.
ProgressInv(r) ==
  /\ pc[r] \in {"idle", "waitLock", "check", "create"}
       => deduction[r] = "none" /\ order[r].state = Lifecycle!Absent
  /\ pc[r] = "deduct"
       => deduction[r] = "none" /\ BothIn(r, "CREATED")
  /\ pc[r] = "recordDeduct"
       => deduction[r] = "confirmed" /\ BothIn(r, "CREATED")
  /\ pc[r] \in {"pay", "rollback", "recordTx"}
       => deduction[r] = "confirmed" /\ BothIn(r, "LOCAL_DEDUCTED")
  /\ pc[r] = "recordRefund"
       => deduction[r] = "rolled_back" /\ BothIn(r, "LOCAL_DEDUCTED")
  /\ pc[r] = "recordDelivering"
       => BothIn(r, "CHAIN_BROADCASTED") /\ mem[r].tx
  /\ pc[r] \in {"retry", "recordSuccess", "recordFailure"}
       => /\ order[r].state \in DeliveryStates
          /\ mem[r].state = "DELIVERING" /\ mem[r].tx
  /\ pc[r] = "done"
       => \/ deduction[r] = "none"        /\ order[r].state = Lifecycle!Absent
          \/ deduction[r] = "rolled_back" /\ order[r].state = "REFUNDED"
          \/ deduction[r] = "confirmed"   /\ order[r].state \in DeliveryStates

\* What a persisted order says is so, wherever its coroutine is or was.
OrderInv(r) ==
  /\ deduction[r] \in LedgerFor(order[r].state)
  /\ order[r].state \in PaidStates => order[r].tx /\ chain[r] # "none"

\* The worker only holds copies of orders that were being delivered.
BatchInv(r) ==
  /\ batch[r] # NoOrder =>
       /\ batch[r].state = "DELIVERING" /\ batch[r].tx
       /\ order[r].state \in DeliveryStates
  /\ sending = r => batch[r] # NoOrder

\* Without a store nothing is ever saved nor polled.
NothingStored(r) ==
  order[r].state = Lifecycle!Absent /\ batch[r] = NoOrder /\ sending # r

StoredInv(r) == ProgressInv(r) /\ OrderInv(r) /\ BatchInv(r)

IInv ==
  /\ \A r \in Requests : pc[r] = "recordTx" => chain[r] # "none"
  /\ \A r \in Storing : StoredInv(r)
  /\ \A r \in Requests \ Storing : NothingStored(r)


-----------------------------------------------------------------------------
(* Orders *)

\* The copies of an order that the actions write are orders.
LEMMA OrderTypes ==
  /\ NoOrder \in Order
  /\ NewOrder \in Order
  /\ \A o \in Order : Older(o) \in Order
  /\ \A o \in Order, s \in Lifecycle!OrderState : TransitionTo(o, s) \in Order
  /\ \A o \in Order : [o EXCEPT !.tx = TRUE] \in Order
  /\ \A o \in Order : [o EXCEPT !.retries = @ + 1] \in Order
<1>1. NoOrder \in Order
  BY DEF NoOrder, Order
<1>2. NewOrder \in Order
  BY DEF NewOrder, NoOrder, Order, Lifecycle!OrderState
<1>3. ASSUME NEW o \in Order PROVE Older(o) \in Order
  BY DEF Older, Order
<1>4. ASSUME NEW o \in Order, NEW s \in Lifecycle!OrderState
      PROVE  TransitionTo(o, s) \in Order
  BY DEF TransitionTo, Order
<1>5. ASSUME NEW o \in Order PROVE [o EXCEPT !.tx = TRUE] \in Order
  BY DEF Order
<1>6. ASSUME NEW o \in Order PROVE [o EXCEPT !.retries = @ + 1] \in Order
  BY DEF Order
<1> QED BY <1>1, <1>2, <1>3, <1>4, <1>5, <1>6

\* What the actions' edits of an order leave in it.
LEMMA OrderEdits ==
  ASSUME NEW o \in Order
  PROVE  /\ Older(o).state = o.state /\ Older(o).tx = o.tx
         /\ \A s \in Lifecycle!OrderState :
              TransitionTo(o, s).state = s /\ TransitionTo(o, s).tx = o.tx
         /\ [o EXCEPT !.tx = TRUE].tx
         /\ [o EXCEPT !.retries = @ + 1].state = o.state
         /\ [o EXCEPT !.retries = @ + 1].tx = o.tx
  BY DEF Older, TransitionTo, Order

\* The states the actions name are states of the machine, and Absent is not.
LEMMA StateNames ==
  /\ \A s \in {"CREATED", "LOCAL_DEDUCTED", "CHAIN_BROADCASTED", "DELIVERING",
               "SUCCESS", "REFUNDED", "FAILED"} : s \in Lifecycle!OrderState
  /\ Lifecycle!Absent \notin Lifecycle!OrderState
  /\ Lifecycle!Absent = "ABSENT"
  /\ NoOrder.state = "ABSENT" /\ NewOrder.state = "CREATED"
  BY DEF Lifecycle!OrderState, Lifecycle!Absent, NoOrder, NewOrder

-----------------------------------------------------------------------------
(* Type correctness *)

LEMMA InitTypeOK == Init => TypeOK
<1> SUFFICES ASSUME Init PROVE TypeOK
  OBVIOUS
<1> QED BY OrderTypes DEF Init, TypeOK, PC

LEMMA RecordStateTypes ==
  ASSUME TypeOK, NEW r \in Requests, NEW s \in Lifecycle!OrderState,
         NEW o \in Order, RecordState(r, s, o)
  PROVE  order' \in [Requests -> Order] /\ mem' \in [Requests -> Order]
<1>1. TransitionTo(o, s) \in Order
  BY OrderTypes
<1> QED BY <1>1 DEF TypeOK, RecordState

LEMMA ServeTypes ==
  ASSUME TypeOK, NEW r \in Requests, Serve(r)
  PROVE  served' \in [Requests -> 0..2]
<1>1. served[r] \in 0..2
  BY DEF TypeOK
<1>2. (IF served[r] < 2 THEN served[r] + 1 ELSE served[r]) \in 0..2
  BY <1>1
<1> QED BY <1>2 DEF TypeOK, Serve

LEMMA NextTypeOK == TypeOK /\ [Next]_vars => TypeOK'
<1> SUFFICES ASSUME TypeOK, [Next]_vars PROVE TypeOK'
  OBVIOUS
<1> USE DEF middlewareVars, workerVars, historyVars
<1>1. ASSUME NEW r \in Requests,
             \/ Challenged(r) \/ PassThrough(r) \/ AcquireLock(r)
             \/ BudgetDenied(r) \/ BudgetApproved(r) \/ Deduct(r)
             \/ PayOk(r) \/ PayFailed(r) \/ Rollback(r) \/ RetryRejected(r)
      PROVE  TypeOK'
  BY <1>1 DEF TypeOK, PC, Goto, Challenged, PassThrough, AcquireLock,
     BudgetDenied, BudgetApproved, Deduct, PayOk, PayFailed, Rollback,
     RetryRejected
<1>2. ASSUME NEW r \in Requests, CreateOrder(r) PROVE TypeOK'
  BY <1>2, OrderTypes DEF TypeOK, PC, Goto, CreateOrder
<1>3. ASSUME NEW r \in Requests,
             \/ RecordDeducted(r) \/ RecordRefunded(r) \/ RecordBroadcast(r)
             \/ RecordDelivering(r) \/ RecordSuccess(r)
      PROVE  TypeOK'
  <2>1. mem[r] \in Order /\ [mem[r] EXCEPT !.tx = TRUE] \in Order
    BY OrderTypes DEF TypeOK
  <2>2. order' \in [Requests -> Order] /\ mem' \in [Requests -> Order]
    BY <1>3, <2>1, StateNames, RecordStateTypes
       DEF RecordDeducted, RecordRefunded, RecordBroadcast, RecordDelivering,
           RecordSuccess
  <2> QED
    BY <1>3, <2>2 DEF TypeOK, PC, Goto, RecordDeducted, RecordRefunded,
       RecordBroadcast, RecordDelivering, RecordSuccess
<1>4. ASSUME NEW r \in Requests, RetryServed(r) \/ RetryRaised(r)
      PROVE  TypeOK'
  <2>1. served' \in [Requests -> 0..2]
    BY <1>4, ServeTypes DEF TypeOK, RetryServed, RetryRaised
  <2>2. lost' \in [Requests -> BOOLEAN]
    BY <1>4 DEF TypeOK, RetryServed, RetryRaised
  <2>3. mem' \in [Requests -> Order]
    BY <1>4, OrderTypes DEF TypeOK, RetryServed, RetryRaised
  <2>4. pc' \in [Requests -> PC]
    BY <1>4 DEF TypeOK, PC, Goto, RetryServed, RetryRaised
  <2> QED
    BY <1>4, <2>1, <2>2, <2>3, <2>4 DEF TypeOK, RetryServed, RetryRaised
<1>5. ASSUME NEW r \in Requests, RecordFailure(r) PROVE TypeOK'
  <2>1. [mem[r] EXCEPT !.retries = @ + 1] \in Order
    BY OrderTypes DEF TypeOK
  <2> QED BY <1>5, <2>1, OrderTypes DEF TypeOK, PC, Goto, RecordFailure
<1>6. ASSUME NEW r \in Requests, Abort(r) PROVE TypeOK'
  BY <1>6, OrderTypes DEF TypeOK, PC, Abort
<1>7. ASSUME NEW r \in Requests, Broadcast(r) \/ Settle(r) PROVE TypeOK'
  BY <1>7 DEF TypeOK, Broadcast, Settle
<1>8. CASE Poll
  BY <1>8, OrderTypes DEF TypeOK, Poll
<1>9. ASSUME NEW r \in Requests,
             \/ Exhausted(r) \/ NotDue(r) \/ Resend(r) \/ RecordResend(r)
      PROVE  TypeOK'
  <2>1. /\ TransitionTo(batch[r], "FAILED") \in Order
        /\ TransitionTo(batch[r], "SUCCESS") \in Order
        /\ TransitionTo([batch[r] EXCEPT !.retries = @ + 1], "DELIVERING") \in Order
    BY OrderTypes, StateNames DEF TypeOK
  <2> QED
    BY <1>9, <2>1, OrderTypes
       DEF TypeOK, Exhausted, NotDue, Resend, RecordResend, Drop, NextInBatch
<1>10. ASSUME NEW r \in Requests, Answered(r) PROVE TypeOK'
  <2>1. served' \in [Requests -> 0..2]
    BY <1>10, ServeTypes DEF TypeOK, Answered
  <2> QED BY <1>10, <2>1 DEF TypeOK, Answered
<1>11. CASE WorkerFault
  BY <1>11, OrderTypes DEF TypeOK, WorkerFault
<1>12. CASE Tick
  BY <1>12, OrderTypes DEF TypeOK, Tick
<1>13. CASE Crash
  BY <1>13, OrderTypes DEF TypeOK, PC, Crash, Unrecorded
<1>14. CASE UNCHANGED vars
  BY <1>14 DEF TypeOK, vars
<1> QED
  BY <1>1, <1>2, <1>3, <1>4, <1>5, <1>6, <1>7, <1>8, <1>9, <1>10, <1>11,
     <1>12, <1>13, <1>14
     DEF Next, HandleRequest, WorkerStep, AllHandled

\* Every variable keeps its type, for any set of requests and any bounds.
THEOREM TypeCorrect == Spec => []TypeOK
<1> QED BY InitTypeOK, NextTypeOK, PTL DEF Spec

-----------------------------------------------------------------------------
(* The ledger, the chain and the orders *)

LEMMA InitIInv == Init => IInv
<1> SUFFICES ASSUME Init PROVE IInv
  OBVIOUS
<1> QED
  BY StoreAssumption, StateNames, NoOneAssumption
     DEF Init, IInv, StoredInv, ProgressInv, OrderInv, BatchInv,
         NothingStored, LedgerFor, PaidStates, DeliveryStates

\* A step that leaves what concerns a request alone keeps its invariant.
LEMMA Frame ==
  ASSUME NEW r \in Requests, StoredInv(r),
         pc'[r] = pc[r], deduction'[r] = deduction[r],
         chain'[r] = chain[r] \/ chain'[r] # "none",
         order'[r] = order[r], mem'[r] = mem[r],
         batch'[r] = batch[r], sending' = r => sending = r
  PROVE  StoredInv(r)'
  BY DEF StoredInv, ProgressInv, OrderInv, BatchInv, BothIn

\* A coroutine that raises, is cancelled or crashes needs nothing of its copy.
LEMMA FrameEnded ==
  ASSUME NEW r \in Requests, StoredInv(r),
         pc'[r] = "dead", deduction'[r] = deduction[r],
         chain'[r] = chain[r], order'[r] = order[r],
         batch'[r] \in {batch[r], NoOrder},
         sending' = r => sending = r /\ batch'[r] = batch[r]
  PROVE  StoredInv(r)'
  BY DEF StoredInv, ProgressInv, OrderInv, BatchInv

\* The worker writes only over orders that were being delivered, from copies
\* that have a tx_hash.
LEMMA WorkerWrites ==
  ASSUME TypeOK, NEW r \in Requests, StoredInv(r), batch[r] # NoOrder,
         order'[r].state \in DeliveryStates, order'[r].tx,
         batch'[r] = NoOrder, sending' # r,
         UNCHANGED <<pc, deduction, chain, mem>>
  PROVE  StoredInv(r)'
<1>1. order[r].state \in DeliveryStates /\ chain[r] # "none"
  BY DEF StoredInv, BatchInv, OrderInv, PaidStates
<1>2. deduction[r] = "confirmed"
  BY <1>1 DEF StoredInv, OrderInv, LedgerFor, DeliveryStates
<1>3. deduction'[r] \in LedgerFor(order'[r].state)
  BY <1>2 DEF LedgerFor, DeliveryStates
<1>4. order'[r].state \notin {"CREATED", "LOCAL_DEDUCTED", "CHAIN_BROADCASTED",
                              "ABSENT"}
  BY DEF DeliveryStates
<1>5. ProgressInv(r)'
  BY <1>1, StateNames DEF StoredInv, ProgressInv, BothIn, DeliveryStates
<1> QED BY <1>1, <1>3, <1>5 DEF StoredInv, OrderInv, BatchInv, PaidStates

\* The coroutine's own steps.
LEMMA MiddlewareStep ==
  ASSUME TypeOK, IInv, NEW r \in Requests, r \in Storing,
         Challenged(r) \/ PassThrough(r) \/ HandleRequest(r) \/ Abort(r)
  PROVE  StoredInv(r)'
<1> USE DEF IInv, middlewareVars, workerVars, historyVars
<1>1. StoredInv(r) /\ pc[r] \in PC /\ mem[r] \in Order
  BY DEF TypeOK
<1>a. USE DEF TypeOK, Goto, StoredInv, ProgressInv, OrderInv, BatchInv, BothIn
<1>2. CASE \/ Challenged(r) \/ AcquireLock(r) \/ BudgetApproved(r)
           \/ PayOk(r) \/ PayFailed(r) \/ RetryServed(r) \/ RetryRejected(r)
  BY <1>1, <1>2 DEF Challenged, AcquireLock, BudgetApproved, PayOk, PayFailed,
     RetryServed, RetryRejected
<1>3. CASE PassThrough(r) \/ BudgetDenied(r)
  BY <1>1, <1>3 DEF PassThrough, BudgetDenied
<1>13. CASE RetryRaised(r) \/ Abort(r)
  <2>1. pc'[r] = "dead"
    BY <1>13 DEF RetryRaised, Abort
  <2> QED BY <1>1, <1>13, <2>1, FrameEnded DEF RetryRaised, Abort
<1>4. CASE CreateOrder(r)
  BY <1>1, <1>4, StateNames DEF CreateOrder, LedgerFor, PaidStates, DeliveryStates
<1>5. CASE Deduct(r)
  BY <1>1, <1>5 DEF Deduct, LedgerFor
<1>6. CASE Rollback(r)
  BY <1>1, <1>6 DEF Rollback, LedgerFor
<1>7. CASE RecordDeducted(r)
  BY <1>1, <1>7, OrderEdits, StateNames
     DEF RecordDeducted, RecordState, LedgerFor, PaidStates, DeliveryStates
<1>8. CASE RecordRefunded(r)
  BY <1>1, <1>8, OrderEdits, StateNames
     DEF RecordRefunded, RecordState, LedgerFor, PaidStates, DeliveryStates
<1>9. CASE RecordBroadcast(r)
  <2> DEFINE o == TransitionTo([mem[r] EXCEPT !.tx = TRUE], "CHAIN_BROADCASTED")
  <2>1. o.state = "CHAIN_BROADCASTED" /\ o.tx
    <3>1. [mem[r] EXCEPT !.tx = TRUE] \in Order
      BY <1>1, OrderTypes
    <3>2. [mem[r] EXCEPT !.tx = TRUE].tx
      BY <1>1, OrderEdits
    <3>3. ASSUME NEW p \in Order, p.tx
          PROVE  /\ TransitionTo(p, "CHAIN_BROADCASTED").state = "CHAIN_BROADCASTED"
                 /\ TransitionTo(p, "CHAIN_BROADCASTED").tx
      BY <3>3, OrderEdits, StateNames
    <3> QED BY <3>1, <3>2, <3>3
  <2>2. order'[r] = o /\ mem'[r] = o
    BY <1>9 DEF RecordBroadcast, RecordState
  <2>3. chain'[r] # "none" /\ deduction'[r] = "confirmed"
    BY <1>1, <1>9 DEF RecordBroadcast
  <2>4. pc'[r] = "recordDelivering" /\ batch'[r] = NoOrder /\ sending' # r
    BY <1>1, <1>9 DEF RecordBroadcast, DeliveryStates
  <2> HIDE DEF o
  <2> QED BY <2>1, <2>2, <2>3, <2>4 DEF LedgerFor, PaidStates, DeliveryStates
<1>10. CASE RecordDelivering(r)
  BY <1>1, <1>10, OrderEdits, StateNames
     DEF RecordDelivering, RecordState, LedgerFor, PaidStates, DeliveryStates
<1>11. CASE RecordSuccess(r)
  BY <1>1, <1>11, OrderEdits, StateNames
     DEF RecordSuccess, RecordState, LedgerFor, PaidStates, DeliveryStates
<1>12. CASE RecordFailure(r)
  <2> DEFINE o == [mem[r] EXCEPT !.retries = @ + 1]
  <2>1. o.state = "DELIVERING" /\ o.tx
    BY <1>1, <1>12, OrderEdits DEF RecordFailure
  <2>2. order'[r] = o
    BY <1>12 DEF RecordFailure
  <2>3. chain[r] # "none" /\ deduction[r] = "confirmed"
    BY <1>1, <1>12 DEF RecordFailure, PaidStates, DeliveryStates, LedgerFor
  <2>4. /\ pc'[r] = "done" /\ chain'[r] = chain[r]
        /\ deduction'[r] = deduction[r] /\ batch'[r] = batch[r]
        /\ sending' = sending
    BY <1>12 DEF RecordFailure
  <2> HIDE DEF o
  <2> QED
    BY <1>1, <2>1, <2>2, <2>3, <2>4 DEF LedgerFor, PaidStates, DeliveryStates
<1> QED
  BY <1>2, <1>3, <1>4, <1>5, <1>6, <1>7, <1>8, <1>9, <1>10, <1>11, <1>12, <1>13
     DEF HandleRequest

\* They touch nothing of any other request.
LEMMA MiddlewareFrame ==
  ASSUME TypeOK, NEW r \in Requests, NEW q \in Requests, q # r,
         Challenged(r) \/ PassThrough(r) \/ HandleRequest(r) \/ Abort(r)
  PROVE  /\ pc'[q] = pc[q] /\ deduction'[q] = deduction[q]
         /\ order'[q] = order[q] /\ mem'[q] = mem[q]
         /\ chain' = chain /\ batch' = batch /\ sending' = sending
  BY DEF TypeOK, Goto, RecordState, middlewareVars, workerVars, historyVars,
     HandleRequest, Challenged, PassThrough, Abort, AcquireLock, BudgetDenied,
     BudgetApproved, CreateOrder, Deduct, RecordDeducted, PayOk, PayFailed,
     Rollback, RecordRefunded, RecordBroadcast, RecordDelivering, RetryServed,
     RetryRejected, RetryRaised, RecordSuccess, RecordFailure

\* The worker's steps on one order of its batch.
LEMMA WorkerStepsOne ==
  ASSUME TypeOK, NEW r \in Requests, StoredInv(r),
         \/ Exhausted(r) \/ NotDue(r) \/ Resend(r) \/ Answered(r)
         \/ RecordResend(r)
  PROVE  StoredInv(r)'
<1> USE NoOneAssumption DEF middlewareVars, historyVars, DeliveryStates
<1>1. batch[r] \in Order
  BY DEF TypeOK
<1>2. CASE Exhausted(r) \/ RecordResend(r)
  <2>1. batch[r] # NoOrder
    BY <1>2 DEF Exhausted, RecordResend, NextInBatch, InBatch, StoredInv, BatchInv
  <2>2. batch[r].state = "DELIVERING" /\ batch[r].tx
    BY <2>1 DEF StoredInv, BatchInv
  <2>3. /\ TransitionTo(batch[r], "FAILED").state = "FAILED"
        /\ TransitionTo(batch[r], "FAILED").tx
        /\ TransitionTo(batch[r], "SUCCESS").state = "SUCCESS"
        /\ TransitionTo(batch[r], "SUCCESS").tx
    BY <1>1, <2>2, OrderEdits, StateNames
  <2>4. LET o == [batch[r] EXCEPT !.retries = @ + 1] IN
        /\ TransitionTo(o, "DELIVERING").state = "DELIVERING"
        /\ TransitionTo(o, "DELIVERING").tx
    <3> DEFINE o == [batch[r] EXCEPT !.retries = @ + 1]
    <3>1. o \in Order /\ o.tx
      BY <1>1, <2>2, OrderEdits, OrderTypes
    <3> HIDE DEF o
    <3>2. TransitionTo(o, "DELIVERING").state = "DELIVERING"
          /\ TransitionTo(o, "DELIVERING").tx
      BY <3>1, OrderEdits, StateNames
    <3> QED BY <3>2 DEF o
  <2>5. order'[r].state \in DeliveryStates /\ order'[r].tx
    BY <1>2, <2>3, <2>4 DEF Exhausted, RecordResend, TypeOK
  <2>6. batch'[r] = NoOrder /\ sending' # r
    BY <1>2 DEF Exhausted, RecordResend, NextInBatch, Drop, TypeOK
  <2>7. UNCHANGED <<pc, deduction, chain, mem>>
    BY <1>2 DEF Exhausted, RecordResend
  <2> QED BY <2>1, <2>5, <2>6, <2>7, WorkerWrites
<1>3. CASE NotDue(r)
  BY <1>3 DEF NotDue, NextInBatch, Drop, TypeOK, StoredInv, ProgressInv,
     OrderInv, BatchInv, BothIn
<1>4. CASE Resend(r)
  BY <1>4 DEF Resend, NextInBatch, InBatch, TypeOK, StoredInv, ProgressInv,
     OrderInv, BatchInv, BothIn
<1>5. CASE Answered(r)
  BY <1>5, Frame DEF Answered
<1> QED BY <1>2, <1>3, <1>4, <1>5

LEMMA WorkerFrame ==
  ASSUME TypeOK, NEW r \in Requests, NEW q \in Requests, q # r,
         \/ Exhausted(r) \/ NotDue(r) \/ Resend(r) \/ Answered(r)
         \/ RecordResend(r)
  PROVE  /\ pc'[q] = pc[q] /\ deduction'[q] = deduction[q]
         /\ order'[q] = order[q] /\ mem'[q] = mem[q] /\ chain' = chain
         /\ batch'[q] = batch[q] /\ (sending' = q => sending = q)
  BY NoOneAssumption
     DEF TypeOK, middlewareVars, historyVars, Drop, NextInBatch,
         Exhausted, NotDue, Resend, Answered, RecordResend

\* The steps that concern every request at once.
LEMMA GlobalSteps ==
  ASSUME TypeOK, IInv, NEW q \in Requests, q \in Storing,
         \/ Poll \/ WorkerFault \/ Tick \/ Crash \/ UNCHANGED vars
         \/ \E r \in Requests : Broadcast(r) \/ Settle(r)
  PROVE  StoredInv(q)'
<1> USE NoOneAssumption DEF middlewareVars, workerVars, historyVars
<1>1. /\ StoredInv(q) /\ pc[q] \in PC
      /\ order[q] \in Order /\ mem[q] \in Order /\ batch[q] \in Order
  BY DEF TypeOK, IInv
<1>2. CASE Poll
  <2>1. batch[q] = NoOrder /\ sending' # q
    BY <1>1, <1>2 DEF Poll, InBatch, StoredInv, BatchInv
  <2>2. Stale(order[q]) => order[q].state = "DELIVERING" /\ order[q].tx
    BY <1>1 DEF Stale, StoredInv, OrderInv, PaidStates, DeliveryStates
  <2> QED
    BY <1>1, <1>2, <2>1, <2>2 DEF Poll, StoredInv, ProgressInv, OrderInv,
       BatchInv, BothIn, DeliveryStates
<1>3. CASE WorkerFault
  BY <1>1, <1>3 DEF WorkerFault, StoredInv, ProgressInv, OrderInv, BatchInv, BothIn
<1>4. CASE Tick
  <2>1. /\ order'[q].state = order[q].state /\ order'[q].tx = order[q].tx
        /\ mem'[q].state = mem[q].state /\ mem'[q].tx = mem[q].tx
        /\ batch'[q].state = batch[q].state /\ batch'[q].tx = batch[q].tx
    BY <1>1, <1>4, OrderEdits DEF Tick
  <2>2. batch[q] = NoOrder <=> batch'[q] = NoOrder
    BY <1>1, <1>4, <2>1, StateNames DEF Tick, Older, StoredInv, BatchInv
  <2> QED
    BY <1>1, <1>4, <2>1, <2>2 DEF Tick, StoredInv, ProgressInv, OrderInv,
       BatchInv, BothIn
<1>5. CASE Crash
  <2>1. CASE pc[q] \in {"idle", "done", "dead"}
    BY <1>1, <1>5, <2>1 DEF Crash, TypeOK, Finished, StoredInv, ProgressInv,
       OrderInv, BatchInv, BothIn
  <2>2. CASE pc[q] \notin {"idle", "done", "dead"}
    BY <1>1, <1>5, <2>2, FrameEnded DEF Crash, Finished
  <2> QED BY <2>1, <2>2
<1>6. CASE UNCHANGED vars
  BY <1>1, <1>6, Frame DEF vars
<1>7. ASSUME NEW r \in Requests, Broadcast(r) \/ Settle(r)
      PROVE  StoredInv(q)'
  BY <1>1, <1>7, Frame DEF TypeOK, Broadcast, Settle
<1> QED BY <1>2, <1>3, <1>4, <1>5, <1>6, <1>7

\* The confirmed send stays sent.
LEMMA SentStep ==
  ASSUME TypeOK, IInv, [Next]_vars, NEW q \in Requests, pc'[q] = "recordTx"
  PROVE  chain'[q] # "none"
<1>1. pc[q] = "recordTx" => chain[q] # "none"
  BY DEF IInv
<1> USE <1>1 DEF TypeOK, Goto, middlewareVars, workerVars, historyVars
<1>2. CASE chain' = chain
  <2>1. ASSUME NEW r \in Requests,
               Challenged(r) \/ PassThrough(r) \/ HandleRequest(r) \/ Abort(r)
        PROVE  pc'[q] = "recordTx" => chain[q] # "none"
    BY <2>1 DEF HandleRequest, Challenged, PassThrough, Abort, AcquireLock,
       BudgetDenied, BudgetApproved, CreateOrder, Deduct, RecordDeducted, PayOk,
       PayFailed, Rollback, RecordRefunded, RecordBroadcast, RecordDelivering,
       RetryServed, RetryRejected, RetryRaised, RecordSuccess, RecordFailure
  <2>2. ASSUME \/ pc' = pc \/ Crash
        PROVE  pc'[q] = "recordTx" => chain[q] # "none"
    BY <2>2 DEF Crash
  <2>3. ASSUME NEW r \in Requests, Broadcast(r) \/ Settle(r) PROVE pc' = pc
    BY <2>3 DEF Broadcast, Settle
  <2>4. ASSUME WorkerStep \/ WorkerFault \/ Tick \/ UNCHANGED vars
        PROVE  pc' = pc
    BY <2>4 DEF WorkerStep, WorkerFault, Tick, vars, Poll, Exhausted, NotDue,
       Resend, Answered, RecordResend
  <2> QED BY <1>2, <2>1, <2>2, <2>3, <2>4 DEF Next, AllHandled
<1>3. CASE chain' # chain
  <2>1. PICK r \in Requests : Broadcast(r) \/ Settle(r)
    <3>1. ASSUME NEW r \in Requests,
                 Challenged(r) \/ PassThrough(r) \/ HandleRequest(r) \/ Abort(r)
          PROVE  chain' = chain
      BY <3>1 DEF HandleRequest, Challenged, PassThrough, Abort, AcquireLock,
         BudgetDenied, BudgetApproved, CreateOrder, Deduct, RecordDeducted,
         PayOk, PayFailed, Rollback, RecordRefunded, RecordBroadcast,
         RecordDelivering, RetryServed, RetryRejected, RetryRaised,
         RecordSuccess, RecordFailure
    <3>2. ASSUME WorkerStep \/ WorkerFault \/ Tick \/ Crash \/ UNCHANGED vars
          PROVE  chain' = chain
      BY <3>2 DEF WorkerStep, WorkerFault, Tick, Crash, vars, Poll, Exhausted,
         NotDue, Resend, Answered, RecordResend
    <3> QED BY <1>3, <3>1, <3>2 DEF Next, AllHandled
  <2> QED BY <2>1 DEF Broadcast, Settle
<1> QED BY <1>2, <1>3

\* Without a store no step saves the order or puts it into the worker's batch.
LEMMA NothingStoredStep ==
  ASSUME TypeOK, IInv, [Next]_vars, NEW q \in Requests, q \notin Storing
  PROVE  NothingStored(q)'
<1>1. NothingStored(q)
  BY DEF IInv
<1> USE DEF NothingStored, middlewareVars, workerVars, historyVars
<1>2. ASSUME NEW r \in Requests,
             Challenged(r) \/ PassThrough(r) \/ HandleRequest(r) \/ Abort(r)
      PROVE  order'[q] = order[q] /\ batch' = batch /\ sending' = sending
  BY <1>2 DEF HandleRequest, Challenged, PassThrough, Abort, AcquireLock,
     BudgetDenied, BudgetApproved, CreateOrder, Deduct, RecordDeducted, PayOk,
     PayFailed, Rollback, RecordRefunded, RecordBroadcast, RecordDelivering,
     RetryServed, RetryRejected, RetryRaised, RecordSuccess, RecordFailure,
     RecordState, TypeOK
<1>3. ASSUME NEW r \in Requests, Broadcast(r) \/ Settle(r)
      PROVE  order' = order /\ batch' = batch /\ sending' = sending
  BY <1>3 DEF Broadcast, Settle
<1>4. CASE Tick
  BY <1>1, <1>4, StateNames DEF Tick, Older, NoOrder
<1>5. CASE WorkerFault \/ Crash
  BY <1>1, <1>5, NoOneAssumption DEF WorkerFault, Crash
<1>6. CASE Poll
  BY <1>1, <1>6, StateNames DEF Poll, Stale
<1>7. ASSUME NEW r \in Requests,
             \/ Exhausted(r) \/ NotDue(r) \/ Resend(r) \/ Answered(r)
             \/ RecordResend(r)
      PROVE  NothingStored(q)'
  <2>1. r # q
    BY <1>1, <1>7
       DEF Exhausted, NotDue, Resend, NextInBatch, InBatch, Answered, RecordResend
  <2> QED
    BY <1>1, <1>7, <2>1, WorkerFrame
<1>8. CASE UNCHANGED vars
  BY <1>1, <1>8 DEF vars
<1> QED
  BY <1>1, <1>2, <1>3, <1>4, <1>5, <1>6, <1>7, <1>8
     DEF Next, WorkerStep, AllHandled

LEMMA NextIInv == TypeOK /\ IInv /\ [Next]_vars => IInv'
<1> SUFFICES ASSUME TypeOK, IInv, [Next]_vars PROVE IInv'
  OBVIOUS
<1>1. ASSUME NEW q \in Requests, q \in Storing PROVE StoredInv(q)'
  <2>1. StoredInv(q)
    BY <1>1 DEF IInv
  <2>2. ASSUME NEW r \in Requests,
               Challenged(r) \/ PassThrough(r) \/ HandleRequest(r) \/ Abort(r)
        PROVE  StoredInv(q)'
    <3>1. CASE q = r
      BY <1>1, <2>2, <3>1, MiddlewareStep
    <3>2. CASE q # r
      BY <2>1, <2>2, <3>2, MiddlewareFrame, Frame
    <3> QED BY <3>1, <3>2
  <2>3. ASSUME NEW r \in Requests,
               \/ Exhausted(r) \/ NotDue(r) \/ Resend(r) \/ Answered(r)
               \/ RecordResend(r)
        PROVE  StoredInv(q)'
    <3>1. CASE q = r
      BY <2>1, <2>3, <3>1, WorkerStepsOne
    <3>2. CASE q # r
      BY <2>1, <2>3, <3>2, WorkerFrame, Frame
    <3> QED BY <3>1, <3>2
  <2>4. CASE \/ Poll \/ WorkerFault \/ Tick \/ Crash \/ UNCHANGED vars
             \/ \E r \in Requests : Broadcast(r) \/ Settle(r)
    BY <1>1, <2>4, GlobalSteps
  <2> QED BY <2>2, <2>3, <2>4 DEF Next, WorkerStep, AllHandled
<1>2. ASSUME NEW q \in Requests, q \notin Storing PROVE NothingStored(q)'
  BY <1>2, NothingStoredStep
<1> QED BY <1>1, <1>2, SentStep, StoreAssumption DEF IInv

\* The invariant holds in every reachable state.
THEOREM InvariantCorrect == Spec => [](TypeOK /\ IInv)
<1>1. Init => TypeOK /\ IInv
  BY InitTypeOK, InitIInv
<1>2. (TypeOK /\ IInv) /\ [Next]_vars => (TypeOK /\ IInv)'
  BY NextTypeOK, NextIInv
<1> QED BY <1>1, <1>2, PTL DEF Spec

\* Whatever the crashes, the interleavings and the worker's overwriting, the
\* ledger is never behind what a persisted order claims about it: the order
\* in which handle_request writes the two databases is right.
THEOREM LedgerLeads == Spec => []LedgerLeadsOrder
<1>1. IInv => LedgerLeadsOrder
  BY DEF IInv, StoredInv, OrderInv, LedgerLeadsOrder
<1> QED BY <1>1, InvariantCorrect, PTL

\* An order that may be re-sent, or that ended, carries the tx_hash of a
\* transaction that was sent.
THEOREM ProofsAreReal == Spec => []ProofIsReal
<1>1. IInv => ProofIsReal
  BY StoreAssumption, StateNames
     DEF IInv, StoredInv, OrderInv, NothingStored, ProofIsReal, PaidStates,
         DeliveryStates
<1> QED BY <1>1, InvariantCorrect, PTL

\* Whenever handle_request returns, the ledger and the order agree on who has
\* the money, although they were written one after the other and the worker
\* goes on writing the order.
THEOREM ReturnsAreConsistent == Spec => []ReturnsConsistent
<1>1. IInv => ReturnsConsistent
  BY StateNames DEF IInv, StoredInv, ProgressInv, ReturnsConsistent, DeliveryStates
<1> QED BY <1>1, InvariantCorrect, PTL

-----------------------------------------------------------------------------
(* What was served                                                         *)

\* Whoever holds, or has written, a good answer for a request got it from the
\* seller.
ServedInv(r) ==
  /\ pc[r] = "recordSuccess" => served[r] > 0
  /\ sending = r /\ outcome = "ok" => served[r] > 0
  /\ order[r].state = "SUCCESS" => served[r] > 0

\* Serving counts up, and stops at two.
LEMMA ServeCounts ==
  ASSUME TypeOK, NEW r \in Requests, Serve(r)
  PROVE  /\ served'[r] > 0
         /\ served[r] = 0 => served'[r] = 1
         /\ \A q \in Requests : q # r => served'[q] = served[q]
<1>1. served[r] \in {0, 1, 2} /\ served \in [Requests -> 0..2]
  BY DEF TypeOK
<1>2. served'[r] = (IF served[r] < 2 THEN served[r] + 1 ELSE served[r])
  BY <1>1 DEF Serve
<1> QED BY <1>1, <1>2 DEF Serve

\* A step of one request leaves the history of the others alone.
LEMMA HistoryFrame ==
  ASSUME TypeOK, NEW r \in Requests, NEW q \in Requests, q # r,
         \/ Challenged(r) \/ PassThrough(r) \/ HandleRequest(r) \/ Abort(r)
         \/ Exhausted(r) \/ NotDue(r) \/ Resend(r) \/ Answered(r)
         \/ RecordResend(r)
  PROVE  /\ served'[q] = served[q] /\ lost'[q] = lost[q]
         /\ (sending' = q /\ outcome' = "ok")
              <=> (sending = q /\ outcome = "ok")
<1> USE NoOneAssumption DEF TypeOK, middlewareVars, workerVars, historyVars
<1>1. CASE Challenged(r) \/ PassThrough(r) \/ HandleRequest(r) \/ Abort(r)
  BY <1>1, ServeCounts
     DEF HandleRequest, Challenged, PassThrough, Abort, AcquireLock,
     BudgetDenied, BudgetApproved, CreateOrder, Deduct, RecordDeducted, PayOk,
     PayFailed, Rollback, RecordRefunded, RecordBroadcast, RecordDelivering,
     RetryServed, RetryRejected, RetryRaised, RecordSuccess, RecordFailure
<1>2. CASE \/ Exhausted(r) \/ NotDue(r) \/ Resend(r) \/ Answered(r)
           \/ RecordResend(r)
  BY <1>2, ServeCounts
     DEF NextInBatch, Exhausted, NotDue, Resend, Answered, RecordResend
<1> QED BY <1>1, <1>2

LEMMA ServedByMiddleware ==
  ASSUME TypeOK, IInv, NEW r \in Requests, ServedInv(r),
         Challenged(r) \/ PassThrough(r) \/ HandleRequest(r) \/ Abort(r)
  PROVE  ServedInv(r)'
<1>1. served[r] \in {0, 1, 2} /\ mem[r] \in Order /\ order[r] \in Order
  BY DEF TypeOK
<1> USE DEF TypeOK, Goto, ServedInv, middlewareVars, workerVars, historyVars
<1>2. CASE \/ Challenged(r) \/ PassThrough(r) \/ AcquireLock(r)
           \/ BudgetDenied(r) \/ BudgetApproved(r) \/ Deduct(r)
           \/ PayOk(r) \/ PayFailed(r) \/ Rollback(r) \/ RetryRejected(r)
           \/ Abort(r)
  BY <1>1, <1>2 DEF Challenged, PassThrough, AcquireLock, BudgetDenied,
     BudgetApproved, Deduct, PayOk, PayFailed, Rollback, RetryRejected, Abort
<1>3. CASE RetryServed(r) \/ RetryRaised(r)
  BY <1>1, <1>3, ServeCounts DEF RetryServed, RetryRaised
<1>4. CASE CreateOrder(r)
  BY <1>1, <1>4, StateNames DEF CreateOrder
<1>5. CASE \/ RecordDeducted(r) \/ RecordRefunded(r) \/ RecordBroadcast(r)
           \/ RecordDelivering(r)
  <2>1. [mem[r] EXCEPT !.tx = TRUE] \in Order
    BY <1>1, OrderTypes
  <2>2. order'[r] = order[r] \/ order'[r].state # "SUCCESS"
    BY <1>1, <1>5, <2>1, OrderEdits, StateNames
       DEF RecordState, RecordDeducted, RecordRefunded, RecordBroadcast,
           RecordDelivering
  <2>3. /\ pc'[r] # "recordSuccess"
        /\ served' = served /\ sending' = sending /\ outcome' = outcome
    BY <1>5 DEF RecordDeducted, RecordRefunded, RecordBroadcast,
       RecordDelivering
  <2> QED BY <1>1, <2>2, <2>3
<1>6. CASE RecordSuccess(r)
  BY <1>1, <1>6 DEF RecordSuccess
<1>7. CASE RecordFailure(r)
  <2>1. r \in Storing => mem[r].state = "DELIVERING"
    BY <1>7 DEF RecordFailure, IInv, StoredInv, ProgressInv
  <2>2. r \in Storing => order'[r] = [mem[r] EXCEPT !.retries = @ + 1]
    BY <1>7 DEF RecordFailure
  <2>3. [mem[r] EXCEPT !.retries = @ + 1].state = mem[r].state
    BY <1>1, OrderEdits
  <2>4. r \in Storing => order'[r].state = "DELIVERING"
    BY <2>1, <2>2, <2>3
  <2> QED BY <1>1, <1>7, <2>4 DEF RecordFailure
<1> QED
  BY <1>2, <1>3, <1>4, <1>5, <1>6, <1>7 DEF HandleRequest

LEMMA ServedByWorker ==
  ASSUME TypeOK, NEW r \in Requests, ServedInv(r),
         \/ Exhausted(r) \/ NotDue(r) \/ Resend(r) \/ Answered(r)
         \/ RecordResend(r)
  PROVE  ServedInv(r)'
<1>1. served[r] \in {0, 1, 2} /\ batch[r] \in Order /\ order[r] \in Order
  BY DEF TypeOK
<1> USE NoOneAssumption DEF TypeOK, ServedInv, middlewareVars, historyVars
<1>2. CASE NotDue(r) \/ Resend(r)
  BY <1>1, <1>2 DEF NotDue, Resend, NextInBatch
<1>3. CASE Answered(r)
  BY <1>1, <1>3, ServeCounts DEF Answered
<1>4. CASE Exhausted(r)
  <2>1. order'[r].state = "FAILED"
    BY <1>1, <1>4, OrderEdits, StateNames DEF Exhausted
  <2> QED BY <1>1, <1>4, <2>1 DEF Exhausted, NextInBatch
<1>5. CASE RecordResend(r)
  <2>1. [batch[r] EXCEPT !.retries = @ + 1] \in Order
    BY <1>1, OrderTypes
  <2>2. outcome = "failed" => order'[r].state = "DELIVERING"
    BY <1>1, <1>5, <2>1, OrderEdits, StateNames DEF RecordResend
  <2> QED BY <1>1, <1>5, <2>2 DEF RecordResend
<1> QED BY <1>2, <1>3, <1>4, <1>5

LEMMA ServedGlobally ==
  ASSUME TypeOK, NEW q \in Requests, ServedInv(q),
         \/ Poll \/ WorkerFault \/ Tick \/ Crash \/ UNCHANGED vars
         \/ \E r \in Requests : Broadcast(r) \/ Settle(r)
  PROVE  ServedInv(q)'
<1> USE DEF ServedInv, middlewareVars, workerVars, historyVars
<1>1. served[q] \in {0, 1, 2} /\ order[q] \in Order
  BY DEF TypeOK
<1>2. CASE Poll \/ WorkerFault \/ UNCHANGED vars
  BY <1>1, <1>2 DEF Poll, WorkerFault, vars
<1>3. CASE Tick
  BY <1>1, <1>3, OrderEdits DEF Tick
<1>4. CASE Crash
  BY <1>1, <1>4 DEF Crash, TypeOK, Finished
<1>5. CASE \E r \in Requests : Broadcast(r) \/ Settle(r)
  BY <1>1, <1>5 DEF Broadcast, Settle
<1> QED BY <1>2, <1>3, <1>4, <1>5

LEMMA NextServed ==
  ASSUME TypeOK, IInv, [Next]_vars, NEW q \in Requests, ServedInv(q)
  PROVE  ServedInv(q)'
<1>1. ASSUME NEW r \in Requests,
             Challenged(r) \/ PassThrough(r) \/ HandleRequest(r) \/ Abort(r)
      PROVE  ServedInv(q)'
  <2>1. CASE q = r
    BY <1>1, <2>1, ServedByMiddleware
  <2>2. CASE q # r
    BY <1>1, <2>2, MiddlewareFrame, HistoryFrame DEF ServedInv
  <2> QED BY <2>1, <2>2
<1>2. ASSUME NEW r \in Requests,
             \/ Exhausted(r) \/ NotDue(r) \/ Resend(r) \/ Answered(r)
             \/ RecordResend(r)
      PROVE  ServedInv(q)'
  <2>1. CASE q = r
    BY <1>2, <2>1, ServedByWorker
  <2>2. CASE q # r
    BY <1>2, <2>2, WorkerFrame, HistoryFrame DEF ServedInv
  <2> QED BY <2>1, <2>2
<1>3. CASE \/ Poll \/ WorkerFault \/ Tick \/ Crash \/ UNCHANGED vars
           \/ \E r \in Requests : Broadcast(r) \/ Settle(r)
  BY <1>3, ServedGlobally
<1> QED BY <1>1, <1>2, <1>3 DEF Next, WorkerStep, AllHandled

\* No order is SUCCESS unless the seller did the work, whichever of the
\* coroutine and the worker wrote it, over whatever copy.
THEOREM SuccessIsServed == Spec => []SuccessMeansServed
<1> DEFINE Inv == \A r \in Requests : ServedInv(r)
<1>1. Init => Inv
  BY StateNames, NoOneAssumption DEF Init, ServedInv
<1>2. Inv /\ TypeOK /\ IInv /\ [Next]_vars => Inv'
  BY NextServed
<1>3. Inv => SuccessMeansServed
  BY DEF ServedInv, SuccessMeansServed
<1> QED BY <1>1, <1>2, <1>3, InvariantCorrect, PTL DEF Spec

-----------------------------------------------------------------------------
(* One writer                                                              *)
(*                                                                         *)
(* Until a poll picks up an order whose paid retry is still out, the order *)
(* has one writer at a time.                                               *)

Delivering == {"retry", "recordSuccess", "recordFailure"}

\* Where the coroutine has not been given work by the seller, nor ended.
Unserved == PC \ (Finished \cup {"recordSuccess"})

OneWriterInv(r) ==
  /\ pc[r] \in Unserved => served[r] = 0
  /\ served[r] > 1 => lost[r]
  /\ r \in Storing /\ pc[r] \in Delivering
       => order[r] = mem[r] /\ batch[r] = NoOrder
  /\ batch[r] # NoOrder => order[r].state = "DELIVERING" /\ pc[r] \in Finished
  /\ order[r].state = "DELIVERING" /\ served[r] > 0
       => lost[r] \/ Unrecorded(r)

\* An order with two writers was sent, and stays sent.
RacedInv(r) ==
  raced[r] => /\ r \in Storing /\ pc[r] \in Delivering \cup Finished
              /\ order[r].state \in DeliveryStates

WritersInv(r) == (raced[r] \/ OneWriterInv(r)) /\ RacedInv(r)

\* A request without a store is never in the worker's hands.
LEMMA WorkersHands ==
  ASSUME IInv, NEW r \in Requests, OneWriterInv(r),
         sending = r \/ batch[r] # NoOrder
  PROVE  /\ r \in Storing /\ batch[r] # NoOrder
         /\ order[r].state = "DELIVERING" /\ pc[r] \in Finished
  BY DEF IInv, StoredInv, BatchInv, NothingStored, OneWriterInv

\* Before the delivery the worker has no copy of the order.
LEMMA NotYetDelivering ==
  ASSUME TypeOK, IInv, NEW r \in Requests, OneWriterInv(r), pc[r] \notin Finished
  PROVE  /\ batch[r] = NoOrder /\ sending # r
         /\ pc[r] \notin Delivering => order[r].state # "DELIVERING"
         /\ r \notin Storing => order[r].state # "DELIVERING"
<1>1. batch[r] = NoOrder /\ sending # r
  BY WorkersHands
<1>2. r \notin Storing => order[r].state # "DELIVERING"
  BY StateNames DEF IInv, NothingStored
<1>3. r \in Storing /\ pc[r] \notin Delivering => order[r].state # "DELIVERING"
  BY StateNames DEF TypeOK, PC, Finished, Delivering, IInv, StoredInv,
     ProgressInv, BothIn
<1> QED BY <1>1, <1>2, <1>3

LEMMA OneWriterMiddleware ==
  ASSUME TypeOK, IInv, NEW r \in Requests, OneWriterInv(r),
         Challenged(r) \/ PassThrough(r) \/ HandleRequest(r) \/ Abort(r)
  PROVE  OneWriterInv(r)'
<1>1. /\ served[r] \in {0, 1, 2} /\ lost[r] \in BOOLEAN
      /\ mem[r] \in Order /\ order[r] \in Order /\ pc[r] \in PC
  BY DEF TypeOK
<1>2. pc[r] \notin Finished
  BY DEF Finished, HandleRequest, Goto, Challenged, PassThrough, Abort,
     AcquireLock, BudgetDenied, BudgetApproved, CreateOrder, Deduct,
     RecordDeducted, PayOk, PayFailed, Rollback, RecordRefunded,
     RecordBroadcast, RecordDelivering, RetryServed, RetryRejected,
     RetryRaised, RecordSuccess, RecordFailure
<1>3. /\ batch[r] = NoOrder /\ sending # r
      /\ pc[r] \notin Delivering => order[r].state # "DELIVERING"
      /\ r \notin Storing => order[r].state # "DELIVERING"
  BY <1>2, NotYetDelivering
<1>4. batch' = batch /\ sending' = sending
  BY DEF HandleRequest, Challenged, PassThrough, Abort,
     AcquireLock, BudgetDenied, BudgetApproved, CreateOrder, Deduct,
     RecordDeducted, PayOk, PayFailed, Rollback, RecordRefunded,
     RecordBroadcast, RecordDelivering, RetryServed, RetryRejected,
     RetryRaised, RecordSuccess, RecordFailure, workerVars
<1> USE DEF TypeOK, Goto, PC, Finished, Unserved, Delivering, Unrecorded,
        middlewareVars, workerVars, historyVars
<1>5. CASE \/ Challenged(r) \/ PassThrough(r) \/ AcquireLock(r)
           \/ BudgetDenied(r) \/ BudgetApproved(r) \/ Deduct(r)
           \/ PayOk(r) \/ PayFailed(r) \/ Rollback(r)
  BY <1>1, <1>3, <1>4, <1>5
     DEF OneWriterInv, Challenged, PassThrough, AcquireLock, BudgetDenied,
         BudgetApproved, Deduct, PayOk, PayFailed, Rollback
<1>6. CASE RetryServed(r)
  <2>1. served'[r] = 1
    BY <1>1, <1>6, ServeCounts DEF RetryServed, OneWriterInv
  <2> QED BY <1>1, <1>3, <1>4, <1>6, <2>1 DEF OneWriterInv, RetryServed
<1>7. CASE RetryRejected(r)
  BY <1>1, <1>3, <1>4, <1>7 DEF OneWriterInv, RetryRejected
<1>8. CASE RetryRaised(r)
  <2>1. \/ served'[r] = 0 /\ lost'[r] = lost[r]
        \/ served'[r] = 1 /\ lost'[r]
    BY <1>1, <1>8, ServeCounts DEF RetryRaised, OneWriterInv
  <2> QED BY <1>1, <1>3, <1>4, <1>8, <2>1 DEF OneWriterInv, RetryRaised
<1>9. CASE Abort(r)
  BY <1>1, <1>3, <1>4, <1>9 DEF OneWriterInv, Abort
<1>10. CASE CreateOrder(r)
  BY <1>1, <1>3, <1>4, <1>10, StateNames DEF OneWriterInv, CreateOrder
<1>11. CASE RecordDeducted(r) \/ RecordRefunded(r) \/ RecordBroadcast(r)
  <2>1. [mem[r] EXCEPT !.tx = TRUE] \in Order
    BY <1>1, OrderTypes
  <2>2. order'[r].state # "DELIVERING"
    BY <1>1, <1>3, <1>11, <2>1, OrderEdits, StateNames
       DEF RecordState, RecordDeducted, RecordRefunded, RecordBroadcast
  <2>3. /\ pc'[r] \notin Delivering /\ served' = served /\ lost' = lost
        /\ pc[r] \in Unserved
    BY <1>11 DEF RecordDeducted, RecordRefunded, RecordBroadcast
  <2> QED BY <1>1, <1>3, <1>4, <2>2, <2>3 DEF OneWriterInv
<1>12. CASE RecordDelivering(r)
  <2>1. served'[r] = 0 /\ lost' = lost /\ pc'[r] = "retry"
    BY <1>12 DEF RecordDelivering, OneWriterInv
  <2>2. r \in Storing => order'[r] = mem'[r]
    BY <1>12 DEF RecordDelivering, RecordState
  <2> QED BY <1>3, <1>4, <2>1, <2>2 DEF OneWriterInv
<1>13. CASE RecordSuccess(r)
  <2>1. order'[r].state # "DELIVERING"
    BY <1>1, <1>3, <1>13, OrderEdits, StateNames
       DEF RecordSuccess, RecordState
  <2> QED BY <1>1, <1>3, <1>4, <1>13, <2>1 DEF OneWriterInv, RecordSuccess
<1>14. CASE RecordFailure(r)
  BY <1>1, <1>3, <1>4, <1>14 DEF OneWriterInv, RecordFailure
<1> QED
  BY <1>5, <1>6, <1>7, <1>8, <1>9, <1>10, <1>11, <1>12, <1>13, <1>14
     DEF HandleRequest

LEMMA OneWriterWorker ==
  ASSUME TypeOK, IInv, NEW r \in Requests, OneWriterInv(r),
         \/ Exhausted(r) \/ NotDue(r) \/ Resend(r) \/ Answered(r)
         \/ RecordResend(r)
  PROVE  OneWriterInv(r)'
<1>1. /\ served[r] \in {0, 1, 2} /\ lost[r] \in BOOLEAN
      /\ batch[r] \in Order /\ pc[r] \in PC
  BY DEF TypeOK
<1>2. /\ r \in Storing /\ batch[r] # NoOrder
      /\ order[r].state = "DELIVERING" /\ pc[r] \in Finished
  BY WorkersHands DEF Exhausted, NotDue, Resend, Answered, RecordResend,
     NextInBatch, InBatch
<1>3. pc' = pc
  BY DEF Exhausted, NotDue, Resend, Answered, RecordResend, middlewareVars
<1> USE NoOneAssumption
        DEF TypeOK, Finished, Unserved, Delivering, Unrecorded,
            middlewareVars, historyVars
<1>4. CASE NotDue(r)
  BY <1>1, <1>2, <1>3, <1>4 DEF OneWriterInv, NotDue, NextInBatch, Drop
<1>5. CASE Resend(r)
  BY <1>1, <1>2, <1>3, <1>5 DEF OneWriterInv, Resend, NextInBatch
<1>6. CASE Answered(r)
  <2>1. served[r] > 0 => lost[r]
    BY <1>1, <1>2, <1>6 DEF OneWriterInv, Answered
  <2>2. \/ served'[r] = served[r] /\ lost'[r] = lost[r]
        \/ served'[r] > 0 /\ lost'[r]
        \/ /\ served'[r] > 0 /\ (served[r] = 0 => served'[r] = 1)
           /\ lost'[r] = lost[r] /\ outcome' = "ok"
    BY <1>1, <1>6, ServeCounts DEF Answered
  <2>3. order' = order /\ batch' = batch /\ sending' = r
    BY <1>6 DEF Answered
  <2>4. served'[r] \in {0, 1, 2}
    <3>1. served' \in [Requests -> 0..2]
      BY <1>6, ServeTypes DEF Answered
    <3> QED BY <3>1
  <2>5. lost'[r] \in BOOLEAN
    BY <1>1, <1>6 DEF Answered
  <2> QED BY <1>1, <1>2, <1>3, <2>1, <2>2, <2>3, <2>4, <2>5 DEF OneWriterInv
<1>7. CASE Exhausted(r)
  <2>1. order'[r].state = "FAILED"
    BY <1>1, <1>7, OrderEdits, StateNames DEF Exhausted
  <2> QED BY <1>1, <1>2, <1>3, <1>7, <2>1 DEF OneWriterInv, Exhausted, Drop
<1>8. CASE RecordResend(r)
  <2>1. outcome = "ok" => order'[r].state = "SUCCESS"
    BY <1>1, <1>8, OrderEdits, StateNames DEF RecordResend
  <2>2. outcome # "ok" /\ served[r] > 0 => lost[r]
    BY <1>1, <1>2 DEF OneWriterInv
  <2>3. batch'[r] = NoOrder /\ served' = served /\ lost' = lost
    BY <1>8 DEF RecordResend, Drop
  <2> QED BY <1>1, <1>2, <1>3, <2>1, <2>2, <2>3 DEF OneWriterInv
<1> QED BY <1>4, <1>5, <1>6, <1>7, <1>8

LEMMA OneWriterGlobally ==
  ASSUME TypeOK, IInv, NEW q \in Requests, OneWriterInv(q),
         \/ Poll \/ WorkerFault \/ Tick \/ Crash \/ UNCHANGED vars
         \/ \E r \in Requests : Broadcast(r) \/ Settle(r)
  PROVE  raced'[q] \/ OneWriterInv(q)'
<1>1. /\ served[q] \in {0, 1, 2} /\ lost[q] \in BOOLEAN /\ pc[q] \in PC
      /\ order[q] \in Order /\ mem[q] \in Order /\ batch[q] \in Order
  BY DEF TypeOK
<1> USE NoOneAssumption, BoundAssumption
        DEF Finished, Unserved, Delivering, Unrecorded,
            middlewareVars, workerVars, historyVars
<1>2. CASE Poll
  <2>1. batch[q] = NoOrder
    BY <1>2 DEF Poll, InBatch
  <2>2. ASSUME Stale(order[q]), pc[q] \notin Finished PROVE raced'[q]
    <3>1. order[q].state = "DELIVERING" /\ order[q].age > StaleAge
      BY <2>2 DEF Stale
    <3>2. pc[q] \in Delivering
      BY <2>2, <3>1, NotYetDelivering
    <3> QED BY <1>2, <2>2, <3>1, <3>2 DEF Poll, InRetry
  <2>3. batch'[q] # NoOrder => Stale(order[q])
    BY <1>2 DEF Poll
  <2>4. ~raced'[q] /\ pc[q] \in Delivering => batch'[q] = NoOrder
    BY <2>2, <2>3
  <2> QED BY <1>1, <1>2, <2>2, <2>3, <2>4 DEF OneWriterInv, Poll, Stale
<1>3. CASE WorkerFault
  BY <1>1, <1>3 DEF OneWriterInv, WorkerFault
<1>4. CASE Tick
  <2>1. /\ order'[q] = Older(order[q]) /\ mem'[q] = Older(mem[q])
        /\ batch'[q] = Older(batch[q])
        /\ order'[q].state = order[q].state
    BY <1>1, <1>4, OrderEdits DEF Tick
  <2>2. batch[q] = NoOrder => batch'[q] = NoOrder
    BY <2>1, StateNames DEF Older
  <2>3. UNCHANGED <<pc, served, lost, sending, outcome>>
    BY <1>4 DEF Tick
  <2> QED BY <1>1, <2>1, <2>2, <2>3 DEF OneWriterInv
<1>5. CASE Crash
  <2>1. lost'[q] = (lost[q] \/ Unrecorded(q)) /\ batch'[q] = NoOrder
    BY <1>5 DEF Crash
  <2>2. pc'[q] = IF pc[q] \in {"idle", "done", "dead"} THEN pc[q] ELSE "dead"
    BY <1>5 DEF Crash
  <2>3. order' = order /\ served' = served
    BY <1>5 DEF Crash
  <2> QED BY <1>1, <2>1, <2>2, <2>3 DEF OneWriterInv
<1>6. CASE UNCHANGED vars
  BY <1>1, <1>6 DEF OneWriterInv, vars
<1>7. CASE \E r \in Requests : Broadcast(r) \/ Settle(r)
  BY <1>1, <1>7 DEF OneWriterInv, Broadcast, Settle
<1> QED BY <1>2, <1>3, <1>4, <1>5, <1>6, <1>7

\* Only a poll lets an order have a second writer.
LEMMA RacedFrame ==
  ASSUME TypeOK, [Next]_vars, ~Poll
  PROVE  raced' = raced
  BY DEF Next, HandleRequest, WorkerStep, AllHandled, vars, historyVars,
     Challenged, PassThrough, Abort, AcquireLock, BudgetDenied, BudgetApproved,
     CreateOrder, Deduct, RecordDeducted, PayOk, PayFailed, Rollback,
     RecordRefunded, RecordBroadcast, RecordDelivering, RetryServed,
     RetryRejected, RetryRaised, RecordSuccess, RecordFailure, Broadcast, Settle,
     Exhausted, NotDue, Resend, Answered, RecordResend, WorkerFault, Tick, Crash

\* Of a sent order, the coroutine only writes that it is being delivered or
\* was delivered.
LEMMA RacedMiddleware ==
  ASSUME TypeOK, IInv, NEW r \in Requests, r \in Storing,
         pc[r] \in Delivering \cup Finished, order[r].state \in DeliveryStates,
         Challenged(r) \/ PassThrough(r) \/ HandleRequest(r) \/ Abort(r)
  PROVE  pc'[r] \in Delivering \cup Finished /\ order'[r].state \in DeliveryStates
<1>1. mem[r] \in Order /\ order[r] \in Order
  BY DEF TypeOK
<1> USE DEF TypeOK, Goto, Delivering, Finished
<1>2. CASE \/ RetryServed(r) \/ RetryRejected(r) \/ RetryRaised(r) \/ Abort(r)
  BY <1>2 DEF RetryServed, RetryRejected, RetryRaised, Abort
<1>3. CASE RecordSuccess(r)
  <2>1. order'[r].state = "SUCCESS"
    BY <1>1, <1>3, OrderEdits, StateNames DEF RecordSuccess, RecordState
  <2> QED BY <1>3, <2>1 DEF RecordSuccess, DeliveryStates
<1>4. CASE RecordFailure(r)
  <2>1. mem[r].state = "DELIVERING"
    BY <1>4 DEF RecordFailure, IInv, StoredInv, ProgressInv
  <2>2. order'[r] = [mem[r] EXCEPT !.retries = @ + 1]
    BY <1>4 DEF RecordFailure
  <2>3. [mem[r] EXCEPT !.retries = @ + 1].state = mem[r].state
    BY <1>1, OrderEdits
  <2>4. order'[r].state = "DELIVERING"
    BY <2>1, <2>2, <2>3
  <2> QED BY <1>4, <2>4 DEF RecordFailure, DeliveryStates
<1>5. CASE \/ Challenged(r) \/ PassThrough(r) \/ AcquireLock(r)
           \/ BudgetDenied(r) \/ BudgetApproved(r) \/ CreateOrder(r)
           \/ Deduct(r) \/ RecordDeducted(r) \/ PayOk(r) \/ PayFailed(r)
           \/ Rollback(r) \/ RecordRefunded(r) \/ RecordBroadcast(r)
           \/ RecordDelivering(r)
  BY <1>5 DEF Challenged, PassThrough, AcquireLock, BudgetDenied,
     BudgetApproved, CreateOrder, Deduct, RecordDeducted, PayOk, PayFailed,
     Rollback, RecordRefunded, RecordBroadcast, RecordDelivering
<1> QED BY <1>2, <1>3, <1>4, <1>5 DEF HandleRequest

\* Of an order, the worker writes nothing else either.
LEMMA WorkersRow ==
  ASSUME TypeOK, IInv, NEW r \in Requests,
         \/ Exhausted(r) \/ NotDue(r) \/ Resend(r) \/ Answered(r)
         \/ RecordResend(r)
  PROVE  order'[r] = order[r] \/ order'[r].state \in DeliveryStates
<1>1. batch[r] \in Order /\ [batch[r] EXCEPT !.retries = @ + 1] \in Order
  BY OrderTypes DEF TypeOK
<1>2. CASE Exhausted(r) \/ RecordResend(r)
  BY <1>1, <1>2, OrderEdits, StateNames
     DEF Exhausted, RecordResend, TypeOK, DeliveryStates
<1>3. CASE NotDue(r) \/ Resend(r) \/ Answered(r)
  BY <1>3 DEF NotDue, Resend, Answered
<1> QED BY <1>2, <1>3

LEMMA NextRaced ==
  ASSUME TypeOK, IInv, [Next]_vars, NEW q \in Requests, RacedInv(q)
  PROVE  RacedInv(q)'
<1>1. CASE Poll
  <2>1. raced'[q] => raced[q] \/ (Stale(order[q]) /\ InRetry(q))
    BY <1>1 DEF Poll
  <2>2. Stale(order[q]) => q \in Storing /\ order[q].state = "DELIVERING"
    BY StateNames DEF Stale, IInv, NothingStored
  <2>3. pc' = pc /\ order' = order
    BY <1>1 DEF Poll, middlewareVars
  <2> QED BY <2>1, <2>2, <2>3 DEF RacedInv, InRetry, Delivering, DeliveryStates
<1>2. ASSUME NEW r \in Requests, raced[q],
             Challenged(r) \/ PassThrough(r) \/ HandleRequest(r) \/ Abort(r)
      PROVE  pc'[q] \in Delivering \cup Finished /\ order'[q].state \in DeliveryStates
  BY <1>2, MiddlewareFrame, RacedMiddleware DEF RacedInv
<1>3. ASSUME NEW r \in Requests, raced[q],
             \/ Exhausted(r) \/ NotDue(r) \/ Resend(r) \/ Answered(r)
             \/ RecordResend(r)
      PROVE  pc'[q] \in Delivering \cup Finished /\ order'[q].state \in DeliveryStates
  <2>1. pc' = pc
    BY <1>3 DEF Exhausted, NotDue, Resend, Answered, RecordResend, middlewareVars
  <2> QED BY <1>3, <2>1, WorkerFrame, WorkersRow DEF RacedInv
<1>4. ASSUME raced[q],
             \/ WorkerFault \/ Tick \/ Crash \/ UNCHANGED vars
             \/ \E r \in Requests : Broadcast(r) \/ Settle(r)
      PROVE  pc'[q] \in Delivering \cup Finished /\ order'[q].state \in DeliveryStates
  <2>1. pc'[q] \in {pc[q], "dead"}
    BY <1>4 DEF TypeOK, WorkerFault, Tick, Crash, vars, Broadcast, Settle, middlewareVars
  <2>2. order'[q].state = order[q].state
    <3>1. CASE Tick
      BY <3>1, OrderEdits DEF Tick, TypeOK
    <3>2. CASE ~Tick
      BY <1>4, <3>2 DEF WorkerFault, Crash, vars, Broadcast, Settle
    <3> QED BY <3>1, <3>2
  <2> QED BY <1>4, <2>1, <2>2 DEF RacedInv, Finished
<1>5. CASE ~Poll
  <2>1. raced' = raced
    BY <1>5, RacedFrame
  <2>2. raced[q] => pc'[q] \in Delivering \cup Finished /\ order'[q].state \in DeliveryStates
    BY <1>2, <1>3, <1>4, <1>5 DEF Next, WorkerStep, AllHandled
  <2> QED BY <2>1, <2>2 DEF RacedInv
<1> QED BY <1>1, <1>5

LEMMA NextWriters ==
  ASSUME TypeOK, IInv, [Next]_vars, NEW q \in Requests, WritersInv(q)
  PROVE  WritersInv(q)'
<1> DEFINE Kept == raced'[q] \/ OneWriterInv(q)'
<1>1. ASSUME NEW r \in Requests, OneWriterInv(q),
             Challenged(r) \/ PassThrough(r) \/ HandleRequest(r) \/ Abort(r)
      PROVE  Kept
  <2>1. CASE q = r
    BY <1>1, <2>1, OneWriterMiddleware
  <2>2. CASE q # r
    BY <1>1, <2>2, MiddlewareFrame, HistoryFrame DEF OneWriterInv, Unrecorded
  <2> QED BY <2>1, <2>2
<1>2. ASSUME NEW r \in Requests, OneWriterInv(q),
             \/ Exhausted(r) \/ NotDue(r) \/ Resend(r) \/ Answered(r)
             \/ RecordResend(r)
      PROVE  Kept
  <2>1. CASE q = r
    BY <1>2, <2>1, OneWriterWorker
  <2>2. CASE q # r
    BY <1>2, <2>2, WorkerFrame, HistoryFrame DEF OneWriterInv, Unrecorded
  <2> QED BY <2>1, <2>2
<1>3. ASSUME OneWriterInv(q),
             \/ Poll \/ WorkerFault \/ Tick \/ Crash \/ UNCHANGED vars
             \/ \E r \in Requests : Broadcast(r) \/ Settle(r)
      PROVE  Kept
  BY <1>3, OneWriterGlobally
<1>4. raced[q] => raced'[q]
  <2>1. CASE Poll
    BY <2>1 DEF Poll
  <2> QED BY <2>1, RacedFrame
<1>5. Kept
  <2> HIDE DEF Kept
  <2>1. CASE OneWriterInv(q)
    BY <1>1, <1>2, <1>3, <2>1 DEF Next, WorkerStep, AllHandled
  <2>2. CASE raced[q]
    BY <1>4, <2>2 DEF Kept
  <2> QED BY <2>1, <2>2 DEF WritersInv
<1> QED BY <1>5, NextRaced DEF WritersInv

LEMMA InitWriters == Init => \A r \in Requests : WritersInv(r)
  BY StateNames, NoOneAssumption
     DEF Init, WritersInv, RacedInv, OneWriterInv, PC, Finished, Unserved, Delivering

\* An order has one writer at a time unless a poll took it up while its paid
\* retry was out, in every reachable state.
THEOREM WritersCorrect ==
  Spec => [](TypeOK /\ IInv /\ \A r \in Requests : WritersInv(r))
<1> DEFINE Inv == \A r \in Requests : WritersInv(r)
<1>1. Init => Inv
  BY InitWriters
<1>2. Inv /\ TypeOK /\ IInv /\ [Next]_vars => Inv'
  BY NextWriters
<1> QED BY <1>1, <1>2, InvariantCorrect, PTL DEF Spec

\* The seller does the work of one payment again only if an answer to work done
\* was lost on its way to the order, or if a poll took the order up while its
\* paid retry had been out for more than the stale age.
THEOREM DuplicatesAfterLoss == Spec => []DuplicateOnlyAfterLoss
<1>1. (\A r \in Requests : WritersInv(r)) => DuplicateOnlyAfterLoss
  BY DEF WritersInv, OneWriterInv, DuplicateOnlyAfterLoss
<1> QED BY <1>1, WritersCorrect, PTL

-----------------------------------------------------------------------------
(* The persisted orders implement OrderLifecycle                           *)

\* One move of the abstract state machine.
Moves(a, b) ==
  \/ a = Lifecycle!Absent /\ b = "CREATED"
  \/ a \in Lifecycle!OrderState /\ b \in Lifecycle!AllowedTransitions[a]

SameRow(r)  == order'[r].state = order[r].state
RowMoves(r) == SameRow(r) \/ Moves(order[r].state, order'[r].state)

\* The machine has the same states and transitions wherever it is mapped to.
LEMMA SameMachine ==
  /\ OneWriter!OrderState = Lifecycle!OrderState
  /\ OneWriter!Absent = Lifecycle!Absent
  /\ OneWriter!AllowedTransitions = Lifecycle!AllowedTransitions
  BY DEF OneWriter!OrderState, OneWriter!Absent, OneWriter!AllowedTransitions,
     Lifecycle!OrderState, Lifecycle!Absent, Lifecycle!AllowedTransitions

\* What the abstract machine sees of an order.
Row(r) == IF raced[r] THEN "DELIVERING" ELSE order[r].state

\* A step that moves one row, or none, is a step of the abstract machine.
LEMMA OneRowMoves ==
  ASSUME TypeOK, raced' = raced, NEW r \in Requests, raced[r] \/ RowMoves(r),
         \A q \in Requests : q # r => SameRow(q)
  PROVE  [OneWriter!Next]_[q \in Requests |-> Row(q)]
<1> DEFINE state  == [q \in Requests |-> Row(q)]
           state2 == [q \in Requests |-> Row(q)']
<1>1. state2[r] = Row(r)' /\ state[r] = Row(r)
  OBVIOUS
<1>2. \A q \in Requests : q # r => Row(q)' = Row(q)
  BY DEF Row, SameRow
<1>3. state2 = [state EXCEPT ![r] = Row(r)']
  BY <1>2
<1>4. CASE Row(r)' = Row(r)
  BY <1>2, <1>4
<1>5. CASE Row(r) = Lifecycle!Absent /\ Row(r)' = "CREATED"
  BY <1>1, <1>3, <1>5, SameMachine DEF OneWriter!Next, OneWriter!Create, Row
<1>6. CASE /\ Row(r) \in Lifecycle!OrderState
           /\ Row(r)' \in Lifecycle!AllowedTransitions[Row(r)]
  <2>1. Row(r)' \in Lifecycle!OrderState
    BY <1>6 DEF Lifecycle!AllowedTransitions, Lifecycle!OrderState
  <2> QED
    BY <1>1, <1>3, <1>6, <2>1, SameMachine DEF OneWriter!Next, OneWriter!Transition, Row
<1>7. Row(r)' = Row(r) \/ Moves(Row(r), Row(r)')
  BY DEF Row, RowMoves, SameRow
<1> QED BY <1>4, <1>5, <1>6, <1>7 DEF Moves

\* _transition_order moves the row as the state machine allows, as long as
\* the coroutine's copy is in the state of the row.
LEMMA RecordStateMoves ==
  ASSUME TypeOK, NEW r \in Requests, NEW s \in Lifecycle!OrderState,
         NEW o \in Order, RecordState(r, s, o),
         r \in Storing => order[r].state = mem[r].state
  PROVE  RowMoves(r)
<1>1. CASE r \notin Storing
  BY <1>1 DEF RecordState, RowMoves, SameRow
<1>2. CASE r \in Storing
  <2>1. order'[r] = TransitionTo(o, s)
    BY <1>2 DEF RecordState, TypeOK
  <2>2. order'[r].state = s
    BY <2>1, OrderEdits
  <2> QED BY <1>2, <2>2 DEF RecordState, CanTransition, RowMoves, Moves
<1> QED BY <1>1, <1>2

LEMMA MiddlewareRow ==
  ASSUME TypeOK, IInv, NEW r \in Requests, OneWriterInv(r),
         Challenged(r) \/ PassThrough(r) \/ HandleRequest(r) \/ Abort(r)
  PROVE  RowMoves(r)
<1>1. mem[r] \in Order /\ order[r] \in Order
  BY DEF TypeOK
<1>2. [mem[r] EXCEPT !.tx = TRUE] \in Order
  BY <1>1, OrderTypes
<1> USE DEF Goto, middlewareVars, workerVars, historyVars
<1>3. CASE \/ RecordDeducted(r) \/ RecordRefunded(r) \/ RecordBroadcast(r)
           \/ RecordDelivering(r) \/ RecordSuccess(r)
  <2>1. r \in Storing => order[r].state = mem[r].state
    BY <1>3 DEF RecordDeducted, RecordRefunded, RecordBroadcast,
       RecordDelivering, RecordSuccess, IInv, StoredInv, ProgressInv, BothIn,
       OneWriterInv, Delivering
  <2> QED
    BY <1>1, <1>2, <1>3, <2>1, RecordStateMoves, StateNames
       DEF RecordDeducted, RecordRefunded, RecordBroadcast, RecordDelivering,
           RecordSuccess
<1>4. CASE CreateOrder(r)
  <2>1. order[r].state = Lifecycle!Absent
    <3>1. CASE r \in Storing
      BY <1>4, <3>1 DEF CreateOrder, IInv, StoredInv, ProgressInv
    <3>2. CASE r \notin Storing
      BY <3>2 DEF IInv, NothingStored
    <3> QED BY <3>1, <3>2
  <2> QED
    BY <1>1, <1>4, <2>1, StateNames
       DEF CreateOrder, TypeOK, RowMoves, SameRow, Moves
<1>5. CASE RecordFailure(r)
  <2>1. r \in Storing => order'[r] = [mem[r] EXCEPT !.retries = @ + 1]
    BY <1>5 DEF RecordFailure, TypeOK
  <2>2. r \in Storing => order[r] = mem[r]
    BY <1>5 DEF RecordFailure, OneWriterInv, Delivering
  <2>3. [mem[r] EXCEPT !.retries = @ + 1].state = mem[r].state
    BY <1>1, OrderEdits
  <2>4. r \notin Storing => order' = order
    BY <1>5 DEF RecordFailure
  <2> QED BY <2>1, <2>2, <2>3, <2>4 DEF RowMoves, SameRow
<1>6. CASE \/ Challenged(r) \/ PassThrough(r) \/ AcquireLock(r)
           \/ BudgetDenied(r) \/ BudgetApproved(r) \/ Deduct(r)
           \/ PayOk(r) \/ PayFailed(r) \/ Rollback(r)
           \/ RetryServed(r) \/ RetryRejected(r) \/ RetryRaised(r) \/ Abort(r)
  BY <1>6 DEF Challenged, PassThrough, AcquireLock, BudgetDenied,
     BudgetApproved, Deduct, PayOk, PayFailed, Rollback, RetryServed,
     RetryRejected, RetryRaised, Abort, RowMoves, SameRow
<1> QED BY <1>3, <1>4, <1>5, <1>6 DEF HandleRequest

LEMMA WorkerRow ==
  ASSUME TypeOK, IInv, NEW r \in Requests, OneWriterInv(r),
         \/ Exhausted(r) \/ NotDue(r) \/ Resend(r) \/ Answered(r)
         \/ RecordResend(r)
  PROVE  RowMoves(r)
<1>1. batch[r] \in Order /\ order[r].state = "DELIVERING"
  BY WorkersHands DEF TypeOK, Exhausted, NotDue, Resend, Answered,
     RecordResend, NextInBatch, InBatch
<1>2. [batch[r] EXCEPT !.retries = @ + 1] \in Order
  BY <1>1, OrderTypes
<1>3. Moves("DELIVERING", "FAILED") /\ Moves("DELIVERING", "SUCCESS")
  BY DEF Moves, Lifecycle!AllowedTransitions, Lifecycle!OrderState
<1>4. CASE Exhausted(r) \/ RecordResend(r)
  <2>1. order'[r].state \in {"FAILED", "SUCCESS", "DELIVERING"}
    BY <1>1, <1>2, <1>4, OrderEdits, StateNames
       DEF Exhausted, RecordResend, TypeOK
  <2> QED BY <1>1, <1>3, <2>1 DEF RowMoves, SameRow
<1>5. CASE NotDue(r) \/ Resend(r) \/ Answered(r)
  BY <1>5 DEF NotDue, Resend, Answered, RowMoves, SameRow
<1> QED BY <1>4, <1>5

LEMMA StepMoves ==
  ASSUME TypeOK, IInv, [Next]_vars, \A r \in Requests : WritersInv(r)
  PROVE  [OneWriter!Next]_[q \in Requests |-> Row(q)]
<1>1. ASSUME NEW r \in Requests, ~Poll,
             Challenged(r) \/ PassThrough(r) \/ HandleRequest(r) \/ Abort(r)
      PROVE  [OneWriter!Next]_[q \in Requests |-> Row(q)]
  <2>1. \A q \in Requests : q # r => SameRow(q)
    BY <1>1, MiddlewareFrame DEF SameRow
  <2>2. raced[r] \/ RowMoves(r)
    BY <1>1, MiddlewareRow DEF WritersInv
  <2> QED BY <1>1, <2>1, <2>2, OneRowMoves, RacedFrame
<1>2. ASSUME NEW r \in Requests, ~Poll,
             \/ Exhausted(r) \/ NotDue(r) \/ Resend(r) \/ Answered(r)
             \/ RecordResend(r)
      PROVE  [OneWriter!Next]_[q \in Requests |-> Row(q)]
  <2>1. \A q \in Requests : q # r => SameRow(q)
    BY <1>2, WorkerFrame DEF SameRow
  <2>2. raced[r] \/ RowMoves(r)
    BY <1>2, WorkerRow DEF WritersInv
  <2> QED BY <1>2, <2>1, <2>2, OneRowMoves, RacedFrame
<1>3. CASE Poll
  <2>1. ASSUME NEW q \in Requests PROVE Row(q)' = Row(q)
    BY <1>3 DEF Poll, Stale, Row
  <2> QED BY <2>1
<1>4. CASE /\ ~Poll
           /\ \/ WorkerFault \/ Tick \/ Crash \/ UNCHANGED vars
              \/ \E r \in Requests : Broadcast(r) \/ Settle(r)
  <2>1. \A q \in Requests : SameRow(q)
    <3>1. CASE Tick
      BY <3>1, OrderEdits DEF Tick, TypeOK, SameRow
    <3>2. CASE \/ WorkerFault \/ Crash \/ UNCHANGED vars
               \/ \E r \in Requests : Broadcast(r) \/ Settle(r)
      BY <3>2 DEF WorkerFault, Crash, vars, Broadcast, Settle, SameRow
    <3> QED BY <1>4, <3>1, <3>2
  <2> QED BY <1>4, <2>1, RacedFrame DEF SameRow, Row
<1> QED BY <1>1, <1>2, <1>3, <1>4 DEF Next, WorkerStep, AllHandled

\* The rows that the coroutines and the worker write into the order store go
\* through the documented state machine and never leave a terminal state, as
\* long as they have one writer at a time; a row written by turns stays among
\* the states of a delivery.
THEOREM LifecycleImplemented == Spec => FollowsLifecycle
<1>1. Init => OneWriter!Init
  BY StateNames, SameMachine DEF Init, OneWriter!Init, NoOrder
<1>2. /\ TypeOK /\ IInv /\ \A r \in Requests : WritersInv(r)
      /\ [Next]_vars
      => [OneWriter!Next]_([r \in Requests |->
                              IF raced[r] THEN "DELIVERING" ELSE order[r].state])
  BY StepMoves DEF Row
<1>3. (\A r \in Requests : WritersInv(r))
      => \A r \in Requests : raced[r] => order[r].state \in {"DELIVERING", "SUCCESS", "FAILED"}
  BY DEF WritersInv, RacedInv, DeliveryStates
<1> QED
  BY <1>1, <1>2, <1>3, WritersCorrect, PTL DEF Spec, FollowsLifecycle, OneWriter!Spec

-----------------------------------------------------------------------------
(* The nonces at the gateway's door                                        *)

Recent(n) == last[n] # Never /\ last[n] >= now - 2 * Window

\* The table agrees with the log, and has every nonce that is recent.
TableInv == \A n \in Nonces :
  /\ last[n] = Never \/ last[n] \in 0..now
  /\ n \in DOMAIN seen => last[n] # Never /\ seen[n] = last[n]
  /\ Recent(n) => n \in DOMAIN seen

\* A message with a number for a stamp that was let through is stale one window after its stamp, and
\* its stamp was at most one window ahead of the clock then.
StampInv == \A n \in Nonces, s \in Stamps \ {NaN} :
  passed[<<n, s>>] > 0 => last[n] # Never /\ s <= last[n] + Window

LogInv == LogTypeOK /\ TableInv /\ StampInv /\ MessageOnce

-----------------------------------------------------------------------------

LEMMA LogInitInv == LogInit => LogInv
<1> SUFFICES ASSUME LogInit PROVE LogInv
  OBVIOUS
<1> USE DEF LogInit, GuardInit, Never
<1>1. LogTypeOK
  BY DEF LogTypeOK, GuardTypeOK
<1>2. TableInv
  BY DEF TableInv, Recent
<1>3. StampInv /\ MessageOnce
  BY DEF StampInv, MessageOnce
<1> QED BY <1>1, <1>2, <1>3 DEF LogInv

\* A nonce that the table no longer has was let through more than two windows
\* ago; a message that is fresh now was not fresh then, unless it always is.
LEMMA FreshIsNew ==
  ASSUME LogInv, NEW n \in Nonces, NEW s \in Stamps \ {NaN}, Accept(n, s)
  PROVE  passed[<<n, s>>] = 0
<1> USE WindowAssumption, CacheAssumption, StampsAssumption
<1>1. ~Recent(n)
  BY DEF LogInv, TableInv, Accept
<1>2. s >= now - Window
  BY DEF LogInv, LogTypeOK, GuardTypeOK, Accept, Fresh
<1>3. last[n] \in Int /\ now \in Int /\ s \in Int /\ passed[<<n, s>>] \in 0..2
  BY DEF LogInv, LogTypeOK, GuardTypeOK
<1>4. ASSUME passed[<<n, s>>] > 0 PROVE FALSE
  BY <1>1, <1>2, <1>3, <1>4 DEF LogInv, StampInv, Recent
<1> QED BY <1>3, <1>4

LEMMA LetThroughStep ==
  ASSUME LogInv, NEW n \in Nonces, NEW s \in Stamps, LetThrough(n, s)
  PROVE  LogInv'
<1> USE WindowAssumption, CacheAssumption, StampsAssumption
<1>0. /\ now' = now /\ now \in Nat
      /\ DOMAIN seen' = Live \cup {n} /\ seen'[n] = now
      /\ \A m \in Live : m # n => seen'[m] = seen[m]
      /\ last' = [last EXCEPT ![n] = now]
      /\ Live \subseteq DOMAIN seen
  BY DEF LetThrough, Accept, LogInv, LogTypeOK, GuardTypeOK, Live
<1>1. /\ s # NaN => passed' = [passed EXCEPT ![<<n, s>>] = 1]
      /\ \A m \in Nonces, t \in Stamps :
           ~(m = n /\ t = s) => passed'[<<m, t>>] = passed[<<m, t>>]
  <2>1. s # NaN => passed[<<n, s>>] = 0
    BY FreshIsNew DEF LetThrough
  <2>2. ASSUME s # NaN PROVE passed' = [passed EXCEPT ![<<n, s>>] = 1]
    <3>1. passed[<<n, s>>] = 0
      BY <2>1, <2>2
    <3> QED BY <3>1 DEF LetThrough
  <2>3. ASSUME NEW m \in Nonces, NEW t \in Stamps, ~(m = n /\ t = s)
        PROVE  passed'[<<m, t>>] = passed[<<m, t>>]
    <3>1. <<m, t>> # <<n, s>> /\ <<m, t>> \in Nonces \X Stamps
      BY <2>3
    <3> QED BY <3>1 DEF LetThrough, LogInv, LogTypeOK
  <2> QED BY <2>2, <2>3
<1>6. passed' \in [Nonces \X Stamps -> 0..2]
  <2>1. passed[<<n, s>>] \in 0..2
    BY DEF LogInv, LogTypeOK
  <2>2. (IF passed[<<n, s>>] < 2 THEN passed[<<n, s>>] + 1 ELSE passed[<<n, s>>]) \in 0..2
    BY <2>1
  <2> QED BY <2>2 DEF LetThrough, LogInv, LogTypeOK
<1>2. LogTypeOK'
  BY <1>0, <1>6 DEF LetThrough, Accept, LogInv, LogTypeOK, GuardTypeOK, Live
<1>3. TableInv'
  <2> SUFFICES ASSUME NEW m \in Nonces
               PROVE  /\ last'[m] = Never \/ last'[m] \in 0..now'
                      /\ m \in DOMAIN seen'
                           => last'[m] # Never /\ seen'[m] = last'[m]
                      /\ Recent(m)' => m \in DOMAIN seen'
    BY DEF TableInv
  <2>1. CASE m = n
    BY <1>0, <2>1 DEF LogInv, LogTypeOK, Never
  <2>2. CASE m # n
    BY <1>0, <2>2 DEF LogInv, LogTypeOK, TableInv, Recent, Live
  <2> QED BY <2>1, <2>2
<1>4. StampInv'
  <2> SUFFICES ASSUME NEW m \in Nonces, NEW t \in Stamps \ {NaN}, passed'[<<m, t>>] > 0
               PROVE  last'[m] # Never /\ t <= last'[m] + Window
    BY DEF StampInv
  <2>1. CASE m = n /\ t = s
    BY <1>0, <2>1 DEF LogInv, LogTypeOK, Never, LetThrough, Accept, Fresh
  <2>2. CASE ~(m = n /\ t = s)
    <3>1. passed[<<m, t>>] > 0
      BY <1>1, <2>2 DEF LogInv, LogTypeOK
    <3>2. last[m] # Never /\ t <= last[m] + Window /\ last[m] <= now
      BY <3>1 DEF LogInv, StampInv, TableInv
    <3>3. last[m] \in Int /\ t \in Int
      BY DEF LogInv, LogTypeOK
    <3> QED BY <1>0, <3>2, <3>3 DEF LogInv, LogTypeOK, Never
  <2> QED BY <2>1, <2>2
<1>5. MessageOnce'
  <2>1. ASSUME NEW m \in Nonces, NEW t \in Stamps \ {NaN} PROVE passed'[<<m, t>>] <= 1
    <3>1. CASE m = n /\ t = s
      <4>1. passed'[<<n, s>>] = 1
        BY <1>1, <3>1 DEF LogInv, LogTypeOK
      <4> QED BY <3>1, <4>1
    <3>2. CASE ~(m = n /\ t = s)
      BY <1>1, <3>2 DEF LogInv, MessageOnce
    <3> QED BY <3>1, <3>2
  <2>2. ASSUME NEW m \in Nonces, before'[m] # Never
        PROVE  last'[m] - before'[m] > 2 * Window
    <3>1. CASE m # n
      BY <1>0, <2>2, <3>1 DEF LetThrough, LogInv, LogTypeOK, MessageOnce
    <3>2. CASE m = n
      <4>1. before'[n] = last[n] /\ last'[n] = now /\ last[n] # Never
        BY <1>0, <2>2, <3>2 DEF LetThrough, LogInv, LogTypeOK
      <4>2. ~Recent(n)
        BY DEF LogInv, TableInv, LetThrough, Accept
      <4> QED BY <1>0, <3>2, <4>1, <4>2 DEF Recent, LogInv, LogTypeOK
    <3> QED BY <3>1, <3>2
  <2> QED BY <2>1, <2>2 DEF MessageOnce
<1> QED BY <1>2, <1>3, <1>4, <1>5 DEF LogInv

LEMMA TurnAwayStep ==
  ASSUME LogInv, NEW n \in Nonces, NEW s \in Stamps, TurnAway(n, s)
  PROVE  LogInv'
<1>0. UNCHANGED <<now, passed, last, before>>
  BY DEF TurnAway
<1>1. CASE UNCHANGED seen
  BY <1>0, <1>1 DEF LogInv, LogTypeOK, GuardTypeOK, TableInv, StampInv, MessageOnce,
     Recent
<1>2. CASE seen' = Pruned
  BY <1>0, <1>2, WindowAssumption, CacheAssumption, NoncesAssumption
     DEF LogInv, LogTypeOK, GuardTypeOK, TableInv, StampInv, MessageOnce, Recent,
         Pruned, Live
<1> QED BY <1>1, <1>2 DEF TurnAway, Refuse, RefuseStale, RefuseDuplicate,
           RefuseOverload

LEMMA TickStep == ASSUME LogInv, LogTick PROVE LogInv'
  BY WindowAssumption, CacheAssumption, NoncesAssumption
     DEF LogInv, LogTypeOK, GuardTypeOK, TableInv, StampInv, MessageOnce, Recent,
         LogTick, Never

\* The inductive invariant: types, what the table holds, when each message was
\* let through, and that it was let through once.
THEOREM LogInvariant == LogSpec => []LogInv
<1>1. LogInv /\ UNCHANGED logVars => LogInv'
  BY DEF logVars, LogInv, LogTypeOK, GuardTypeOK, TableInv, StampInv, MessageOnce, Recent
<1>2. LogInv /\ [LogNext]_logVars => LogInv'
  BY <1>1, LetThroughStep, TurnAwayStep, TickStep DEF LogNext
<1> QED BY LogInitInv, <1>2, PTL DEF LogSpec

\* However long messages are delayed and however often they are duplicated, one
\* run of the gateway lets one with a number for a stamp through at most once,
\* and a nonce, whatever the stamp, never twice within two windows.
THEOREM MessagesOnce == LogSpec => []MessageOnce
<1>1. LogInv => MessageOnce
  BY DEF LogInv
<1> QED BY <1>1, LogInvariant, PTL

\* The pruned table is exactly the nonces let through in the last two windows,
\* so nothing is forgotten too soon and nothing is kept for ever.
THEOREM TableRecent == LogSpec => []TableIsRecent
<1>1. LogInv => TableIsRecent
  BY DEF LogInv, LogTypeOK, GuardTypeOK, TableInv, TableIsRecent, Recent, Live
<1> QED BY <1>1, LogInvariant, PTL

-----------------------------------------------------------------------------
(* The bound on the table *)

LEMMA TableStep ==
  ASSUME LogInv, TableIsBounded, [LogNext]_logVars
  PROVE  TableIsBounded'
<1> USE WindowAssumption, CacheAssumption
<1>1. IsFiniteSet(DOMAIN seen) /\ IsFiniteSet(Live)
  BY WindowAssumption, CacheAssumption, NoncesAssumption, FS_Subset DEF LogInv, LogTypeOK, GuardTypeOK, Live
<1>2. Cardinality(Live) <= Cardinality(DOMAIN seen)
  BY <1>1, FS_Subset DEF Live
<1>3. Cardinality(Live) \in Nat /\ Cardinality(DOMAIN seen) \in Nat
  BY <1>1, FS_CardinalityType
<1>4. ASSUME NEW n \in Nonces, NEW s \in Stamps, LetThrough(n, s)
      PROVE  TableIsBounded'
  <2>1. DOMAIN seen' = Live \cup {n} /\ Cardinality(Live) < MaxCache
    BY <1>4 DEF LetThrough, Accept
  <2>2. Cardinality(Live \cup {n})
          = IF n \in Live THEN Cardinality(Live) ELSE Cardinality(Live) + 1
    BY <1>1, FS_AddElement
  <2>3. Cardinality(Live \cup {n}) <= Cardinality(Live) + 1
    BY <1>3, <2>2
  <2>4. Cardinality(Live \cup {n}) \in Nat
    BY <1>1, FS_AddElement, FS_CardinalityType
  <2>5. Cardinality(Live) + 1 <= MaxCache
    BY <1>3, <2>1
  <2> QED BY <1>3, <2>1, <2>3, <2>4, <2>5 DEF TableIsBounded
<1>5. ASSUME NEW n \in Nonces, NEW s \in Stamps, TurnAway(n, s)
      PROVE  TableIsBounded'
  <2>1. DOMAIN seen' = DOMAIN seen \/ DOMAIN seen' = Live
    BY <1>5 DEF TurnAway, Refuse, RefuseStale, RefuseDuplicate, RefuseOverload,
       Pruned
  <2> QED BY <1>2, <1>3, <2>1 DEF TableIsBounded
<1>6. CASE LogTick \/ UNCHANGED logVars
  BY <1>6 DEF LogTick, logVars, TableIsBounded
<1> QED BY <1>4, <1>5, <1>6 DEF LogNext

\* The table never outgrows its limit, whatever the limit.
THEOREM TableBounded == LogSpec => []TableIsBounded
<1>1. LogInit => TableIsBounded
  BY WindowAssumption, CacheAssumption, NoncesAssumption, FS_EmptySet DEF LogInit, GuardInit, TableIsBounded
<1>2. LogInv /\ TableIsBounded /\ [LogNext]_logVars => TableIsBounded'
  BY TableStep
<1> QED BY <1>1, <1>2, LogInvariant, PTL DEF LogSpec

-----------------------------------------------------------------------------
(* The callers at the gateway's door                                       *)

HeldIn(table, c) == IF c \in DOMAIN table THEN table[c] ELSE <<>>

\* t is the end of a, and what a has before it is not after cut.
IsTail(t, a, cut) ==
  /\ Len(t) <= Len(a)
  /\ \A i \in 1..Len(t) : t[i] = a[Len(a) - Len(t) + i]
  /\ \A i \in 1..(Len(a) - Len(t)) : a[i] <= cut

Ascends(a) == \A i, j \in 1..Len(a) : i <= j => a[i] <= a[j]

LimiterTypeOK ==
  /\ lastSweep \in Int /\ lastSweep <= now
  /\ DOMAIN requests \subseteq Callers
  /\ requests \in [DOMAIN requests -> Seq(Nat)]
  /\ admitted \in [Callers -> Seq(Nat)]
  /\ refused \subseteq Callers

\* The times a caller was let through at ascend, and as many of them as the
\* rate allows span a window.
SpacedInv(c) ==
  LET a == admitted[c]
  IN  /\ Ascends(a)
      /\ \A i \in 1..Len(a) : a[i] <= now
      /\ \A i, j \in 1..Len(a) : i + MaxRequests <= j => a[i] + RateWindow <= a[j]

\* The table has the last of them, and what it dropped has expired.
TailInv(c) ==
  /\ Len(HeldIn(requests, c)) <= MaxRequests
  /\ IsTail(HeldIn(requests, c), admitted[c], now - RateWindow)

\* A table of callers none of which had expired at the last sweep.
IsYoung(table, sweep) ==
  \A k \in DOMAIN table :
    /\ table[k] = <<>> => MaxRequests = 0
    /\ table[k] # <<>> => table[k][Len(table[k])] > sweep - RateWindow

LimiterInv ==
  /\ LimiterTypeOK
  /\ \A c \in Callers : SpacedInv(c) /\ TailInv(c)
  /\ IsYoung(requests, lastSweep)
  /\ Cardinality(DOMAIN requests) <= MaxKeys

-----------------------------------------------------------------------------
(* Pruning keeps the end of what was recorded                              *)

LEMMA LimiterConstants ==
  /\ MaxRequests \in Nat /\ MaxKeys \in Nat
  /\ RateWindow \in Nat /\ RateWindow > 0
  /\ IsFiniteSet(Callers)
  BY ClocksAssumption

LEMMA SameCount == \A S : Limiter!Cardinality(S) = Cardinality(S)
  BY DEF Limiter!Cardinality, Cardinality

LEMMA EmptyTail ==
  ASSUME NEW a \in Seq(Nat), NEW cut \in Int, \A i \in 1..Len(a) : a[i] <= cut
  PROVE  IsTail(<<>>, a, cut)
  BY DEF IsTail

LEMMA TailLater ==
  ASSUME NEW t \in Seq(Nat), NEW a \in Seq(Nat), NEW cut \in Int, NEW late \in Int, cut <= late,
         IsTail(t, a, cut)
  PROVE  IsTail(t, a, late)
<1>1. \A i \in 1..(Len(a) - Len(t)) : a[i] \in Int /\ a[i] <= cut
  BY DEF IsTail
<1> QED BY <1>1 DEF IsTail

\* What is left of the end of a has not expired, and the rest of a has.
LEMMA RecentTail ==
  ASSUME now \in Nat, NEW a \in Seq(Nat), Ascends(a),
         NEW t \in Seq(Nat), IsTail(t, a, now - RateWindow)
  PROVE  LET r == Limiter!Recent(t)
         IN  /\ r \in Seq(Nat) /\ Len(r) <= Len(t)
             /\ IsTail(r, a, now - RateWindow)
             /\ \A i \in 1..Len(r) : r[i] > now - RateWindow
<1> DEFINE recent == {i \in DOMAIN t : t[i] > now - RateWindow}
           first  == Limiter!Min(recent)
           r      == Limiter!Recent(t)
<1> USE LimiterConstants
<1>a. DOMAIN t = 1..Len(t) /\ Len(t) \in Nat /\ Len(a) \in Nat /\ RateWindow \in Nat
      /\ now - RateWindow \in Int
  OBVIOUS
<1>b. (\A i \in 1..Len(t) : t[i] \in Nat) /\ (\A i \in 1..Len(a) : a[i] \in Nat)
  OBVIOUS
<1>c. \A i : i \in recent <=> i \in 1..Len(t) /\ t[i] > now - RateWindow
  BY <1>a
<1>d. r = IF recent = {} THEN <<>> ELSE SubSeq(t, first, Len(t))
  BY DEF Limiter!Recent, Limiter!Cutoff
<1>e. first = CHOOSE x \in recent : \A y \in recent : x <= y
  BY DEF Limiter!Min
<1>0. /\ Len(t) \in Nat /\ Len(a) \in Nat /\ RateWindow \in Nat /\ now \in Nat
      /\ (\A i \in 1..Len(t) : t[i] \in Nat) /\ (\A i \in 1..Len(a) : a[i] \in Nat)
  BY <1>a, <1>b
<1> SUFFICES /\ r \in Seq(Nat) /\ Len(r) <= Len(t)
             /\ IsTail(r, a, now - RateWindow)
             /\ \A i \in 1..Len(r) : r[i] > now - RateWindow
  OBVIOUS
<1> HIDE DEF recent, first, r
<1> HIDE LimiterConstants
<1>1. CASE recent = {}
  <2>1. r = <<>>
    BY <1>1, <1>d
  <2>2. \A i \in 1..Len(t) : t[i] <= now - RateWindow
    BY <1>0, <1>1, <1>c
  <2>3. \A i \in 1..Len(a) : a[i] <= now - RateWindow
    <3> SUFFICES ASSUME NEW i \in 1..Len(a) PROVE a[i] <= now - RateWindow
      OBVIOUS
    <3>1. CASE i <= Len(a) - Len(t)
      BY <1>0, <3>1 DEF IsTail
    <3>2. CASE i > Len(a) - Len(t)
      <4>1. i - (Len(a) - Len(t)) \in 1..Len(t)
        BY <1>0, <3>2 DEF IsTail
      <4>2. t[i - (Len(a) - Len(t))] = a[Len(a) - Len(t) + (i - (Len(a) - Len(t)))]
        BY <4>1 DEF IsTail
      <4> QED BY <1>0, <2>2, <4>1, <4>2
    <3> QED BY <1>0, <3>1, <3>2
  <2>4. IsTail(<<>>, a, now - RateWindow)
    BY <1>0, <2>3, EmptyTail
  <2> QED BY <1>0, <2>1, <2>4
<1>2. CASE recent # {}
  <2>1. /\ first \in recent /\ \A i \in recent : first <= i
    <3>1. recent \in SUBSET (1..Len(t)) /\ \A i \in recent : i \in Int
      BY <1>0, <1>c
    <3>2. IsFiniteSet(1..Len(t))
      BY <1>0, FS_Interval
    <3>3. IsFiniteSet(recent)
      BY <3>1, <3>2, FS_Subset
    <3>4. PICK m \in recent : \A i \in recent : m <= i
      BY <1>2, <3>1, <3>3, LeastElement
    <3> QED BY <1>e, <3>4
  <2>2. first \in 1..Len(t) /\ t[first] > now - RateWindow
    BY <1>c, <2>1
  <2>3. r = SubSeq(t, first, Len(t))
    BY <1>2, <1>d
  <2>4. /\ r \in Seq(Nat) /\ Len(r) = Len(t) - first + 1
        /\ \A i \in 1..Len(r) : r[i] = t[first + i - 1]
    <3>1. first \in 1..Len(t) + 1 /\ Len(t) \in Nat
      BY <1>0, <2>2
    <3> QED BY <2>2, <2>3, <3>1
  <2>5. Len(a) - Len(t) \in Nat
    BY <1>0 DEF IsTail
  <2> DEFINE gap == Len(a) - Len(t)
  <2>6. \A i \in 1..Len(t) : t[i] = a[gap + i]
    BY DEF IsTail
  <2>p. gap \in Nat /\ Len(a) = gap + Len(t)
    BY <1>0, <2>5
  <2> HIDE DEF gap
  <2>7. Len(a) - Len(r) = gap + first - 1 /\ Len(r) <= Len(t) /\ Len(r) <= Len(a)
    BY <1>0, <2>2, <2>4, <2>p
  <2>8. \A i \in 1..Len(r) : r[i] = a[Len(a) - Len(r) + i]
    <3> SUFFICES ASSUME NEW i \in 1..Len(r) PROVE r[i] = a[Len(a) - Len(r) + i]
      OBVIOUS
    <3>1. first + i - 1 \in 1..Len(t)
      BY <1>0, <2>2, <2>4
    <3>2. gap + (first + i - 1) = Len(a) - Len(r) + i
      BY <1>0, <2>2, <2>4, <2>p, <2>7
    <3> QED BY <2>4, <2>6, <3>1, <3>2
  <2>9. \A i \in 1..Len(r) : r[i] > now - RateWindow
    <3> SUFFICES ASSUME NEW i \in 1..Len(r) PROVE r[i] > now - RateWindow
      OBVIOUS
    <3>1. first + i - 1 \in 1..Len(t) /\ first <= first + i - 1
      BY <1>0, <2>2, <2>4
    <3>2. /\ gap + first \in 1..Len(a) /\ gap + (first + i - 1) \in 1..Len(a)
          /\ gap + first <= gap + (first + i - 1)
      BY <1>0, <2>2, <2>p, <3>1
    <3>3. a[gap + first] <= a[gap + (first + i - 1)]
      BY <3>2 DEF Ascends
    <3>4. t[first] = a[gap + first] /\ r[i] = a[gap + (first + i - 1)]
      BY <2>2, <2>4, <2>6, <3>1
    <3>5. t[first] \in Nat /\ r[i] \in Nat
      BY <1>0, <2>2, <2>4, <3>1
    <3> QED BY <1>0, <2>2, <3>3, <3>4, <3>5
  <2>10. \A i \in 1..(Len(a) - Len(r)) : a[i] <= now - RateWindow
    <3> SUFFICES ASSUME NEW i \in 1..(Len(a) - Len(r)) PROVE a[i] <= now - RateWindow
      OBVIOUS
    <3>1. CASE i <= gap
      BY <1>0, <2>p, <2>7, <3>1 DEF IsTail, gap
    <3>2. CASE i > gap
      <4>1. i - gap \in 1..Len(t) /\ i - gap < first
        BY <1>0, <2>2, <2>p, <2>7, <3>2
      <4>2. i - gap \notin recent
        BY <1>0, <2>1, <2>2, <4>1
      <4>3. t[i - gap] <= now - RateWindow
        BY <1>0, <1>c, <4>1, <4>2
      <4>4. t[i - gap] = a[gap + (i - gap)]
        BY <2>6, <4>1
      <4>5. gap + (i - gap) = i
        BY <2>p
      <4> QED BY <4>3, <4>4, <4>5
    <3> QED BY <1>0, <2>p, <2>7, <3>1, <3>2
  <2> QED BY <2>4, <2>7, <2>8, <2>9, <2>10 DEF IsTail
<1> QED BY <1>1, <1>2

\* Whoever is swept has no time left that counts.
LEMMA SweptTail ==
  ASSUME now \in Nat, LimiterInv, NEW k \in Callers
  PROVE  /\ IsTail(HeldIn(Limiter!Swept, k), admitted[k], now - RateWindow)
         /\ HeldIn(Limiter!Swept, k) \in {HeldIn(requests, k), <<>>}
<1> USE LimiterConstants
<1> DEFINE a == admitted[k]
           t == HeldIn(requests, k)
<1>1. a \in Seq(Nat) /\ t \in Seq(Nat) /\ Ascends(a) /\ IsTail(t, a, now - RateWindow)
      /\ RateWindow \in Nat
  BY DEF LimiterInv, LimiterTypeOK, SpacedInv, TailInv, HeldIn
<1>2. CASE HeldIn(Limiter!Swept, k) = t
  BY <1>1, <1>2
<1>3. CASE HeldIn(Limiter!Swept, k) # t
  <2>1. /\ now - lastSweep > RateWindow
        /\ Limiter!Swept = Limiter!Restrict(requests, {c \in DOMAIN requests : ~Limiter!Expired(requests[c])})
    BY <1>3 DEF Limiter!Swept
  <2>2. /\ DOMAIN Limiter!Swept = {c \in DOMAIN requests : ~Limiter!Expired(requests[c])}
        /\ \A c \in DOMAIN Limiter!Swept : Limiter!Swept[c] = requests[c]
    BY <2>1 DEF Limiter!Restrict
  <2>3. k \in DOMAIN requests /\ k \notin DOMAIN Limiter!Swept
    BY <1>3, <2>2 DEF HeldIn
  <2>4. HeldIn(Limiter!Swept, k) = <<>> /\ t = requests[k] /\ Limiter!Expired(requests[k])
    BY <2>2, <2>3 DEF HeldIn
  <2>5. t = <<>> \/ t[Len(t)] <= now - RateWindow
    BY <2>4 DEF Limiter!Expired, Limiter!Last, Limiter!Cutoff
  <2>7. \A i \in 1..Len(a) : a[i] \in Nat
    BY <1>1
  <2>8. now - RateWindow \in Int
    BY <1>1
  <2> HIDE DEF t, a
  <2>6. \A i \in 1..Len(a) : a[i] <= now - RateWindow
    <3>1. CASE t = <<>>
      BY <1>1, <3>1 DEF IsTail
    <3>2. CASE t # <<>>
      <4>1. Len(t) \in 1..Len(t) /\ Len(a) \in 1..Len(a)
        BY <1>1, <3>2 DEF IsTail
      <4>2. t[Len(t)] = a[Len(a) - Len(t) + Len(t)] /\ Len(a) - Len(t) + Len(t) = Len(a)
        BY <1>1, <4>1 DEF IsTail
      <4>3. a[Len(a)] <= now - RateWindow
        BY <2>5, <3>2, <4>2
      <4>4. \A i \in 1..Len(a) : a[i] <= a[Len(a)]
        BY <1>1, <4>1 DEF Ascends
      <4> QED BY <2>7, <2>8, <4>1, <4>3, <4>4
    <3> QED BY <3>1, <3>2
  <2>9. IsTail(<<>>, a, now - RateWindow)
    BY <1>1, <2>6, <2>8, EmptyTail
  <2> QED BY <2>4, <2>9 DEF a
<1> QED BY <1>2, <1>3

\* The table of a call: who is left in it was in it, with the end of his times;
\* the caller has only times that count, or is not in it.
LEMMA PrunedTable ==
  ASSUME now \in Nat, LimiterInv, NEW c \in Callers
  PROVE  LET table == Limiter!Pruned(c)
         IN  /\ DOMAIN table \subseteq DOMAIN requests
             /\ \A k \in DOMAIN table : table[k] \in Seq(Nat)
             /\ \A k \in DOMAIN table \ {c} : k \in DOMAIN Limiter!Swept /\ table[k] = requests[k]
             /\ \A k \in Callers :
                  /\ IsTail(HeldIn(table, k), admitted[k], now - RateWindow)
                  /\ Len(HeldIn(table, k)) <= MaxRequests
             /\ c \in DOMAIN table => table[c] # <<>>
             /\ \A i \in 1..Len(HeldIn(table, c)) : HeldIn(table, c)[i] > now - RateWindow
<1> USE LimiterConstants
<1> DEFINE table == Limiter!Pruned(c)
           mine  == IF c \in DOMAIN Limiter!Swept THEN Limiter!Recent(Limiter!Swept[c]) ELSE <<>>
<1>0. MaxRequests \in Nat /\ RateWindow \in Nat
  OBVIOUS
<1>1. /\ DOMAIN Limiter!Swept \subseteq DOMAIN requests
      /\ \A k \in DOMAIN Limiter!Swept : Limiter!Swept[k] = requests[k]
  BY DEF Limiter!Swept, Limiter!Restrict
<1>2. /\ DOMAIN table = (DOMAIN Limiter!Swept \ {c}) \union (IF mine = <<>> THEN {} ELSE {c})
      /\ \A k \in DOMAIN table : table[k] = IF k = c THEN mine ELSE Limiter!Swept[k]
  BY DEF Limiter!Pruned
<1>3. \A k \in Callers :
        /\ admitted[k] \in Seq(Nat) /\ Ascends(admitted[k])
        /\ HeldIn(Limiter!Swept, k) \in Seq(Nat)
        /\ Len(HeldIn(Limiter!Swept, k)) <= MaxRequests
        /\ IsTail(HeldIn(Limiter!Swept, k), admitted[k], now - RateWindow)
  <2> SUFFICES ASSUME NEW k \in Callers
               PROVE  /\ admitted[k] \in Seq(Nat) /\ Ascends(admitted[k])
                      /\ HeldIn(Limiter!Swept, k) \in Seq(Nat)
                      /\ Len(HeldIn(Limiter!Swept, k)) <= MaxRequests
                      /\ IsTail(HeldIn(Limiter!Swept, k), admitted[k], now - RateWindow)
    OBVIOUS
  <2>1. HeldIn(requests, k) \in Seq(Nat) /\ Len(HeldIn(requests, k)) <= MaxRequests
    BY DEF LimiterInv, LimiterTypeOK, TailInv, HeldIn
  <2>2. Len(<<>>) = 0 /\ <<>> \in Seq(Nat)
    OBVIOUS
  <2>3. admitted[k] \in Seq(Nat) /\ Ascends(admitted[k])
    BY DEF LimiterInv, LimiterTypeOK, SpacedInv
  <2>4. /\ IsTail(HeldIn(Limiter!Swept, k), admitted[k], now - RateWindow)
        /\ HeldIn(Limiter!Swept, k) \in {HeldIn(requests, k), <<>>}
    BY SweptTail
  <2>5. CASE HeldIn(Limiter!Swept, k) = HeldIn(requests, k)
    BY <2>1, <2>3, <2>4, <2>5
  <2>6. CASE HeldIn(Limiter!Swept, k) = <<>>
    BY <1>0, <2>2, <2>3, <2>4, <2>6
  <2> QED BY <2>4, <2>5, <2>6
<1>4. /\ mine \in Seq(Nat) /\ Len(mine) <= MaxRequests
      /\ IsTail(mine, admitted[c], now - RateWindow)
      /\ \A i \in 1..Len(mine) : mine[i] > now - RateWindow
      /\ mine # <<>> => c \in DOMAIN Limiter!Swept
  <2>1. CASE c \in DOMAIN Limiter!Swept
    <3> DEFINE t == Limiter!Swept[c]
    <3>1. t = HeldIn(Limiter!Swept, c) /\ mine = Limiter!Recent(t)
      BY <2>1 DEF HeldIn
    <3>2. t \in Seq(Nat) /\ Len(t) <= MaxRequests /\ IsTail(t, admitted[c], now - RateWindow)
      BY <1>3, <3>1
    <3> HIDE DEF t, mine
    <3>3. /\ Limiter!Recent(t) \in Seq(Nat) /\ Len(Limiter!Recent(t)) <= Len(t)
          /\ IsTail(Limiter!Recent(t), admitted[c], now - RateWindow)
          /\ \A i \in 1..Len(Limiter!Recent(t)) : Limiter!Recent(t)[i] > now - RateWindow
      BY <1>3, <3>2, RecentTail
    <3>4. Len(Limiter!Recent(t)) \in Nat /\ Len(t) \in Nat
      BY <3>2, <3>3
    <3> QED BY <1>0, <2>1, <3>1, <3>2, <3>3, <3>4
  <2>2. CASE c \notin DOMAIN Limiter!Swept
    <3>1. mine = <<>> /\ HeldIn(Limiter!Swept, c) = <<>>
      BY <2>2 DEF HeldIn
    <3>2. Len(<<>>) = 0
      OBVIOUS
    <3> QED BY <1>0, <1>3, <3>1, <3>2
  <2> QED BY <2>1, <2>2
<1>5. HeldIn(table, c) = mine
  BY <1>2 DEF HeldIn
<1>6. \A k \in Callers : k # c => HeldIn(table, k) = HeldIn(Limiter!Swept, k)
  BY <1>2 DEF HeldIn
<1> HIDE DEF table, mine
<1>7. \A k \in DOMAIN table : table[k] \in Seq(Nat)
  <2>1. \A k \in DOMAIN requests : requests[k] \in Seq(Nat)
    BY DEF LimiterInv, LimiterTypeOK
  <2> QED BY <1>1, <1>2, <1>4, <2>1
<1>8. \A k \in Callers :
        /\ IsTail(HeldIn(table, k), admitted[k], now - RateWindow)
        /\ Len(HeldIn(table, k)) <= MaxRequests
  BY <1>3, <1>4, <1>5, <1>6
<1>9. \A k \in DOMAIN table \ {c} : k \in DOMAIN Limiter!Swept /\ table[k] = requests[k]
  BY <1>1, <1>2
<1>10. DOMAIN table \subseteq DOMAIN requests /\ (c \in DOMAIN table => table[c] # <<>>)
  BY <1>1, <1>2, <1>4
<1> QED BY <1>4, <1>5, <1>7, <1>8, <1>9, <1>10 DEF table

-----------------------------------------------------------------------------
(* A step keeps the invariant                                              *)

LEMMA SweptYoung ==
  ASSUME now \in Nat, LimiterInv
  PROVE  /\ IsYoung(Limiter!Swept, IF now - lastSweep > RateWindow THEN now ELSE lastSweep)
         /\ \A k \in DOMAIN Limiter!Swept : k \in DOMAIN requests /\ Limiter!Swept[k] = requests[k]
<1> USE LimiterConstants
<1>1. CASE now - lastSweep > RateWindow
  <2>1. /\ DOMAIN Limiter!Swept = {k \in DOMAIN requests : ~Limiter!Expired(requests[k])}
        /\ \A k \in DOMAIN Limiter!Swept : Limiter!Swept[k] = requests[k]
    BY <1>1 DEF Limiter!Swept, Limiter!Restrict
  <2>2. ASSUME NEW k \in DOMAIN Limiter!Swept
        PROVE  Limiter!Swept[k] # <<>> /\ Limiter!Swept[k][Len(Limiter!Swept[k])] > now - RateWindow
    <3>1. requests[k] \in Seq(Nat) /\ ~Limiter!Expired(requests[k]) /\ Limiter!Swept[k] = requests[k]
      BY <2>1 DEF LimiterInv, LimiterTypeOK
    <3>2. requests[k] # <<>> /\ ~(requests[k][Len(requests[k])] <= now - RateWindow)
      BY <3>1 DEF Limiter!Expired, Limiter!Last, Limiter!Cutoff
    <3>3. requests[k][Len(requests[k])] \in Nat
      BY <3>1, <3>2
    <3> QED BY <3>1, <3>2, <3>3
  <2> QED BY <1>1, <2>1, <2>2 DEF IsYoung
<1>2. CASE ~(now - lastSweep > RateWindow)
  <2>1. Limiter!Swept = requests
    BY <1>2 DEF Limiter!Swept
  <2> QED BY <1>2, <2>1 DEF LimiterInv
<1> QED BY <1>1, <1>2

\* What a call does, in terms of what its caller has in the pruned table.
LEMMA AllowMeans ==
  ASSUME now \in Nat, LimiterInv, NEW c \in Callers, Limiter!Allow(c)
  PROVE  LET table == Limiter!Pruned(c)
             times == HeldIn(table, c)
             full  == c \notin DOMAIN table /\ Cardinality(DOMAIN table) >= MaxKeys
         IN  /\ now' = now
             /\ lastSweep' = IF now - lastSweep > RateWindow THEN now ELSE lastSweep
             /\ \/ /\ full \/ Len(times) >= MaxRequests
                   /\ admitted' = admitted /\ refused' = {c}
                   /\ \A k \in Callers : HeldIn(requests', k) = HeldIn(table, k)
                \/ /\ ~full /\ Len(times) < MaxRequests
                   /\ admitted' = [admitted EXCEPT ![c] = Append(@, now)] /\ refused' = {}
                   /\ HeldIn(requests', c) = Append(times, now)
                   /\ \A k \in Callers \ {c} : HeldIn(requests', k) = HeldIn(table, k)
             /\ DOMAIN requests' = IF full THEN DOMAIN table ELSE DOMAIN table \union {c}
             /\ requests' = [k \in DOMAIN requests' |-> HeldIn(requests', k)]
<1> DEFINE table == Limiter!Pruned(c)
           times == IF c \in DOMAIN table THEN table[c] ELSE <<>>
           full  == c \notin DOMAIN table /\ Cardinality(DOMAIN table) >= MaxKeys
           refuses == full \/ Len(times) >= MaxRequests
<1>a. lastSweep' = IF now - lastSweep > RateWindow THEN now ELSE lastSweep
  BY DEF Limiter!Allow
<1>b. requests' = IF full THEN table
                  ELSE [k \in DOMAIN table \union {c} |->
                          IF k # c THEN table[k]
                          ELSE IF refuses THEN times ELSE Append(times, now)]
  BY SameCount DEF Limiter!Allow, Limiter!HasNoRoom
<1>c. admitted' = IF refuses THEN admitted ELSE [admitted EXCEPT ![c] = Append(@, now)]
  BY SameCount DEF Limiter!Allow, Limiter!HasNoRoom
<1>d. refused' = IF refuses THEN {c} ELSE {}
  BY SameCount DEF Limiter!Allow, Limiter!HasNoRoom
<1>e. now' = now
  BY DEF Limiter!Allow
<1>1. /\ lastSweep' = IF now - lastSweep > RateWindow THEN now ELSE lastSweep
      /\ requests' = IF full THEN table
                     ELSE [k \in DOMAIN table \union {c} |->
                             IF k # c THEN table[k]
                             ELSE IF refuses THEN times ELSE Append(times, now)]
      /\ admitted' = IF refuses THEN admitted
                     ELSE [admitted EXCEPT ![c] = Append(@, now)]
      /\ refused' = IF refuses THEN {c} ELSE {}
      /\ now' = now
  BY <1>a, <1>b, <1>c, <1>d, <1>e
<1>0. HeldIn(table, c) = times
  BY DEF HeldIn
<1>2. table = [k \in DOMAIN table |-> table[k]]
  BY DEF Limiter!Pruned
<1>3. Len(times) \in Nat /\ MaxRequests \in Nat
  <2>1. times = <<>> \/ times \in Seq(Nat)
    BY PrunedTable
  <2> QED BY <2>1, LimiterConstants
<1> SUFFICES /\ \/ /\ full \/ Len(times) >= MaxRequests
                   /\ admitted' = admitted /\ refused' = {c}
                   /\ \A k \in Callers : HeldIn(requests', k) = HeldIn(table, k)
                \/ /\ ~full /\ Len(times) < MaxRequests
                   /\ admitted' = [admitted EXCEPT ![c] = Append(@, now)] /\ refused' = {}
                   /\ HeldIn(requests', c) = Append(times, now)
                   /\ \A k \in Callers \ {c} : HeldIn(requests', k) = HeldIn(table, k)
             /\ DOMAIN requests' = IF full THEN DOMAIN table ELSE DOMAIN table \union {c}
             /\ requests' = [k \in DOMAIN requests' |-> HeldIn(requests', k)]
  BY <1>0, <1>1
<1> HIDE DEF table, times
<1>4. CASE full
  <2>1. requests' = table
    BY <1>1, <1>4
  <2> QED BY <1>1, <1>2, <1>4, <2>1 DEF HeldIn
<1>5. CASE ~full /\ refuses
  <2>1. requests' = [k \in DOMAIN table \union {c} |-> IF k # c THEN table[k] ELSE times]
    BY <1>1, <1>5
  <2> QED BY <1>0, <1>1, <1>5, <2>1 DEF HeldIn
<1>6. CASE ~refuses
  <2>1. requests' = [k \in DOMAIN table \union {c} |-> IF k # c THEN table[k] ELSE Append(times, now)]
    BY <1>1, <1>6
  <2>2. /\ HeldIn(requests', c) = Append(times, now)
        /\ \A k \in Callers \ {c} : HeldIn(requests', k) = HeldIn(table, k)
        /\ DOMAIN requests' = DOMAIN table \union {c}
        /\ requests' = [k \in DOMAIN requests' |-> HeldIn(requests', k)]
    BY <2>1 DEF HeldIn
  <2>3. ~full /\ Len(times) < MaxRequests
    BY <1>3, <1>6
  <2> QED BY <1>1, <1>6, <2>2, <2>3
<1> QED BY <1>4, <1>5, <1>6

\* What a list of times is once a time has been added at its end.
LEMMA AppendedTime ==
  ASSUME NEW s \in Seq(Nat), NEW x \in Nat
  PROVE  /\ Len(Append(s, x)) = Len(s) + 1 /\ Append(s, x)[Len(s) + 1] = x
         /\ \A i \in 1..Len(s) : Append(s, x)[i] = s[i] /\ s[i] \in Nat
OBVIOUS

\* The time of a call that is let through is a window after the one that the
\* rate of calls before it.
LEMMA AdmitSpaced ==
  ASSUME now \in Nat, NEW c \in Callers, LimiterTypeOK, SpacedInv(c),
         NEW t \in Seq(Nat), Len(t) < MaxRequests, IsTail(t, admitted[c], now - RateWindow),
         now' = now, admitted' = [admitted EXCEPT ![c] = Append(@, now)]
  PROVE  SpacedInv(c)' /\ IsTail(Append(t, now), admitted'[c], now - RateWindow)
<1> DEFINE a == admitted[c]
           b == Append(a, now)
           u == Append(t, now)
<1> USE LimiterConstants
<1>0. /\ a \in Seq(Nat) /\ Len(a) \in Nat /\ Len(t) \in Nat /\ Len(t) <= Len(a)
      /\ admitted'[c] = b
  BY DEF LimiterTypeOK, IsTail
<1>1. /\ Len(b) = Len(a) + 1 /\ b[Len(a) + 1] = now
      /\ \A i \in 1..Len(a) : b[i] = a[i] /\ a[i] \in Nat
      /\ Len(u) = Len(t) + 1 /\ u[Len(t) + 1] = now
      /\ \A i \in 1..Len(t) : u[i] = t[i]
  BY <1>0, AppendedTime
<1>2. /\ \A i \in 1..Len(a) : a[i] <= now
      /\ \A i, j \in 1..Len(a) : i <= j => a[i] <= a[j]
      /\ \A i, j \in 1..Len(a) : i + MaxRequests <= j => a[i] + RateWindow <= a[j]
  BY DEF SpacedInv, Ascends
<1>3. /\ \A i \in 1..Len(t) : t[i] = a[Len(a) - Len(t) + i]
      /\ \A i \in 1..(Len(a) - Len(t)) : a[i] <= now - RateWindow
  BY DEF IsTail
<1> HIDE DEF a, b, u
<1>4. \A i \in 1..Len(b) : b[i] \in Nat /\ b[i] <= now
  <2> SUFFICES ASSUME NEW i \in 1..Len(b) PROVE b[i] \in Nat /\ b[i] <= now
    OBVIOUS
  <2>1. CASE i \in 1..Len(a)
    BY <1>1, <1>2, <2>1
  <2>2. CASE i = Len(a) + 1
    BY <1>1, <2>2
  <2> QED BY <1>0, <1>1, <2>1, <2>2
<1>5. Ascends(b)
  <2> SUFFICES ASSUME NEW i \in 1..Len(b), NEW j \in 1..Len(b), i <= j PROVE b[i] <= b[j]
    BY DEF Ascends
  <2>1. CASE j <= Len(a)
    <3>1. i \in 1..Len(a) /\ j \in 1..Len(a)
      BY <1>0, <1>1, <2>1
    <3> QED BY <1>1, <1>2, <3>1
  <2>2. CASE j = Len(a) + 1
    BY <1>1, <1>4, <2>2
  <2> QED BY <1>0, <1>1, <2>1, <2>2
<1>6. ASSUME NEW i \in 1..Len(b), NEW j \in 1..Len(b), i + MaxRequests <= j
      PROVE  b[i] + RateWindow <= b[j]
  <2>1. CASE j <= Len(a)
    <3>1. i \in 1..Len(a) /\ j \in 1..Len(a)
      BY <1>0, <1>1, <1>6, <2>1
    <3> QED BY <1>1, <1>2, <1>6, <3>1
  <2>2. CASE j = Len(a) + 1
    <3>1. i \in 1..(Len(a) - Len(t)) /\ i \in 1..Len(a)
      BY <1>0, <1>1, <1>6, <2>2
    <3>2. b[i] <= now - RateWindow /\ b[i] \in Nat
      BY <1>1, <1>3, <3>1
    <3> QED BY <1>1, <2>2, <3>2
  <2> QED BY <1>0, <1>1, <2>1, <2>2
<1>7. SpacedInv(c)'
  BY <1>0, <1>4, <1>5, <1>6 DEF SpacedInv, Ascends
<1>8. IsTail(u, b, now - RateWindow)
  <2>1. Len(b) - Len(u) = Len(a) - Len(t)
    BY <1>0, <1>1
  <2>2. ASSUME NEW i \in 1..Len(u) PROVE u[i] = b[Len(b) - Len(u) + i]
    <3>1. CASE i = Len(t) + 1
      BY <1>0, <1>1, <2>1, <3>1
    <3>2. CASE i <= Len(t)
      <4>1. i \in 1..Len(t) /\ Len(a) - Len(t) + i \in 1..Len(a)
        BY <1>0, <1>1, <3>2
      <4> QED BY <1>1, <1>3, <2>1, <4>1
    <3> QED BY <1>0, <1>1, <3>1, <3>2
  <2>3. ASSUME NEW i \in 1..(Len(b) - Len(u)) PROVE b[i] <= now - RateWindow
    <3>1. i \in 1..(Len(a) - Len(t)) /\ i \in 1..Len(a)
      BY <1>0, <2>1
    <3> QED BY <1>1, <1>3, <3>1
  <2> QED BY <1>0, <1>1, <2>1, <2>2, <2>3 DEF IsTail
<1> QED BY <1>0, <1>7, <1>8 DEF u

LEMMA AllowStep ==
  ASSUME now \in Nat, LimiterInv, NEW c \in Callers, Limiter!Allow(c)
  PROVE  LimiterInv'
<1> DEFINE table == Limiter!Pruned(c)
           times == HeldIn(table, c)
           full  == c \notin DOMAIN table /\ Cardinality(DOMAIN table) >= MaxKeys
           sweep == IF now - lastSweep > RateWindow THEN now ELSE lastSweep
           lets  == ~full /\ Len(times) < MaxRequests
<1> USE LimiterConstants
<1>1. /\ now' = now /\ lastSweep' = sweep
      /\ admitted' = IF lets THEN [admitted EXCEPT ![c] = Append(@, now)] ELSE admitted
      /\ refused' = IF lets THEN {} ELSE {c}
      /\ \A k \in Callers : HeldIn(requests', k)
           = IF lets /\ k = c THEN Append(times, now) ELSE HeldIn(table, k)
      /\ DOMAIN requests' = IF full THEN DOMAIN table ELSE DOMAIN table \union {c}
      /\ requests' = [k \in DOMAIN requests' |-> HeldIn(requests', k)]
  <2>1. Len(times) \in Nat
    <3>1. times = <<>> \/ times \in Seq(Nat)
      BY PrunedTable DEF HeldIn
    <3> QED BY <3>1
  <2>2. /\ now' = now /\ lastSweep' = sweep
        /\ \/ /\ full \/ Len(times) >= MaxRequests
              /\ admitted' = admitted /\ refused' = {c}
              /\ \A k \in Callers : HeldIn(requests', k) = HeldIn(table, k)
           \/ /\ ~full /\ Len(times) < MaxRequests
              /\ admitted' = [admitted EXCEPT ![c] = Append(@, now)] /\ refused' = {}
              /\ HeldIn(requests', c) = Append(times, now)
              /\ \A k \in Callers \ {c} : HeldIn(requests', k) = HeldIn(table, k)
        /\ DOMAIN requests' = IF full THEN DOMAIN table ELSE DOMAIN table \union {c}
        /\ requests' = [k \in DOMAIN requests' |-> HeldIn(requests', k)]
    BY AllowMeans
  <2> HIDE DEF table, times, full, sweep
  <2>3. CASE lets
    BY <2>1, <2>2, <2>3
  <2>4. CASE ~lets
    BY <2>1, <2>2, <2>4
  <2> QED BY <2>3, <2>4
<1>2. /\ DOMAIN table \subseteq DOMAIN requests
      /\ \A k \in DOMAIN table : table[k] \in Seq(Nat)
      /\ \A k \in DOMAIN table \ {c} : k \in DOMAIN Limiter!Swept /\ table[k] = requests[k]
      /\ \A k \in Callers :
           /\ IsTail(HeldIn(table, k), admitted[k], now - RateWindow)
           /\ Len(HeldIn(table, k)) <= MaxRequests
      /\ c \in DOMAIN table => table[c] # <<>>
      /\ \A i \in 1..Len(HeldIn(table, c)) : HeldIn(table, c)[i] > now - RateWindow
  BY PrunedTable
<1>3. /\ LimiterTypeOK /\ \A k \in Callers : SpacedInv(k) /\ TailInv(k)
      /\ IsYoung(requests, lastSweep) /\ Cardinality(DOMAIN requests) <= MaxKeys
  BY DEF LimiterInv
<1>4. /\ DOMAIN requests \subseteq Callers /\ admitted \in [Callers -> Seq(Nat)]
      /\ lastSweep \in Int /\ lastSweep <= now
  BY <1>3 DEF LimiterTypeOK
<1>5. \A k \in Callers : HeldIn(table, k) \in Seq(Nat)
  <2>1. <<>> \in Seq(Nat)
    OBVIOUS
  <2> QED BY <1>2, <2>1 DEF HeldIn
<1>6. sweep \in Int /\ sweep <= now
  BY <1>4
<1> HIDE DEF table, sweep
<1>7. LimiterTypeOK'
  <2>1. DOMAIN requests' \subseteq Callers
    BY <1>1, <1>2, <1>4
  <2>2. \A k \in Callers : HeldIn(requests', k) \in Seq(Nat)
    <3>1. times \in Seq(Nat) /\ Append(times, now) \in Seq(Nat)
      BY <1>5
    <3> HIDE DEF times
    <3> QED BY <1>1, <1>5, <3>1
  <2>3. requests' \in [DOMAIN requests' -> Seq(Nat)]
    BY <1>1, <2>1, <2>2
  <2>4. admitted' \in [Callers -> Seq(Nat)]
    BY <1>1, <1>4
  <2> QED BY <1>1, <1>6, <2>1, <2>3, <2>4 DEF LimiterTypeOK
<1>8. ASSUME lets
      PROVE  /\ \A k \in Callers : SpacedInv(k)' /\ TailInv(k)'
             /\ IsYoung(requests', sweep)
  <2>1. /\ SpacedInv(c)'
        /\ IsTail(Append(times, now), admitted'[c], now - RateWindow)
    BY <1>1, <1>2, <1>3, <1>5, <1>8, AdmitSpaced
  <2>2. ASSUME NEW k \in Callers, k # c PROVE SpacedInv(k)' /\ TailInv(k)'
    <3>1. admitted'[k] = admitted[k] /\ HeldIn(requests', k) = HeldIn(table, k) /\ now' = now
      BY <1>1, <1>4, <1>8, <2>2
    <3> QED BY <1>2, <1>3, <3>1 DEF SpacedInv, TailInv
  <2>3. TailInv(c)'
    <3>1. HeldIn(requests', c) = Append(times, now) /\ Len(Append(times, now)) = Len(times) + 1
          /\ Len(times) \in Nat
      BY <1>1, <1>5, <1>8
    <3>2. Len(times) + 1 <= MaxRequests
      BY <1>8, <3>1
    <3> QED BY <1>1, <2>1, <3>1, <3>2 DEF TailInv
  <2>4. IsYoung(requests', sweep)
    <3>1. IsYoung(Limiter!Swept, sweep)
          /\ \A k \in DOMAIN Limiter!Swept : k \in DOMAIN requests /\ Limiter!Swept[k] = requests[k]
      BY SweptYoung DEF sweep
    <3>2. ASSUME NEW k \in DOMAIN requests', k # c
          PROVE  /\ requests'[k] = <<>> => MaxRequests = 0
                 /\ requests'[k] # <<>> => requests'[k][Len(requests'[k])] > sweep - RateWindow
      <4>1. k \in DOMAIN table /\ k \in DOMAIN Limiter!Swept /\ table[k] = Limiter!Swept[k]
        BY <1>1, <1>2, <3>1, <3>2
      <4>2. requests'[k] = Limiter!Swept[k]
        BY <1>1, <1>2, <1>4, <3>2, <4>1 DEF HeldIn
      <4> QED BY <3>1, <4>1, <4>2 DEF IsYoung
    <3>3. requests'[c] = Append(times, now)
      BY <1>1, <1>8
    <3>4. requests'[c] # <<>> /\ requests'[c][Len(requests'[c])] = now
      BY <1>5, <3>3
    <3> QED BY <1>6, <3>2, <3>4 DEF IsYoung
  <2> QED BY <2>1, <2>2, <2>3, <2>4
<1>9. ASSUME ~lets
      PROVE  /\ \A k \in Callers : SpacedInv(k)' /\ TailInv(k)'
             /\ IsYoung(requests', sweep)
  <2>1. ASSUME NEW k \in Callers PROVE SpacedInv(k)' /\ TailInv(k)'
    <3>1. admitted' = admitted /\ HeldIn(requests', k) = HeldIn(table, k) /\ now' = now
      BY <1>1, <1>9
    <3> QED BY <1>2, <1>3, <3>1 DEF SpacedInv, TailInv
  <2>2. IsYoung(requests', sweep)
    <3>1. IsYoung(Limiter!Swept, sweep)
          /\ \A k \in DOMAIN Limiter!Swept : k \in DOMAIN requests /\ Limiter!Swept[k] = requests[k]
      BY SweptYoung DEF sweep
    <3>2. ASSUME NEW k \in DOMAIN requests', k # c
          PROVE  /\ requests'[k] = <<>> => MaxRequests = 0
                 /\ requests'[k] # <<>> => requests'[k][Len(requests'[k])] > sweep - RateWindow
      <4>1. k \in DOMAIN table /\ k \in DOMAIN Limiter!Swept /\ table[k] = Limiter!Swept[k]
        BY <1>1, <1>2, <3>1, <3>2
      <4>2. requests'[k] = Limiter!Swept[k]
        BY <1>1, <1>2, <1>4, <3>2, <4>1 DEF HeldIn
      <4> QED BY <3>1, <4>1, <4>2 DEF IsYoung
    <3>3. ASSUME c \in DOMAIN requests'
          PROVE  /\ requests'[c] = <<>> => MaxRequests = 0
                 /\ requests'[c] # <<>> => requests'[c][Len(requests'[c])] > sweep - RateWindow
      <4>1. requests'[c] = times /\ times \in Seq(Nat)
        BY <1>1, <1>5, <1>9, <3>3
      <4>2. CASE times = <<>>
        <5>1. c \notin DOMAIN table
          BY <1>2, <4>2 DEF HeldIn
        <5>2. ~full
          BY <1>1, <3>3, <5>1
        <5>3. ~(0 < MaxRequests)
          BY <1>9, <4>2, <5>2
        <5> QED BY <4>1, <4>2, <5>3
      <4>3. CASE times # <<>>
        <5>1. Len(times) \in 1..Len(times) /\ times[Len(times)] \in Nat
          BY <4>1, <4>3
        <5>2. times[Len(times)] > now - RateWindow
          BY <1>2, <5>1
        <5> QED BY <1>6, <4>1, <4>3, <5>1, <5>2
      <4> QED BY <4>2, <4>3
    <3> QED BY <3>2, <3>3 DEF IsYoung
  <2> QED BY <2>1, <2>2
<1>10. Cardinality(DOMAIN requests') <= MaxKeys
  <2>1. IsFiniteSet(DOMAIN requests) /\ IsFiniteSet(DOMAIN table)
    BY <1>2, <1>4, FS_Subset
  <2>2. /\ Cardinality(DOMAIN table) <= Cardinality(DOMAIN requests)
        /\ Cardinality(DOMAIN table) \in Nat /\ Cardinality(DOMAIN requests) \in Nat
    BY <1>2, <2>1, FS_Subset, FS_CardinalityType
  <2>3. CASE full \/ c \in DOMAIN table
    <3>1. DOMAIN requests' = DOMAIN table
      BY <1>1, <2>3
    <3> QED BY <1>3, <2>2, <3>1
  <2>4. CASE ~full /\ c \notin DOMAIN table
    <3>1. Cardinality(DOMAIN requests') = Cardinality(DOMAIN table) + 1
      BY <1>1, <2>1, <2>4, FS_AddElement
    <3> QED BY <2>2, <2>4, <3>1
  <2> QED BY <2>3, <2>4
<1>11. /\ \A k \in Callers : SpacedInv(k)' /\ TailInv(k)'
       /\ IsYoung(requests', sweep)
  BY <1>8, <1>9
<1> QED BY <1>1, <1>7, <1>10, <1>11 DEF LimiterInv

\* Time passes and nobody calls.
LEMMA IdleStep ==
  ASSUME now \in Nat, now' \in Nat, now <= now', LimiterInv,
         UNCHANGED <<requests, lastSweep, admitted>>, refused' \subseteq refused
  PROVE  LimiterInv'
<1> USE LimiterConstants
<1>1. LimiterTypeOK'
  BY DEF LimiterInv, LimiterTypeOK
<1>2. ASSUME NEW c \in Callers PROVE SpacedInv(c)' /\ TailInv(c)'
  <2> DEFINE a == admitted[c]
             t == HeldIn(requests, c)
  <2>1. a \in Seq(Nat) /\ t \in Seq(Nat) /\ admitted' = admitted /\ HeldIn(requests', c) = t
    BY DEF LimiterInv, LimiterTypeOK, HeldIn
  <2>2. SpacedInv(c) /\ TailInv(c)
    BY DEF LimiterInv
  <2>3. \A i \in 1..Len(a) : a[i] \in Nat
    BY <2>1
  <2>4. IsTail(t, a, now' - RateWindow)
    <3>1. IsTail(t, a, now - RateWindow)
      BY <2>2 DEF TailInv
    <3> HIDE DEF a, t
    <3> QED BY <2>1, <3>1, TailLater
  <2>5. SpacedInv(c)'
    BY <2>1, <2>2, <2>3 DEF SpacedInv
  <2> QED BY <2>1, <2>2, <2>4, <2>5 DEF TailInv
<1> QED BY <1>1, <1>2 DEF LimiterInv

-----------------------------------------------------------------------------
(* The door is fair                                                        *)

\* Of the times in one window the last comes less than MaxRequests after the
\* first.
LEMMA RateHolds ==
  ASSUME now \in Nat, LimiterInv, NEW c \in Callers, NEW t \in Int
  PROVE  Cardinality(Limiter!Within(c, t - RateWindow, t)) <= MaxRequests
<1> DEFINE a == admitted[c]
           W == Limiter!Within(c, t - RateWindow, t)
<1> USE LimiterConstants
<1>1. /\ a \in Seq(Nat) /\ Len(a) \in Nat /\ DOMAIN a = 1..Len(a)
      /\ \A i, j \in 1..Len(a) : i + MaxRequests <= j => a[i] + RateWindow <= a[j]
  BY DEF LimiterInv, LimiterTypeOK, SpacedInv
<1>2. \A i : i \in W <=> i \in 1..Len(a) /\ t - RateWindow < a[i] /\ a[i] <= t
  BY <1>1 DEF Limiter!Within
<1>3. \A i \in 1..Len(a) : a[i] \in Nat
  BY <1>1
<1> HIDE DEF a, W
<1>4. W \in SUBSET (1..Len(a)) /\ IsFiniteSet(W)
  <2>1. W \in SUBSET (1..Len(a)) /\ IsFiniteSet(1..Len(a))
    BY <1>1, <1>2, FS_Interval
  <2> QED BY <2>1, FS_Subset
<1>5. CASE W = {}
  BY <1>5, FS_EmptySet DEF W
<1>6. CASE W # {}
  <2>1. PICK m \in W : \A i \in W : m <= i
    <3>1. \A i \in W : i \in Int
      BY <1>4
    <3> QED BY <1>4, <1>6, <3>1, LeastElement
  <2>2. ASSUME NEW i \in W PROVE i \in m..(m + MaxRequests - 1)
    <3>1. /\ m \in 1..Len(a) /\ i \in 1..Len(a) /\ m <= i
          /\ t - RateWindow < a[m] /\ a[i] <= t /\ a[i] \in Nat /\ a[m] \in Nat
      BY <1>2, <1>3, <2>1
    <3>2. ~(m + MaxRequests <= i)
      BY <1>1, <3>1
    <3> QED BY <1>1, <3>1, <3>2
  <2>3. m \in Int
    BY <1>4, <2>1
  <2>4. m + MaxRequests - 1 \in Int
    BY <2>3
  <2>5. /\ IsFiniteSet(m..(m + MaxRequests - 1))
        /\ Cardinality(m..(m + MaxRequests - 1)) <= MaxRequests
    BY <2>3, <2>4, FS_Interval
  <2>6. /\ Cardinality(W) <= Cardinality(m..(m + MaxRequests - 1))
        /\ Cardinality(W) \in Nat /\ Cardinality(m..(m + MaxRequests - 1)) \in Nat
    BY <1>4, <2>2, <2>5, FS_Subset, FS_CardinalityType
  <2> QED BY <2>5, <2>6 DEF W
<1> QED BY <1>5, <1>6

RefusalIsFair == \A c \in refused :
  \/ Cardinality(Limiter!Within(c, now - RateWindow, now)) >= MaxRequests
  \/ /\ Limiter!Within(c, now - RateWindow, now) = {}
     /\ Cardinality({k \in Callers \ {c} :
                       Limiter!Within(k, now - 2 * RateWindow, now) # {}}) >= MaxKeys

\* At its rate: what the table has of it are as many times within the window.
LEMMA AtRate ==
  ASSUME now \in Nat, LimiterInv, NEW c \in Callers,
         NEW t \in Seq(Nat), IsTail(t, admitted[c], now - RateWindow),
         \A i \in 1..Len(t) : t[i] > now - RateWindow, Len(t) >= MaxRequests
  PROVE  Cardinality(Limiter!Within(c, now - RateWindow, now)) >= MaxRequests
<1> DEFINE a == admitted[c]
           W == Limiter!Within(c, now - RateWindow, now)
           I == (Len(a) - Len(t) + 1)..Len(a)
<1> USE LimiterConstants
<1>1. /\ a \in Seq(Nat) /\ Len(a) \in Nat /\ DOMAIN a = 1..Len(a)
      /\ \A i \in 1..Len(a) : a[i] <= now
  BY DEF LimiterInv, LimiterTypeOK, SpacedInv
<1>2. W = {i \in 1..Len(a) : now - RateWindow < a[i] /\ a[i] <= now}
  BY <1>1 DEF Limiter!Within
<1>3. /\ Len(t) \in Nat /\ Len(t) <= Len(a)
      /\ \A i \in 1..Len(t) : t[i] = a[Len(a) - Len(t) + i] /\ now - RateWindow < t[i]
  <2>1. \A i \in 1..Len(t) : t[i] \in Nat
    OBVIOUS
  <2> QED BY <2>1 DEF IsTail
<1> HIDE DEF a, W
<1>4. ASSUME NEW i \in I PROVE i \in W
  <2>1. i - (Len(a) - Len(t)) \in 1..Len(t) /\ i \in 1..Len(a)
        /\ Len(a) - Len(t) + (i - (Len(a) - Len(t))) = i
    BY <1>1, <1>3
  <2> QED BY <1>1, <1>2, <1>3, <2>1
<1>5. Cardinality(I) = Len(t)
  <2>1. Len(a) - Len(t) + 1 \in Int /\ Len(a) \in Int
    BY <1>1, <1>3
  <2> HIDE DEF I
  <2>2. Cardinality(I) = IF Len(a) - Len(t) + 1 > Len(a) THEN 0
                         ELSE Len(a) - (Len(a) - Len(t) + 1) + 1
    BY <2>1, FS_Interval DEF I
  <2> QED BY <1>1, <1>3, <2>2
<1>6. IsFiniteSet(W) /\ Cardinality(W) \in Nat
  <2>1. W \in SUBSET (1..Len(a)) /\ IsFiniteSet(1..Len(a))
    BY <1>1, <1>2, FS_Interval
  <2> QED BY <2>1, FS_Subset, FS_CardinalityType
<1>7. Cardinality(I) <= Cardinality(W)
  BY <1>4, <1>6, FS_Subset
<1> QED BY <1>3, <1>5, <1>6, <1>7 DEF W

\* A newcomer to a full table: whoever is in it came in the last two windows.
LEMMA TableIsYoung ==
  ASSUME now \in Nat, LimiterInv, NEW c \in Callers, MaxRequests # 0,
         NEW k \in DOMAIN Limiter!Pruned(c), k # c
  PROVE  k \in Callers /\ Limiter!Within(k, now - 2 * RateWindow, now) # {}
<1> DEFINE a == admitted[k]
           t == Limiter!Pruned(c)[k]
<1> USE LimiterConstants
<1>1. /\ k \in Callers /\ t \in Seq(Nat) /\ IsTail(t, a, now - RateWindow)
      /\ k \in DOMAIN Limiter!Swept /\ t = requests[k]
  <2>1. /\ k \in DOMAIN requests /\ t \in Seq(Nat)
        /\ k \in DOMAIN Limiter!Swept /\ t = requests[k]
    BY PrunedTable
  <2>2. k \in Callers
    BY <2>1 DEF LimiterInv, LimiterTypeOK
  <2>3. IsTail(HeldIn(Limiter!Pruned(c), k), a, now - RateWindow)
    BY <2>2, PrunedTable
  <2>4. HeldIn(Limiter!Pruned(c), k) = t
    BY DEF HeldIn
  <2> QED BY <2>1, <2>2, <2>3, <2>4
<1>2. t # <<>> /\ t[Len(t)] > now - 2 * RateWindow
  <2> DEFINE sweep == IF now - lastSweep > RateWindow THEN now ELSE lastSweep
  <2>1. IsYoung(Limiter!Swept, sweep) /\ Limiter!Swept[k] = t
    BY <1>1, SweptYoung
  <2>2. t # <<>> /\ t[Len(t)] > sweep - RateWindow
    BY <1>1, <2>1 DEF IsYoung
  <2>3. sweep \in Int /\ sweep >= now - RateWindow
    BY DEF LimiterInv, LimiterTypeOK
  <2>4. t[Len(t)] \in Nat
    BY <1>1, <2>2
  <2> HIDE DEF sweep, t
  <2> QED BY <2>2, <2>3, <2>4
<1>3. /\ a \in Seq(Nat) /\ Len(a) \in Nat /\ DOMAIN a = 1..Len(a)
      /\ \A i \in 1..Len(a) : a[i] <= now
  BY <1>1 DEF LimiterInv, LimiterTypeOK, SpacedInv
<1> HIDE DEF t, a
<1>4. Len(t) \in 1..Len(t) /\ Len(t) <= Len(a)
  BY <1>1, <1>2 DEF IsTail
<1>5. t[Len(t)] = a[Len(a) - Len(t) + Len(t)] /\ Len(a) - Len(t) + Len(t) = Len(a)
      /\ Len(a) \in 1..Len(a)
  <2>1. \A i \in 1..Len(t) : t[i] = a[Len(a) - Len(t) + i]
    BY <1>1 DEF IsTail
  <2>2. Len(t) \in Nat
    BY <1>1
  <2>3. t[Len(t)] = a[Len(a) - Len(t) + Len(t)]
    BY <1>4, <2>1
  <2>4. Len(a) - Len(t) + Len(t) = Len(a) /\ Len(a) \in 1..Len(a)
    BY <1>3, <1>4, <2>2
  <2> QED BY <2>3, <2>4
<1>6. Len(a) \in Limiter!Within(k, now - 2 * RateWindow, now)
  <2>1. now - 2 * RateWindow < a[Len(a)] /\ a[Len(a)] <= now
    <3>1. a[Len(a)] \in Nat
      BY <1>3, <1>5
    <3> QED BY <1>2, <1>3, <1>5, <3>1
  <2> QED BY <1>3, <1>5, <2>1 DEF Limiter!Within, a
<1> QED BY <1>1, <1>6

LEMMA RefusalStep ==
  ASSUME now \in Nat, LimiterInv, NEW c \in Callers, Limiter!Allow(c)
  PROVE  RefusalIsFair'
<1> DEFINE table == Limiter!Pruned(c)
           times == HeldIn(table, c)
           full  == c \notin DOMAIN table /\ Cardinality(DOMAIN table) >= MaxKeys
           W     == Limiter!Within(c, now - RateWindow, now)
           crowd == {k \in Callers \ {c} : Limiter!Within(k, now - 2 * RateWindow, now) # {}}
<1> USE LimiterConstants
<1>0. now' = now /\ (\/ refused' = {}
                     \/ /\ refused' = {c} /\ admitted' = admitted
                        /\ full \/ Len(times) >= MaxRequests)
  BY AllowMeans
<1>1. CASE refused' = {}
  BY <1>1 DEF RefusalIsFair
<1>2. CASE refused' = {c} /\ admitted' = admitted /\ (full \/ Len(times) >= MaxRequests)
  <2>1. /\ DOMAIN table \subseteq DOMAIN requests
        /\ times \in Seq(Nat) /\ IsTail(times, admitted[c], now - RateWindow)
        /\ \A i \in 1..Len(times) : times[i] > now - RateWindow
    <3>1. <<>> \in Seq(Nat)
      OBVIOUS
    <3> QED BY <3>1, PrunedTable DEF HeldIn
  <2>2. RefusalIsFair' <=> (Cardinality(W) >= MaxRequests \/ (W = {} /\ Cardinality(crowd) >= MaxKeys))
    BY <1>0, <1>2 DEF RefusalIsFair, Limiter!Within
  <2>3. CASE Len(times) >= MaxRequests
    BY <2>1, <2>2, <2>3, AtRate
  <2>4. CASE full /\ MaxRequests = 0
    <3>1. Len(times) >= MaxRequests
      BY <2>1, <2>4
    <3> QED BY <2>1, <2>2, <3>1, AtRate
  <2>5. CASE full /\ MaxRequests # 0
    <3>1. times = <<>>
      BY <2>5 DEF HeldIn
    <3>2. W = {}
      <4>1. admitted[c] \in Seq(Nat)
        BY DEF LimiterInv, LimiterTypeOK
      <4>2. \A i \in 1..Len(admitted[c]) : admitted[c][i] <= now - RateWindow /\ admitted[c][i] \in Nat
        BY <2>1, <3>1, <4>1 DEF IsTail
      <4> QED BY <4>1, <4>2 DEF Limiter!Within
    <3>3. DOMAIN table \in SUBSET crowd
      BY <2>5, TableIsYoung
    <3>4. IsFiniteSet(crowd)
      BY FS_Subset
    <3> HIDE DEF crowd, table
    <3>5. /\ Cardinality(DOMAIN table) <= Cardinality(crowd)
          /\ Cardinality(DOMAIN table) \in Nat /\ Cardinality(crowd) \in Nat
      BY <3>3, <3>4, FS_Subset, FS_CardinalityType
    <3> QED BY <2>2, <2>5, <3>2, <3>5
  <2> QED BY <1>2, <2>3, <2>4, <2>5
<1> QED BY <1>0, <1>1, <1>2

LEMMA LogIdleStep ==
  ASSUME LogInv, now' \in {now, now + 1}, UNCHANGED <<seen, passed, last, before>>
  PROVE  LogInv'
  BY WindowAssumption, CacheAssumption, NoncesAssumption
     DEF LogInv, LogTypeOK, GuardTypeOK, TableInv, StampInv, MessageOnce, Recent, Never

\* The inductive invariant of the door.
DoorInv ==
  /\ LogInv /\ TableIsBounded
  /\ LimiterInv /\ RefusalIsFair
  /\ watched # "rate" => refused = {}

LEMMA DoorInit == ClocksInit => DoorInv
<1> SUFFICES ASSUME ClocksInit PROVE DoorInv
  OBVIOUS
<1> USE LimiterConstants
<1>1. LogInv
  BY LogInitInv DEF ClocksInit
<1>2. TableIsBounded
  BY CacheAssumption, FS_EmptySet DEF ClocksInit, LogInit, GuardInit, TableIsBounded
<1>3. now = 0 /\ lastSweep = -RateWindow - 1 /\ refused = {}
      /\ requests = [c \in {} |-> <<>>] /\ admitted = [c \in Callers |-> <<>>]
  BY DEF ClocksInit, LogInit, GuardInit, Limiter!LimiterInit
<1>4. LimiterTypeOK
  BY <1>3 DEF LimiterTypeOK
<1>5. ASSUME NEW c \in Callers PROVE SpacedInv(c) /\ TailInv(c)
  <2>1. HeldIn(requests, c) = <<>> /\ admitted[c] = <<>> /\ Len(<<>>) = 0
    BY <1>3 DEF HeldIn
  <2> QED BY <2>1 DEF SpacedInv, TailInv, Ascends, IsTail
<1>6. DOMAIN requests = {} /\ IsYoung(requests, lastSweep)
  BY <1>3 DEF IsYoung
<1>7. Cardinality(DOMAIN requests) <= MaxKeys
  BY <1>6, FS_EmptySet
<1>8. LimiterInv
  BY <1>4, <1>5, <1>6, <1>7 DEF LimiterInv
<1> QED BY <1>1, <1>2, <1>3, <1>8 DEF DoorInv, RefusalIsFair

LEMMA DoorStep ==
  ASSUME DoorInv, [ClocksNext]_<<watched, logVars, limiterState, deliveryState>>
  PROVE  DoorInv'
<1>0. now \in Nat
  BY DEF DoorInv, LogInv, LogTypeOK, GuardTypeOK
<1>1. ASSUME UNCHANGED watched, LogNext, UNCHANGED <<limiterState, deliveryState>>, watched = "replay"
      PROVE  DoorInv'
  <2>1. LogInv' /\ TableIsBounded'
    BY <1>1, LetThroughStep, TurnAwayStep, TickStep, TableStep DEF LogNext, DoorInv
  <2>2. now' \in {now, now + 1}
    BY <1>1 DEF LogNext, LetThrough, TurnAway, LogTick
  <2>3. UNCHANGED <<requests, lastSweep, admitted, refused>>
    BY <1>1 DEF limiterState
  <2>4. LimiterInv'
    BY <1>0, <2>2, <2>3, IdleStep DEF DoorInv
  <2> QED BY <1>1, <2>1, <2>3, <2>4 DEF DoorInv, RefusalIsFair
<1>2. ASSUME UNCHANGED watched, Limiter!LimiterNext, UNCHANGED <<seen, passed, last, before, deliveryState>>,
             watched = "rate"
      PROVE  DoorInv'
  <2>1. CASE Limiter!Pass
    <3>1. now' = now + 1 /\ UNCHANGED <<requests, lastSweep, admitted>> /\ refused' = {}
      BY <2>1 DEF Limiter!Pass
    <3>2. LogInv' /\ TableIsBounded'
      BY <1>2, <3>1, LogIdleStep DEF DoorInv, TableIsBounded
    <3>3. LimiterInv'
      BY <1>0, <3>1, IdleStep DEF DoorInv
    <3> QED BY <1>2, <3>1, <3>2, <3>3 DEF DoorInv, RefusalIsFair
  <2>2. ASSUME NEW c \in Callers, Limiter!Allow(c) PROVE DoorInv'
    <3>1. now' = now
      BY <2>2 DEF Limiter!Allow
    <3>2. LogInv' /\ TableIsBounded'
      BY <1>2, <3>1, LogIdleStep DEF DoorInv, TableIsBounded
    <3>3. LimiterInv' /\ RefusalIsFair'
      BY <1>0, <2>2, AllowStep, RefusalStep DEF DoorInv
    <3> QED BY <1>2, <3>2, <3>3 DEF DoorInv
  <2> QED BY <1>2, <2>1, <2>2 DEF Limiter!LimiterNext
<1>3. ASSUME UNCHANGED watched, now' \in {now, now + 1},
             UNCHANGED <<seen, passed, last, before, limiterState>>, watched # "rate" \/ now' = now
      PROVE  DoorInv'
  <2>1. LogInv' /\ TableIsBounded'
    BY <1>3, LogIdleStep DEF DoorInv, TableIsBounded
  <2>2. UNCHANGED <<requests, lastSweep, admitted, refused>>
    BY <1>3 DEF limiterState
  <2>3. LimiterInv'
    BY <1>0, <1>3, <2>2, IdleStep DEF DoorInv
  <2>4. RefusalIsFair'
    <3>1. CASE watched # "rate"
      BY <2>2, <3>1 DEF DoorInv, RefusalIsFair
    <3>2. CASE now' = now
      BY <2>2, <3>2 DEF DoorInv, RefusalIsFair, Limiter!Within
    <3> QED BY <1>3, <3>1, <3>2
  <2> QED BY <1>3, <2>1, <2>2, <2>3, <2>4 DEF DoorInv
<1>4. ASSUME UNCHANGED watched, Delivery!RedeliveryNext,
             UNCHANGED <<seen, passed, last, before, limiterState>>, watched = "grace"
      PROVE  DoorInv'
  <2>1. now' \in {now, now + 1}
    BY <1>4 DEF Delivery!RedeliveryNext, Delivery!PaidRetry, Delivery!HearsPaidRetry,
       Delivery!LosesPaidRetry, Delivery!Poll, Delivery!HearsResend, Delivery!LosesResend,
       Delivery!Refuse, Delivery!Serve, Delivery!Later
  <2> QED BY <1>3, <1>4, <2>1
<1>5. CASE UNCHANGED <<watched, logVars, limiterState, deliveryState>>
  BY <1>3, <1>5 DEF logVars
<1> QED BY <1>1, <1>2, <1>4, <1>5 DEF ClocksNext

THEOREM DoorInvariant == ClocksSpec => []DoorInv
  BY DoorInit, DoorStep, PTL DEF ClocksSpec

\* No caller gets more than its rate in any window, whoever is refused is at its
\* rate or new to a table of callers of the last two windows, and neither the
\* table of callers nor that of nonces outgrows its limit (rate_limiter.py:32).
THEOREM DoorAlwaysFair == ClocksSpec => []DoorIsFair
<1>1. DoorInv => DoorIsFair
  <2> SUFFICES ASSUME DoorInv PROVE DoorIsFair
    OBVIOUS
  <2>1. now \in Nat /\ LimiterInv /\ RefusalIsFair /\ LogTypeOK /\ TableIsBounded
    BY DEF DoorInv, LogInv, LogTypeOK, GuardTypeOK
  <2>2. \A c \in Callers : \A t \in 0..now :
          Limiter!Cardinality(Limiter!Within(c, t - RateWindow, t)) <= MaxRequests
    BY <2>1, RateHolds, SameCount
  <2>3. Limiter!Cardinality(DOMAIN requests) <= MaxKeys
    BY <2>1, SameCount DEF LimiterInv
  <2>4. \A c \in refused :
          \/ Limiter!Cardinality(Limiter!Within(c, now - RateWindow, now)) >= MaxRequests
          \/ /\ Limiter!Within(c, now - RateWindow, now) = {}
             /\ Limiter!Cardinality({k \in Callers \ {c} :
                   Limiter!Within(k, now - 2 * RateWindow, now) # {}}) >= MaxKeys
    BY <2>1, SameCount DEF RefusalIsFair
  <2>5. Limiter!LimiterIsFair
    BY <2>2, <2>3, <2>4 DEF Limiter!LimiterIsFair, Limiter!Cutoff
  <2> QED BY <2>1, <2>5 DEF DoorIsFair
<1> QED BY <1>1, DoorInvariant, PTL

-----------------------------------------------------------------------------
(* The tries of a paid order                                               *)

Tries == [stamp : Nat, at : Nat]

DeliveryTypeOK ==
  /\ now \in Nat /\ retryCount \in Nat /\ updatedAt \in 0..now /\ polledAt \in 0..now
  /\ paidOrder \in {"paying", "retrying", "DELIVERING", "SUCCESS", "FAILED"}
  /\ sent = {} \/ \E s \in Tries : sent = {s}
  /\ reply \in {{}, {"ok"}, {"failed"}, {"refused"}}
  /\ recordedAt = {} \/ \E t \in 0..now : recordedAt = {t}
  /\ delivered \in BOOLEAN /\ answerLost \in BOOLEAN
  /\ chances \in Nat /\ stale \in 0..1

\* Nothing was tried before the paid retry has reached the gateway.
Untried == recordedAt = {} /\ ~delivered /\ chances = 0 /\ stale = 0 /\ retryCount = 0 /\ reply = {}

\* What the order's place says of what is out.
OutInv ==
  /\ paidOrder = "paying" => Untried /\ sent = {}
  /\ paidOrder = "retrying" => (sent # {} /\ Untried) \/ reply # {}
  /\ sent # {} => reply = {}
  /\ paidOrder \in {"SUCCESS", "FAILED"} => sent = {} /\ reply = {}
  /\ \A s \in sent : /\ s.at <= now /\ now <= s.at + SendTimeout
                     /\ paidOrder = "DELIVERING" => s.stamp = s.at
  /\ reply = {"ok"} \/ paidOrder = "SUCCESS" => delivered
  /\ delivered => reply = {"ok"} \/ paidOrder = "SUCCESS" \/ answerLost

\* Before its second chance an order has used up a try for its chance and for
\* its stale stamp at most; it is at the latest so long after it was recorded.
Few == chances <= 1 /\ ~delivered

CountsInv ==
  /\ recordedAt # {} => chances >= 1
  /\ Few => retryCount + (IF reply = {} THEN 0 ELSE 1) <= chances + stale
  /\ paidOrder = "FAILED" => retryCount >= OrderRetries

Longest == IF 4 * OrderBackoff > OrderAge THEN 4 * OrderBackoff ELSE OrderAge + 1

InTime == \A t \in recordedAt :
  /\ updatedAt <= t
  /\ sent = {} => polledAt < t + Longest
  /\ reply # {} => now = t
  /\ \A s \in sent : s.at < t + Longest + PollInterval
  /\ paidOrder = "DELIVERING" /\ sent = {} => now <= polledAt + PollInterval \/ now = t

ChancesInv ==
  /\ DeliveryTypeOK /\ OutInv /\ CountsInv
  /\ Few => InTime

LEMMA DeliveryConstants ==
  /\ OrderAge \in Nat /\ OrderRetries \in Nat /\ ReplayWindow \in Nat /\ Grace \in Nat
  /\ OrderBackoff \in Nat /\ PollInterval \in Nat /\ SendTimeout \in Nat
  /\ OrderBackoff > 0 /\ PollInterval > 0
  /\ SendTimeout <= ReplayWindow /\ OrderRetries >= 3
  /\ Longest \in Nat /\ Longest > OrderAge /\ Longest >= 4 * OrderBackoff
  /\ Longest + PollInterval + SendTimeout <= Grace
  BY ClocksAssumption, ScheduleAssumption DEF Longest

LEMMA SameCountOut == \A S : Delivery!Cardinality(S) = Cardinality(S)
  BY DEF Delivery!Cardinality, Cardinality

LEMMA OneIsOut ==
  ASSUME DeliveryTypeOK
  PROVE  chances + Delivery!Cardinality(sent) = IF sent = {} THEN chances ELSE chances + 1
<1>1. CASE sent = {}
  BY <1>1, SameCountOut, FS_EmptySet DEF DeliveryTypeOK
<1>2. CASE \E s \in Tries : sent = {s}
  <2>1. PICK s : sent = {s}
    BY <1>2
  <2>2. Cardinality({s}) = 1
    BY FS_Singleton
  <2>3. Delivery!Cardinality(sent) = 1
    BY <2>1, <2>2, SameCountOut
  <2> QED BY <2>1, <2>3
<1> QED BY <1>1, <1>2 DEF DeliveryTypeOK

\* An order in one of its first tries is due before the longest of their pauses
\* is over.
LEMMA DueInTime ==
  ASSUME DeliveryTypeOK, retryCount <= 2, ~Delivery!Due
  PROVE  now - updatedAt < Longest
<1> USE DeliveryConstants
<1>1. retryCount \in {0, 1, 2} /\ now \in Nat /\ updatedAt \in Nat /\ OrderBackoff \in Nat
  BY DEF DeliveryTypeOK
<1>2. ~(now - updatedAt >= OrderBackoff * 2 ^ retryCount)
  BY DEF Delivery!Due
<1>3. 2 ^ 0 = 1 /\ 2 ^ 1 = 2 /\ 2 ^ 2 = 4
  OBVIOUS
<1>4. CASE retryCount = 0
  BY <1>1, <1>2, <1>3, <1>4
<1>5. CASE retryCount = 1
  BY <1>1, <1>2, <1>3, <1>5
<1>6. CASE retryCount = 2
  BY <1>1, <1>2, <1>3, <1>6
<1> QED BY <1>1, <1>4, <1>5, <1>6

LEMMA PaidRetryStep == ASSUME ChancesInv, Delivery!PaidRetry PROVE ChancesInv'
<1> USE DeliveryConstants DEF Delivery!PaidRetry, ChancesInv
<1>1. DeliveryTypeOK'
  <2>1. sent' = {[stamp |-> 0, at |-> now]} /\ [stamp |-> 0, at |-> now] \in Tries
    BY DEF DeliveryTypeOK, Tries
  <2> QED BY <2>1 DEF DeliveryTypeOK, Delivery!gateway, Delivery!history
<1>2. OutInv' /\ Untried'
  BY DEF DeliveryTypeOK, OutInv, Untried, Delivery!gateway, Delivery!history
<1>3. CountsInv' /\ (Few => InTime)'
  BY <1>2 DEF DeliveryTypeOK, OutInv, Untried, CountsInv, Few, InTime
<1> QED BY <1>1, <1>2, <1>3

LEMMA HearsPaidRetryStep == ASSUME ChancesInv, Delivery!HearsPaidRetry PROVE ChancesInv'
<1> USE DeliveryConstants DEF Delivery!HearsPaidRetry, ChancesInv, Delivery!gateway, Delivery!history
<1>1. DeliveryTypeOK'
  BY DEF DeliveryTypeOK
<1>2. OutInv'
  BY DEF DeliveryTypeOK, OutInv
<1>3. CountsInv'
  BY DEF DeliveryTypeOK, OutInv, CountsInv, Few
<1>4. (Few => InTime)'
  BY DEF DeliveryTypeOK, OutInv, CountsInv, Few, InTime
<1> QED BY <1>1, <1>2, <1>3, <1>4

LEMMA LosesPaidRetryStep == ASSUME ChancesInv, Delivery!LosesPaidRetry PROVE ChancesInv'
<1> USE DeliveryConstants DEF Delivery!LosesPaidRetry, ChancesInv, Delivery!gateway, Delivery!history
<1>0. /\ sent = {} => chances' = chances
      /\ sent # {} => chances' = chances + 1 /\ reply = {}
  BY OneIsOut DEF OutInv
<1>1. DeliveryTypeOK'
  BY <1>0 DEF DeliveryTypeOK
<1>2. OutInv'
  BY DEF DeliveryTypeOK, OutInv
<1>3. CountsInv'
  BY <1>0 DEF DeliveryTypeOK, OutInv, CountsInv, Few, Untried
<1>4. (Few => InTime)'
  BY <1>0 DEF DeliveryTypeOK, OutInv, CountsInv, Few, InTime, Untried
<1> QED BY <1>1, <1>2, <1>3, <1>4

LEMMA PollStep == ASSUME ChancesInv, Delivery!Poll PROVE ChancesInv'
<1> USE DeliveryConstants DEF Delivery!Poll, ChancesInv, Delivery!gateway, Delivery!history,
        Delivery!Quiet, Delivery!Stamp
<1>0. /\ sent = {} /\ reply = {}
      /\ UNCHANGED <<now, retryCount, updatedAt, reply, recordedAt, delivered, chances, stale, answerLost>>
      /\ polledAt' = now
      /\ \/ paidOrder' = paidOrder /\ sent' = {}
         \/ paidOrder = "DELIVERING" /\ retryCount >= OrderRetries /\ paidOrder' = "FAILED" /\ sent' = {}
         \/ paidOrder = "DELIVERING" /\ paidOrder' = paidOrder /\ sent' = {[stamp |-> now, at |-> now]}
  OBVIOUS
<1>1. DeliveryTypeOK'
  <2>1. [stamp |-> now, at |-> now] \in Tries
    BY DEF DeliveryTypeOK, Tries
  <2> QED BY <1>0, <2>1 DEF DeliveryTypeOK
<1>2. OutInv'
  <2>1. \A s \in sent' : s.at = now /\ s.stamp = now
    BY <1>0
  <2> QED BY <1>0, <2>1 DEF DeliveryTypeOK, OutInv, Untried
<1>3. CountsInv'
  BY <1>0 DEF DeliveryTypeOK, CountsInv, Few
<1>4. ASSUME Few' PROVE InTime'
  <2>1. Few /\ InTime /\ retryCount <= 2
    BY <1>0, <1>4 DEF Few, CountsInv, DeliveryTypeOK
  <2> SUFFICES ASSUME NEW t \in recordedAt
               PROVE  /\ updatedAt <= t
                      /\ sent' = {} => now < t + Longest
                      /\ \A s \in sent' : s.at < t + Longest + PollInterval
    BY <1>0, DeliveryConstants DEF InTime, DeliveryTypeOK
  <2>2. t \in Nat /\ t <= now /\ updatedAt <= t /\ polledAt < t + Longest /\ now \in Nat /\ updatedAt \in Nat
        /\ polledAt \in Nat
    BY <1>0, <2>1 DEF InTime, DeliveryTypeOK
  <2>3. paidOrder = "DELIVERING"
    <3>1. paidOrder # "paying"
      BY DEF OutInv, Untried
    <3>2. paidOrder # "retrying"
      BY <1>0
    <3>3. paidOrder # "SUCCESS"
      BY <2>1 DEF OutInv, Few
    <3>4. paidOrder # "FAILED"
      BY <2>1 DEF CountsInv, DeliveryTypeOK
    <3> QED BY <3>1, <3>2, <3>3, <3>4 DEF DeliveryTypeOK
  <2>4. now <= polledAt + PollInterval \/ now = t
    BY <1>0, <2>1, <2>3 DEF InTime
  <2>5. ASSUME sent' = {} PROVE now < t + Longest
    <3>1. ~(now - updatedAt > OrderAge) \/ ~Delivery!Due
      <4>1. ~(retryCount >= OrderRetries) /\ {[stamp |-> now, at |-> now]} # {}
        BY <2>1 DEF DeliveryTypeOK
      <4> QED BY <2>3, <2>5, <4>1
    <3>2. now - updatedAt < Longest
      BY <2>1, <2>2, <3>1, DueInTime
    <3> QED BY <2>2, <3>2
  <2>6. \A s \in sent' : s.at = now
    BY <1>0
  <2> QED BY <2>2, <2>4, <2>5, <2>6
<1> QED BY <1>1, <1>2, <1>3, <1>4

LEMMA HearsResendStep == ASSUME ChancesInv, Delivery!HearsResend PROVE ChancesInv'
<1> USE DeliveryConstants DEF Delivery!HearsResend, ChancesInv, Delivery!gateway, Delivery!history
<1>1. DeliveryTypeOK'
  BY DEF DeliveryTypeOK
<1>2. OutInv'
  BY DEF DeliveryTypeOK, OutInv
<1>3. CountsInv'
  BY DEF DeliveryTypeOK, OutInv, CountsInv, Few
<1>4. (Few => InTime)'
  BY DEF DeliveryTypeOK, OutInv, CountsInv, Few, InTime
<1> QED BY <1>1, <1>2, <1>3, <1>4

LEMMA LosesResendStep == ASSUME ChancesInv, Delivery!LosesResend PROVE ChancesInv'
<1> USE DeliveryConstants DEF Delivery!LosesResend, ChancesInv, Delivery!gateway, Delivery!history
<1>0. /\ sent = {} => chances' = chances /\ reply # {}
      /\ sent # {} => chances' = chances + 1 /\ reply = {}
  BY OneIsOut DEF OutInv
<1>1. DeliveryTypeOK'
  BY <1>0 DEF DeliveryTypeOK
<1>2. OutInv'
  BY DEF DeliveryTypeOK, OutInv
<1>3. CountsInv'
  BY <1>0 DEF DeliveryTypeOK, OutInv, CountsInv, Few
<1>4. (Few => InTime)'
  BY <1>0 DEF DeliveryTypeOK, OutInv, CountsInv, Few, InTime
<1> QED BY <1>1, <1>2, <1>3, <1>4

\* A re-send is answered while its stamp is fresh; before the second chance it
\* meets the transaction within its grace.
LEMMA RefuseStep == ASSUME ChancesInv, Delivery!Refuse PROVE ChancesInv'
<1> USE DeliveryConstants DEF ChancesInv, Delivery!buyer, Delivery!gateway
<1>0. PICK s \in sent :
        /\ Delivery!TooOld(s) \/ ~Delivery!Open
        /\ stale' = stale + (IF Delivery!TooOld(s) THEN 1 ELSE 0)
        /\ sent' = {} /\ reply' = {"refused"}
        /\ UNCHANGED <<now, paidOrder, retryCount, updatedAt, polledAt, recordedAt, delivered, chances, answerLost>>
  BY DEF Delivery!Refuse
<1>1. sent = {s} /\ s \in Tries /\ reply = {} /\ now <= s.at + SendTimeout /\ s.at \in Nat /\ now \in Nat
      /\ paidOrder \in {"retrying", "DELIVERING"}
  BY DEF DeliveryTypeOK, OutInv, Tries
<1>2. CASE paidOrder = "retrying"
  <2>1. Untried /\ Delivery!TooOld(s) /\ stale' = 1
    BY <1>0, <1>1, <1>2 DEF OutInv, Untried, Delivery!Open
  <2>2. DeliveryTypeOK'
    BY <1>0, <2>1 DEF DeliveryTypeOK
  <2>3. OutInv'
    BY <1>0, <1>2, <2>1 DEF OutInv, DeliveryTypeOK, Untried
  <2>4. CountsInv' /\ InTime'
    BY <1>0, <1>2, <2>1 DEF Untried, CountsInv, InTime, Few
  <2> QED BY <2>2, <2>3, <2>4
<1>3. CASE paidOrder = "DELIVERING"
  <2>1. ~Delivery!TooOld(s)
    BY <1>1, <1>3 DEF Delivery!TooOld, OutInv
  <2>2. stale' = stale /\ ~Delivery!Open
    BY <1>0, <2>1 DEF DeliveryTypeOK
  <2>3. ~Few
    <3> SUFFICES ASSUME Few PROVE FALSE
      OBVIOUS
    <3>1. PICK t \in recordedAt : ~(now - t <= Grace)
      BY <2>2 DEF Few, Delivery!Open
    <3>2. s.at < t + Longest + PollInterval /\ t \in Nat
      BY <1>1, <3>1 DEF InTime, DeliveryTypeOK
    <3> QED BY <1>1, <3>1, <3>2
  <2>4. ~Few'
    BY <1>0, <2>3 DEF Few
  <2>5. DeliveryTypeOK'
    BY <1>0, <2>2 DEF DeliveryTypeOK
  <2>6. OutInv'
    BY <1>0, <1>1, <1>3 DEF OutInv, DeliveryTypeOK
  <2>7. CountsInv'
    BY <1>0, <1>3, <2>4 DEF CountsInv
  <2> QED BY <2>4, <2>5, <2>6, <2>7
<1> QED BY <1>1, <1>2, <1>3

LEMMA ServeStep == ASSUME ChancesInv, Delivery!Serve PROVE ChancesInv'
<1> USE DeliveryConstants DEF ChancesInv, Delivery!buyer
<1>0. /\ sent # {} /\ Delivery!Open
      /\ recordedAt' = IF recordedAt = {} THEN {now} ELSE recordedAt
      /\ delivered' \in BOOLEAN
      /\ reply' = {IF delivered' THEN "ok" ELSE "failed"}
      /\ sent' = {} /\ chances' = chances + 1
      /\ UNCHANGED <<now, paidOrder, retryCount, updatedAt, polledAt, stale, answerLost>>
  BY DEF Delivery!Serve
<1>1. ~delivered /\ reply = {} /\ paidOrder \in {"retrying", "DELIVERING"}
  BY <1>0 DEF Delivery!Open, OutInv, DeliveryTypeOK
<1>2. DeliveryTypeOK'
  BY <1>0 DEF DeliveryTypeOK
<1>3. OutInv'
  BY <1>0, <1>1 DEF OutInv, DeliveryTypeOK
<1>4. CountsInv'
  BY <1>0, <1>1 DEF CountsInv, DeliveryTypeOK, Few
<1>5. ASSUME Few' PROVE InTime'
  <2>1. chances = 0 /\ recordedAt = {} /\ recordedAt' = {now}
    BY <1>0, <1>1, <1>5 DEF Few, CountsInv, DeliveryTypeOK
  <2> QED BY <1>0, <2>1 DEF InTime, DeliveryTypeOK
<1> QED BY <1>2, <1>3, <1>4, <1>5

LEMMA LaterStep ==
  ASSUME ChancesInv, now' \in {now, now + 1}, UNCHANGED deliveryState,
         Delivery!Later \/ paidOrder = "paying" \/ now' = now
  PROVE  ChancesInv'
<1> USE DeliveryConstants DEF ChancesInv, deliveryState
<1>1. now \in Nat /\ now' \in Nat
  BY DEF DeliveryTypeOK
<1>2. CASE now' = now
  BY <1>2 DEF DeliveryTypeOK, OutInv, Untried, CountsInv, Few, InTime
<1>3. CASE now' = now + 1 /\ (Delivery!Later \/ paidOrder = "paying")
  <2>1. DeliveryTypeOK'
    BY <1>3 DEF DeliveryTypeOK
  <2>2. /\ reply = {}
        /\ \A s \in sent : now - s.at < SendTimeout
        /\ paidOrder = "DELIVERING" /\ sent = {} => now < polledAt + PollInterval
    BY <1>1, <1>3 DEF Delivery!Later, OutInv, Untried
  <2>3. \A s \in sent : s.at \in Nat
    BY DEF DeliveryTypeOK, Tries
  <2>4. OutInv'
    BY <1>1, <1>3, <2>2, <2>3 DEF OutInv, Untried
  <2>5. CountsInv'
    BY DEF CountsInv, Few
  <2>6. (Few => InTime)'
    BY <1>1, <1>3, <2>2 DEF Few, InTime, DeliveryTypeOK
  <2> QED BY <2>1, <2>4, <2>5, <2>6
<1> QED BY <1>1, <1>2, <1>3

\* The inductive invariant of the order.
TriesInv == ChancesInv /\ (watched # "grace" => paidOrder = "paying")

LEMMA TriesInit == ClocksInit => TriesInv
<1> SUFFICES ASSUME ClocksInit PROVE TriesInv
  OBVIOUS
<1>1. /\ now = 0 /\ updatedAt = 0 /\ polledAt = 0 /\ retryCount = 0 /\ chances = 0 /\ stale = 0
      /\ paidOrder = "paying" /\ sent = {} /\ reply = {} /\ recordedAt = {}
      /\ delivered = FALSE /\ answerLost = FALSE
  BY DEF ClocksInit, LogInit, GuardInit, Delivery!RedeliveryInit
<1>2. DeliveryTypeOK
  <2>1. reply \in {{}, {"ok"}, {"failed"}, {"refused"}}
    BY <1>1
  <2>2. updatedAt \in 0..now /\ polledAt \in 0..now /\ stale \in 0..1
    BY <1>1
  <2>3. delivered \in BOOLEAN /\ answerLost \in BOOLEAN
    BY <1>1
  <2> QED BY <1>1, <2>1, <2>2, <2>3 DEF DeliveryTypeOK
<1>3. OutInv /\ InTime
  BY <1>1 DEF OutInv, Untried, InTime
<1>4. CountsInv
  BY <1>1 DEF CountsInv
<1> QED BY <1>1, <1>2, <1>3, <1>4 DEF TriesInv, ChancesInv

LEMMA TriesStep ==
  ASSUME TriesInv, [ClocksNext]_<<watched, logVars, limiterState, deliveryState>>
  PROVE  TriesInv'
<1>1. ASSUME watched' = watched, now' \in {now, now + 1}, UNCHANGED deliveryState,
             watched # "grace" \/ now' = now
      PROVE  TriesInv'
  BY <1>1, LaterStep DEF TriesInv, deliveryState
<1>2. ASSUME LogNext PROVE now' \in {now, now + 1}
  BY <1>2 DEF LogNext, LetThrough, TurnAway, LogTick
<1>3. ASSUME Limiter!LimiterNext PROVE now' \in {now, now + 1}
  BY <1>3 DEF Limiter!LimiterNext, Limiter!Pass, Limiter!Allow
<1>4. ASSUME watched' = watched, watched = "grace", Delivery!RedeliveryNext
      PROVE  TriesInv'
  <2>1. ASSUME Delivery!Later PROVE ChancesInv'
    <3>1. now' = now + 1 /\ UNCHANGED deliveryState
      BY <2>1 DEF Delivery!Later, deliveryState, Delivery!buyer, Delivery!gateway, Delivery!history
    <3> QED BY <2>1, <3>1, LaterStep DEF TriesInv
  <2>2. ChancesInv'
    BY <1>4, <2>1, PaidRetryStep, HearsPaidRetryStep, LosesPaidRetryStep, PollStep, HearsResendStep,
       LosesResendStep, RefuseStep, ServeStep
       DEF Delivery!RedeliveryNext, TriesInv
  <2> QED BY <1>4, <2>2 DEF TriesInv
<1>5. CASE UNCHANGED <<watched, logVars, limiterState, deliveryState>>
  BY <1>1, <1>5 DEF logVars
<1>6. CASE ClocksNext
  BY <1>1, <1>2, <1>3, <1>4, <1>6 DEF ClocksNext
<1> QED BY <1>5, <1>6

\* A paid order that is given up although its work was never done had two tries
\* that were lost or that could be served; one given up after its work had its
\* answer lost; and no more than the paid retry is refused for its stamp. That
\* is so however long the payment takes (delivery_worker.py:134).
THEOREM ChancesAreEnough == ASSUME MinChances <= 2 PROVE ClocksSpec => []EnoughChances
<1>1. TriesInv => EnoughChances
  <2> SUFFICES ASSUME TriesInv PROVE EnoughChances
    OBVIOUS
  <2>1. DeliveryTypeOK /\ OutInv /\ CountsInv
    BY DEF TriesInv, ChancesInv
  <2>2. ASSUME paidOrder = "FAILED", ~delivered PROVE chances >= MinChances
    <3>1. MinChances \in Nat
      BY ClocksAssumption
    <3>2. ASSUME chances <= 1 PROVE FALSE
      BY <2>1, <2>2, <3>2, DeliveryConstants DEF CountsInv, OutInv, Few, DeliveryTypeOK
    <3> QED BY <2>1, <3>1, <3>2 DEF DeliveryTypeOK
  <2>3. paidOrder = "FAILED" /\ delivered => answerLost
    BY <2>1 DEF OutInv
  <2>4. stale <= 1
    BY <2>1 DEF DeliveryTypeOK
  <2> QED BY <2>2, <2>3, <2>4 DEF EnoughChances, Delivery!EnoughChances
<1>2. TriesInv /\ [ClocksNext]_<<watched, logVars, limiterState, deliveryState>> => TriesInv'
  BY TriesStep
<1> QED BY <1>1, <1>2, TriesInit, PTL DEF ClocksSpec
=============================================================================
