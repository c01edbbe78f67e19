------------------------------ MODULE SolanaPay -----------------------------
(***************************************************************************)
(* SolanaAdapter.pay for concurrent payments that share one adapter: one   *)
(* RPC client, one endpoint manager.  A payment fetches a blockhash, signs *)
(* once, sends and waits for confirmation; each of the first two goes      *)
(* through retry_with_backoff and, when that gives up, through one         *)
(* failover.  The failover replaces the client that the other payments are *)
(* using.  The seller looks at a payment it was told of with an adapter of *)
(* its own (verify_payment); its price is above zero.                      *)
(*                                                                         *)
(* The cluster is external: it may take a transaction whose submission was *)
(* seen to fail, execute it late, or never.  Time is left out: wait_for    *)
(* ends every call, so a call may fail at any moment.                      *)
(***************************************************************************)
EXTENDS Integers, FiniteSetsExt

CONSTANTS
  Pays,         \* the calls of pay
  LastIndex,    \* the endpoints are numbered 0..LastIndex; 1 with a backup, or 0
  MaxRetries,   \* max_rpc_retries
  MaxSigns,     \* bound: transactions signed by one call (TypeOK; the code signs one)
  MaxQueries    \* bound: calls of check_balance

ASSUME PaysAssumption  == IsFiniteSet(Pays)
ASSUME IndexAssumption == LastIndex \in {0, 1}
ASSUME BoundAssumption == {MaxRetries, MaxQueries} \subseteq Nat /\ MaxSigns \in Nat \ {0}

VARIABLES
  pc,           \* where each payment is
  tries,        \* failed attempts in its present loop
  calling,      \* the client its RPC call in flight was made on, 0: no call
  signed,       \* transactions it has signed
  chain,        \* what the cluster did with each transaction <<pay, number>>
  index,        \* MultiEndpointClient._current_index
  client,       \* _client: its number and the endpoint it is connected to
  queries,      \* calls of check_balance so far
  verdict,      \* what verify_payment told the seller of each payment
  tried,        \* history: attempts to send, by endpoint
  lost,         \* history: a submission of this payment had no answer
  overtaken     \* history: another's failover replaced the client it was using

link == <<index, client>>
told == <<queries, verdict>>
vars == <<pc, tries, calling, signed, chain, link, told, tried, lost, overtaken>>

Loops == {"blockhash", "send"}
\* The one call on the new endpoint that follows a loop's failover.
Finals == {"blockhash_backup", "send_backup"}
\* What PaymentResult reports: confirmed, unconfirmed (success, with the hash),
\* rejected (no success, with the hash), failed (no success, no hash).
Results == {"confirmed", "unconfirmed", "rejected", "failed"}
Places == {"idle", "ata", "confirm"} \cup Loops \cup Finals \cup Results

Sending(p) == pc[p] \in {"send", "send_backup"}
Tx(p)      == <<p, signed[p]>>
Txs        == Pays \X (1..MaxSigns)
Final_Blockhash(loop) == "blockhash_backup"
Final(loop) == IF loop = "blockhash" THEN "blockhash_backup" ELSE "send_backup"

Goto(p, place) == pc' = [pc EXCEPT ![p] = place]

Reconnect(i) == client' = [number |-> client.number + 1, endpoint |-> i]

CanFailover == index < LastIndex

\* MultiEndpointClient.failover and _reconnect_client, which closes the client
\* that everybody was using.
Failover_Keeps(users) ==
  /\ CanFailover
  /\ index' = index + 1
  /\ overtaken' = overtaken \cup users
  /\ UNCHANGED client
Failover(users) ==
  /\ CanFailover
  /\ index' = index + 1
  /\ Reconnect(index + 1)
  /\ overtaken' = overtaken \cup users

Users == {p \in Pays : pc[p] \notin {"idle"} \cup Results}

-----------------------------------------------------------------------------

Start(p) ==
  /\ pc[p] = "idle"
  /\ Goto(p, "ata")
  /\ UNCHANGED <<tries, calling, signed, chain, link, told, tried, lost, overtaken>>

\* The look at the recipient's token account; its errors are only logged.
CheckAta(p) ==
  /\ pc[p] = "ata"
  /\ Goto(p, "blockhash")
  /\ UNCHANGED <<tries, calling, signed, chain, link, told, tried, lost, overtaken>>

\* An attempt reads self._client when it begins.
Call(p) ==
  /\ pc[p] \in Loops \cup Finals /\ calling[p] = 0
  /\ calling' = [calling EXCEPT ![p] = client.number]
  /\ tried' = IF Sending(p)
              THEN [tried EXCEPT ![p][client.endpoint] = @ + 1] ELSE tried
  /\ UNCHANGED <<pc, tries, signed, chain, link, told, lost, overtaken>>

\* The cluster takes a transaction that was sent to it, once.
Accept(p) ==
  /\ Sending(p) /\ calling[p] # 0
  /\ chain[Tx(p)] = "none"
  /\ chain' = [chain EXCEPT ![Tx(p)] = "accepted"]
  /\ UNCHANGED <<pc, tries, calling, signed, link, told, tried, lost, overtaken>>

Execute(t) ==
  /\ chain[t] = "accepted"
  /\ \E outcome \in {"landed", "rejected"} : chain' = [chain EXCEPT ![t] = outcome]
  /\ UNCHANGED <<pc, tries, calling, signed, link, told, tried, lost, overtaken>>

Answered(p) == calling[p] = client.number

\* With the blockhash the transaction is built and signed; the same one is sent
\* by every attempt.
GotBlockhash(p) ==
  /\ pc[p] \in {"blockhash", "blockhash_backup"} /\ Answered(p)
  /\ calling' = [calling EXCEPT ![p] = 0]
  /\ signed' = [signed EXCEPT ![p] = @ + 1]
  /\ tries' = [tries EXCEPT ![p] = 0]
  /\ Goto(p, "send")
  /\ UNCHANGED <<chain, link, told, tried, lost, overtaken>>

\* The endpoint answers with the hash.  reset() sets the index back to the
\* primary; the client stays on the endpoint it is connected to.
Sent(p) ==
  /\ Sending(p) /\ Answered(p)
  /\ chain[Tx(p)] # "none"
  /\ calling' = [calling EXCEPT ![p] = 0]
  /\ index' = 0
  /\ Goto(p, "confirm")
  /\ UNCHANGED <<tries, signed, chain, client, told, tried, lost, overtaken>>

\* An attempt fails: timeout, network, refusal, or its client was closed.
CallLost(p) ==
  /\ calling[p] # 0
  /\ calling' = [calling EXCEPT ![p] = 0]
  /\ lost' = IF Sending(p) /\ chain[Tx(p)] # "none" THEN lost \cup {p} ELSE lost

AttemptFails_OneMore(p) ==
  /\ pc[p] \in Loops /\ tries[p] <= MaxRetries
  /\ CallLost(p)
  /\ tries' = [tries EXCEPT ![p] = @ + 1]
  /\ UNCHANGED <<pc, signed, chain, link, told, tried, overtaken>>
AttemptFails_Uncounted(p) ==
  /\ pc[p] \in Loops /\ tries[p] < MaxRetries
  /\ CallLost(p)
  /\ UNCHANGED <<pc, tries, signed, chain, link, told, tried, overtaken>>
AttemptFails(p) ==
  /\ pc[p] \in Loops /\ tries[p] < MaxRetries
  /\ CallLost(p)
  /\ tries' = [tries EXCEPT ![p] = @ + 1]
  /\ UNCHANGED <<pc, signed, chain, link, told, tried, overtaken>>

\* retry_with_backoff raises: one call on the backup, with a client of its own.
LoopFails(p) ==
  /\ pc[p] \in Loops /\ tries[p] = MaxRetries
  /\ CallLost(p) /\ Failover(Users \ {p})
  /\ Goto(p, Final(pc[p]))
  /\ UNCHANGED <<tries, signed, chain, told, tried>>

GivesUp_Early(p) ==
  /\ \/ pc[p] \in Loops /\ ~CanFailover
     \/ pc[p] \in Finals
  /\ CallLost(p)
  /\ Goto(p, "failed")
  /\ UNCHANGED <<tries, signed, chain, link, told, tried, overtaken>>
GivesUp(p) ==
  /\ \/ pc[p] \in Loops /\ tries[p] = MaxRetries /\ ~CanFailover
     \/ pc[p] \in Finals
  /\ CallLost(p)
  /\ Goto(p, "failed")
  /\ UNCHANGED <<tries, signed, chain, link, told, tried, overtaken>>

\* Confirmation: an answer once the transaction was executed, or none in time.  Of
\* a transaction that failed, the code looks for an err on the answer's value; where
\* the RPC library's value has no such field (a list of statuses has none), it takes
\* the failed transaction for a confirmed one.
Confirm_Assumed(p) ==
  /\ pc[p] = "confirm"
  /\ Goto(p, "confirmed")
  /\ UNCHANGED <<tries, calling, signed, chain, link, told, tried, lost, overtaken>>
Confirm(p) ==
  /\ pc[p] = "confirm"
  /\ \/ chain[Tx(p)] \in {"landed", "rejected"} /\ Goto(p, "confirmed")
     \/ chain[Tx(p)] = "rejected" /\ Goto(p, "rejected")
     \/ Goto(p, "unconfirmed")
  /\ UNCHANGED <<tries, calling, signed, chain, link, told, tried, lost, overtaken>>

\* The token balances before and after that the payer paid and the recipient got
\* the price; those of a transaction that failed show neither.
ShowsTransfer(t) == chain[t] = "landed"

\* A seller who was sent the hash looks for the transaction, up to five times.  It
\* may stay invisible, be unlike the payment asked for, or the call may raise.
VerifyPayment(p) ==
  /\ pc[p] \in {"confirmed", "unconfirmed"} /\ verdict[p] = "none"
  /\ \E v \in {"paid", "refused"} :
       /\ v = "paid" => ShowsTransfer(Tx(p))
       /\ verdict' = [verdict EXCEPT ![p] = v]
  /\ UNCHANGED <<pc, tries, calling, signed, chain, link, queries, tried, lost, overtaken>>

\* check_balance fails on the present endpoint, moves to the next and tries
\* there; whatever comes of it, the adapter stays there.
CheckBalance ==
  /\ queries < MaxQueries
  /\ queries' = queries + 1
  /\ Failover(Users)
  /\ UNCHANGED <<pc, tries, calling, signed, chain, verdict, tried, lost>>

Init ==
  /\ pc = [p \in Pays |-> "idle"]
  /\ tries = [p \in Pays |-> 0]
  /\ calling = [p \in Pays |-> 0]
  /\ signed = [p \in Pays |-> 0]
  /\ chain = [t \in Txs |-> "none"]
  /\ index = 0
  /\ client = [number |-> 1, endpoint |-> 0]
  /\ queries = 0 /\ verdict = [p \in Pays |-> "none"]
  /\ tried = [p \in Pays |-> [e \in 0..LastIndex |-> 0]]
  /\ lost = {} /\ overtaken = {}

Step(p) ==
  \/ Start(p) \/ CheckAta(p) \/ Call(p) \/ GotBlockhash(p) \/ Sent(p)
  \/ AttemptFails(p) \/ LoopFails(p) \/ GivesUp(p) \/ Confirm(p)

Next ==
  \/ \E p \in Pays : Step(p) \/ Accept(p) \/ VerifyPayment(p)
  \/ \E t \in Txs : Execute(t)
  \/ CheckBalance

\* Every call is under wait_for and every loop is bounded: what has begun goes
\* on.  Nothing is asked of the cluster.
Fairness == \A p \in Pays : WF_vars(Step(p) /\ pc[p] # "idle")

Spec == Init /\ [][Next]_vars /\ Fairness

-----------------------------------------------------------------------------

TypeOK ==
  /\ pc \in [Pays -> Places]
  /\ tries \in [Pays -> 0..MaxRetries]
  /\ calling \in [Pays -> 0..client.number]
  /\ signed \in [Pays -> 0..MaxSigns]
  /\ chain \in [Txs -> {"none", "accepted", "landed", "rejected"}]
  /\ index \in 0..LastIndex
  /\ client \in [number : Nat \ {0}, endpoint : 0..LastIndex]
  /\ queries \in 0..MaxQueries
  /\ verdict \in [Pays -> {"none", "paid", "refused"}]
  /\ tried \in [Pays -> [0..LastIndex -> Nat]]
  /\ lost \subseteq Pays /\ overtaken \subseteq Pays

\* However often a payment is sent, and over whatever endpoints, at most one
\* transaction of it lands: attempts repeat the signed transaction and never
\* sign another (solana_adapter.py:266-330).
LandsAtMostOnce ==
  \A p \in Pays : Cardinality({t \in Txs : t[1] = p /\ chain[t] \in {"accepted", "landed"}}) <= 1

\* What pay tells its caller against what the cluster has: a success was
\* submitted, and is final if it says confirmed, though it may have failed there;
\* a reported rejection did not land; a failure without hash may stand for a
\* payment that lands only if the answer to a submission was lost.  And whatever
\* the buyer was told, the seller takes for paid only what has landed.
ReportIsHonest ==
  \A p \in Pays :
    /\ pc[p] = "confirmed"   => chain[Tx(p)] \in {"landed", "rejected"}
    /\ pc[p] = "unconfirmed" => chain[Tx(p)] # "none"
    /\ pc[p] = "rejected"    => chain[Tx(p)] = "rejected"
    /\ pc[p] = "failed" /\ signed[p] > 0 /\ chain[Tx(p)] # "none" => p \in lost
    /\ verdict[p] = "paid"   => chain[Tx(p)] = "landed"

\* A signed payment gives up only after all attempts of its loop, and after one on
\* the backup unless another's failover took the client from under it: then it may
\* fail with a working endpoint left untried (solana_adapter.py:318-330).
GivesUpExhausted ==
  \A p \in Pays :
    pc[p] = "failed" /\ signed[p] > 0 =>
      /\ SumFunctionOnSet(tried[p], 0..LastIndex) >= MaxRetries + 1
      /\ tried[p][LastIndex] > 0 \/ p \in overtaken

\* The index tells the truth about the client, or names the primary while the
\* client is still on the backup; it never names an endpoint nobody connected to.
IndexIsBehind == index \in {0, client.endpoint}

\* Every payment ends, however the endpoints behave.
EveryPayEnds == \A p \in Pays : pc[p] = "ata" ~> pc[p] \in Results

\* A payment lands once at most, and what its caller is told of it is as true as
\* the cluster's answers allow (solana_adapter.py:266-390).
PaymentIsHonest == LandsAtMostOnce /\ ReportIsHonest

\* Nothing is given up that an endpoint could still take, but for an overtaking
\* failover, and the index never points at a stranger (solana_adapter.py:80-120).
EndpointsAreTried == TypeOK /\ GivesUpExhausted /\ IndexIsBehind
=============================================================================
