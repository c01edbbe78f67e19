------------------------------- MODULE TsFetch -------------------------------
(***************************************************************************)
(* The TypeScript client: createX402Fetch around a fetch, an               *)
(* InMemoryWallet that several instances may share, and a payment provider *)
(* (the mock, or @ag402/solana).  One thread runs it all, so a call is     *)
(* interrupted only where it awaits: its first request, the provider, the  *)
(* paid retry.  The timer that ends the wait for the provider does not end *)
(* the provider, which goes on and may broadcast after the deduction was   *)
(* rolled back.                                                            *)
(*                                                                         *)
(* Prices are in quarters of a micro-dollar, the wallet and the budget     *)
(* keep whole ones: Micro is the Math.round between them.                  *)
(***************************************************************************)
EXTENDS Integers, Sequences, FiniteSetsExt

CONSTANTS
  Calls, Instances,
  InstanceOf,       \* the createX402Fetch instance a call is made on
  Solana,           \* the instances with the Solana provider; the others have the mock
  Offers,           \* what servers ask for: [chain, token, price], where price 0
                    \* stands for an amount that parseAmount refuses
  AcceptedChains, AcceptedTokens, MaxAmountPerCall, MaxTotalSpend,  \* X402Config
  Funds,            \* the wallet's first balance, in micro-dollars
  Deposits          \* bound: the deposits made later, in micro-dollars

ASSUME CallsAssumption == /\ IsFiniteSet(Calls) /\ Calls # {} /\ IsFiniteSet(Instances)
                          /\ InstanceOf \in [Calls -> Instances]
ASSUME OffersAssumption == \A o \in Offers : o.price \in Nat
ASSUME ConfigAssumption == /\ AcceptedChains # {} /\ AcceptedTokens # {}
                           /\ MaxAmountPerCall \in Nat \ {0}
                           /\ MaxTotalSpend \in Nat \ {0}
                           /\ Funds \in Nat
                           /\ Deposits \subseteq Nat \ {0} /\ IsFiniteSet(Deposits)

VARIABLES
  balance,      \* of the wallet
  tx,           \* the wallet's transaction of a call
  spent,        \* totalSpentMicro of an instance
  pc,           \* where a call is
  offer,        \* {} or the challenge it pays
  meta,         \* what its caller was told
  job,          \* how far the provider is with it
  chain,        \* the transfer on the cluster
  cause,        \* why its deduction was rolled back
  deposited,    \* the deposits made so far
  peak          \* history: the most payments an instance had in flight

vars == <<balance, tx, spent, pc, offer, meta, job, chain, cause, deposited, peak>>

\* The recipient's account, the payer's and the blockhash are had one after the
\* other, a failure of each is a failure to prepare.
Stages == <<"preparing", "sending", "confirming">>
Jobs == {"none", "mock", "invalid", "resolved", "thrown"}
          \union {Stages[s] : s \in DOMAIN Stages}

Micro(p) == (p + 2) \div 4
Price(c) == IF offer[c] = {} THEN 0 ELSE (CHOOSE o \in offer[c] : TRUE).price
Cost(c)  == Micro(Price(c))
Total(C) == SumFunctionOnSet([c \in Calls |-> Cost(c)], C)

InFlight(i) == {c \in Calls : InstanceOf[c] = i /\ pc[c] = "paying"}

-----------------------------------------------------------------------------
Tell(c, m) == pc' = [pc EXCEPT ![c] = "done"] /\ meta' = [meta EXCEPT ![c] = m]

Request(c) ==
  /\ pc[c] = "idle"
  /\ pc' = [pc EXCEPT ![c] = "requesting"]
  /\ UNCHANGED <<balance, tx, spent, offer, meta, job, chain, cause, deposited, peak>>

\* Not a 402, a 402 without an x402 challenge, or a network that fails.
PassThrough(c) ==
  /\ pc[c] = "requesting"
  /\ \E m \in {"passed", "raised"} : Tell(c, m)
  /\ UNCHANGED <<balance, tx, spent, offer, job, chain, cause, deposited, peak>>

Accepted_Stale(i, o) ==
  /\ o.price > 0
  /\ o.chain \in AcceptedChains /\ o.token \in AcceptedTokens
  /\ o.price <= MaxAmountPerCall
  /\ spent[i] <= Micro(MaxTotalSpend)

\* The challenge is within the configuration and the budget of the instance.
Accepted(i, o) ==
  /\ o.price > 0
  /\ o.chain \in AcceptedChains /\ o.token \in AcceptedTokens
  /\ o.price <= MaxAmountPerCall
  /\ spent[i] + Micro(o.price) <= Micro(MaxTotalSpend)

CanDeduct_Unchecked(o) == o.price > 0

\* deduct: the amount as a number is positive, in micro-dollars it may be 0.
CanDeduct(o) == o.price > 0 /\ balance >= Micro(o.price)

Block(c, o) ==
  /\ pc[c] = "requesting"
  /\ ~(Accepted(InstanceOf[c], o) /\ CanDeduct(o))
  /\ Tell(c, "blocked")
  /\ UNCHANGED <<balance, tx, spent, offer, job, chain, cause, deposited, peak>>

\* What the Solana provider refuses before it calls anybody.
Payable(o) == o.chain = "solana" /\ o.token = "USDC" /\ Micro(o.price) > 0

FirstStage(c, o) == IF InstanceOf[c] \notin Solana THEN "mock"
                    ELSE IF Payable(o) THEN Stages[1] ELSE "invalid"

\* The check, the deduction and the start of the payment: one tick.
Pay(c, o) ==
  /\ pc[c] = "requesting"
  /\ Accepted(InstanceOf[c], o) /\ CanDeduct(o)
  /\ offer' = [offer EXCEPT ![c] = {o}]
  /\ balance' = balance - Micro(o.price)
  /\ tx' = [tx EXCEPT ![c] = "open"]
  /\ job' = [job EXCEPT ![c] = FirstStage(c, o)]
  /\ pc' = [pc EXCEPT ![c] = "paying"]
  /\ peak' = [peak EXCEPT ![InstanceOf[c]] = Max({@, 1 + Cardinality(InFlight(InstanceOf[c]))})]
  /\ UNCHANGED <<spent, meta, chain, cause, deposited>>

-----------------------------------------------------------------------------
(* The provider, and what the caller makes of its answer.  An answer after *)
(* the timeout reaches a promise that is settled already.                  *)

Rollback_Floors(c) ==
  IF tx[c] = "open" THEN /\ balance' = balance + Price(c) \div 4
                         /\ tx' = [tx EXCEPT ![c] = "undone"]
                    ELSE UNCHANGED <<balance, tx>>

Rollback(c) ==
  IF tx[c] = "open" THEN /\ balance' = balance + Cost(c)
                         /\ tx' = [tx EXCEPT ![c] = "undone"]
                    ELSE UNCHANGED <<balance, tx>>

Settled(c) ==
  IF pc[c] = "paying"
  THEN /\ spent' = [spent EXCEPT ![InstanceOf[c]] = @ + Cost(c)]
       /\ pc' = [pc EXCEPT ![c] = "retrying"]
  ELSE UNCHANGED <<spent, pc>>

Thrown(c, why) ==
  IF pc[c] = "paying"
  THEN /\ Rollback(c)
       /\ Tell(c, "failed")
       /\ cause' = [cause EXCEPT ![c] = why]
  ELSE UNCHANGED <<balance, tx, pc, meta, cause>>

\* value.err is not looked at.
Resolve_Unchecked(c) ==
  /\ job[c] = "mock" \/ (job[c] = "confirming" /\ chain[c] \in {"landed", "failed"})
  /\ job' = [job EXCEPT ![c] = "resolved"]
  /\ Settled(c)
  /\ UNCHANGED <<balance, tx, offer, meta, chain, cause, deposited, peak>>

Resolve(c) ==
  /\ job[c] = "mock" \/ (job[c] = "confirming" /\ chain[c] = "landed")
  /\ job' = [job EXCEPT ![c] = "resolved"]
  /\ Settled(c)
  /\ UNCHANGED <<balance, tx, offer, meta, chain, cause, deposited, peak>>

\* Accounts and blockhash were had; the signed transaction was submitted.
Advance(c) ==
  \E s \in 1 .. Len(Stages) - 1 :
    /\ job[c] = Stages[s]
    /\ job' = [job EXCEPT ![c] = Stages[s + 1]]
    /\ chain' = [chain EXCEPT ![c] = IF Stages[s] = "sending" THEN "pending" ELSE @]
    /\ UNCHANGED <<balance, tx, spent, pc, offer, meta, cause, deposited, peak>>

Throw(c, why) ==
  /\ job' = [job EXCEPT ![c] = "thrown"]
  /\ Thrown(c, why)
  /\ UNCHANGED <<spent, offer, deposited, peak>>

Refuse(c) == job[c] = "invalid" /\ Throw(c, "refused") /\ UNCHANGED chain

PrepareFails(c) ==
  /\ job[c] = "preparing"
  /\ Throw(c, "unprepared") /\ UNCHANGED chain

\* The cluster may have the transaction although the call fails.
SendFails(c) ==
  /\ job[c] = "sending"
  /\ Throw(c, "send_lost")
  /\ \E s \in {"absent", "pending"} : chain' = [chain EXCEPT ![c] = s]

ConfirmThrows(c) ==
  /\ job[c] = "confirming"
  /\ Throw(c, IF chain[c] = "failed" THEN "failed_on_chain" ELSE "confirm_lost")
  /\ UNCHANGED chain

\* The wait is not limited.
Timeout_None(c) ==
  /\ pc[c] = "paying" /\ job[c] = "thrown"
  /\ Thrown(c, "timeout")
  /\ UNCHANGED <<spent, offer, job, chain, deposited, peak>>

\* withTimeout.  The mock answers before any timer can fire.
Timeout(c) ==
  /\ pc[c] = "paying" /\ job[c] \notin {"mock", "invalid"}
  /\ Thrown(c, "timeout")
  /\ UNCHANGED <<spent, offer, job, chain, deposited, peak>>

\* The cluster executes the transfer, fails it, or lets its blockhash expire.
Execute(c) ==
  /\ chain[c] = "pending"
  /\ \E s \in {"landed", "failed", "expired"} : chain' = [chain EXCEPT ![c] = s]
  /\ UNCHANGED <<balance, tx, spent, pc, offer, meta, job, cause, deposited, peak>>

\* The payment is undone because the service was not had.
Retry_Refunds(c) ==
  /\ pc[c] = "retrying"
  /\ \E m \in {"served", "paid_unserved", "raised"} :
       /\ Tell(c, m)
       /\ IF m = "served" THEN UNCHANGED <<balance, tx>> ELSE Rollback(c)
  /\ UNCHANGED <<spent, offer, job, chain, cause, deposited, peak>>

-----------------------------------------------------------------------------
\* The paid retry: answered well, answered badly, or not at all.
Retry(c) ==
  /\ pc[c] = "retrying"
  /\ \E m \in {"served", "paid_unserved", "raised"} : Tell(c, m)
  /\ UNCHANGED <<balance, tx, spent, offer, job, chain, cause, deposited, peak>>

Deposit(n) ==
  /\ n \notin deposited
  /\ deposited' = deposited \union {n}
  /\ balance' = balance + n
  /\ UNCHANGED <<tx, spent, pc, offer, meta, job, chain, cause, peak>>

Init ==
  /\ balance = Funds
  /\ tx = [c \in Calls |-> "none"]
  /\ spent = [i \in Instances |-> 0]
  /\ pc = [c \in Calls |-> "idle"]
  /\ offer = [c \in Calls |-> {}]
  /\ meta = [c \in Calls |-> "none"]
  /\ job = [c \in Calls |-> "none"]
  /\ chain = [c \in Calls |-> "absent"]
  /\ cause = [c \in Calls |-> "none"]
  /\ deposited = {}
  /\ peak = [i \in Instances |-> 1]

Next ==
  \/ \E c \in Calls :
       \/ Request(c) \/ PassThrough(c) \/ Resolve(c) \/ Advance(c)
       \/ Refuse(c) \/ PrepareFails(c) \/ SendFails(c) \/ ConfirmThrows(c)
       \/ Timeout(c) \/ Execute(c) \/ Retry(c)
       \/ \E o \in Offers : Block(c, o) \/ Pay(c, o)
  \/ \E n \in Deposits : Deposit(n)

\* Only timers and microtasks are sure to run.
Spec == Init /\ [][Next]_vars
        /\ \A c \in Calls : /\ WF_vars(Timeout(c))
                            /\ WF_vars(job[c] = "mock" /\ Resolve(c))
                            /\ WF_vars(Refuse(c))

-----------------------------------------------------------------------------
(* Properties.                                                             *)

\* Every variable has the values fetch.ts, wallet.ts and the provider give it.
TypeOK ==
  /\ balance \in Nat
  /\ tx \in [Calls -> {"none", "open", "undone"}]
  /\ spent \in [Instances -> Nat]
  /\ pc \in [Calls -> {"idle", "requesting", "paying", "retrying", "done"}]
  /\ offer \in [Calls -> SUBSET Offers]
  /\ \A c \in Calls : Cardinality(offer[c]) <= 1
  /\ meta \in [Calls -> {"none", "passed", "raised", "blocked",
                         "failed", "served", "paid_unserved"}]
  /\ job \in [Calls -> Jobs]
  /\ chain \in [Calls -> {"absent", "pending", "landed", "failed", "expired"}]
  /\ cause \in [Calls -> {"none", "refused", "unprepared", "send_lost",
                          "confirm_lost", "failed_on_chain", "timeout"}]
  /\ deposited \subseteq Deposits
  /\ peak \in [Instances -> 1 .. Cardinality(Calls)]

\* fetch.ts:272-315: what the shared wallet is short of is what the instances
\* count as spent plus what their payments in flight have deducted, whatever
\* the interleaving, the rounding and the answers.
WalletMatchesSpending ==
  Funds + SumFunctionOnSet([n \in Deposits |-> n], deposited) - balance
    = SumFunctionOnSet([i \in Instances |-> spent[i] + Total(InFlight(i))], Instances)

\* fetch.ts:14-18, the concurrency note: an instance can spend more than
\* maxTotalSpend, by the price of a call for every payment that was in flight
\* with another one and not a micro-dollar more; used sequentially it stays
\* within the limit.
OverspendIsBounded ==
  \A i \in Instances :
    spent[i] + Total(InFlight(i))
      <= Micro(MaxTotalSpend) + (peak[i] - 1) * Micro(MaxAmountPerCall)

\* index.ts:198-211: a payment the caller is told was made, and that he retries
\* with the hash of, has moved his money: a transfer that failed on chain is
\* never taken for one that was confirmed.
PaidHasLanded ==
  \A c \in Calls : InstanceOf[c] \in Solana /\ tx[c] = "open" /\ pc[c] # "paying"
                     => chain[c] = "landed"

\* fetch.ts:297-310, :353-362 and index.ts:191-211: the wallet gets back what
\* the cluster took only when the timer fired first or the cluster's answer was
\* lost, and never because the paid retry went wrong.
UnaccountedHasCause ==
  \A c \in Calls : chain[c] = "landed" /\ tx[c] = "undone"
                     => cause[c] \in {"timeout", "send_lost", "confirm_lost"}

\* fetch.ts:139-149: the wait for a provider ends even if the provider hangs.
PaymentWaitEnds == \A c \in Calls : pc[c] = "paying" ~> pc[c] # "paying"

\* The wallet and the instances' totals agree to the micro-dollar and overlapping
\* calls overspend by no more than their own prices (fetch.ts:272-315).
SpendingAddsUp == TypeOK /\ WalletMatchesSpending /\ OverspendIsBounded

\* The wallet and the cluster disagree about a payment only for a named reason,
\* and never about one the caller relies on (fetch.ts:297-310, index.ts:191-211).
MoneyMatchesChain == PaidHasLanded /\ UnaccountedHasCause
==============================================================================
