---------------------------- MODULE PrepaidCalls ----------------------------
(***************************************************************************)
(* Prepaid calls, counted on both sides.  The buyer's middleware takes a   *)
(* call from a credential in its file, sends the request with it and puts  *)
(* the call back when the seller did not serve it (_try_prepaid).  The     *)
(* gateway trusts only its own count of the credential's calls, kept in    *)
(* SQLite and pruned at a restart.  Messages are lost or late, the buyer   *)
(* may give up on a request the gateway is still handling, and either side *)
(* may die.                                                                *)
(*                                                                         *)
(* All credentials are one buyer's for one seller, bought at time 0.  The  *)
(* file operations are synchronous code under the payment lock, one action *)
(* each; two processes that rewrite the file at the same time are left     *)
(* out.                                                                    *)
(***************************************************************************)
EXTENDS Integers, FiniteSetsExt

CONSTANTS
  Requests,     \* the calls of _try_prepaid
  Creds,        \* the credentials, numbered by their place in the file
  Package,      \* the package of each credential
  Calls,        \* PACKAGES: the calls that a credential of a package is good for
  ExpiresAt,    \* expires_at of each credential
  PurgeAge,     \* usage rows older than this are deleted at a restart: 366 days
  NoCred,       \* the request uses no credential
  MaxTime,      \* bound: the clock stops here
  MaxFaults     \* bound: crashes, restarts and failing store calls in one behaviour

Packages == {Package[c] : c \in Creds}

ASSUME CredsAssumption   == Creds \subseteq Nat /\ IsFiniteSet(Creds) /\ NoCred \notin Creds
ASSUME CallsAssumption   == Calls \in [Packages -> Nat \ {0}]
ASSUME TimesAssumption   == ExpiresAt \in [Creds -> Nat] /\ PurgeAge \in Nat
ASSUME BoundAssumption   == MaxTime \in Nat /\ MaxFaults \in Nat
ASSUME RequestAssumption == IsFiniteSet(Requests)

VARIABLES
  now,          \* the time, the same for both sides
  file,         \* the credentials that are in the buyer's file
  remaining,    \* their remaining_calls
  buyer,        \* where _try_prepaid is for each request
  using,        \* the credential that a request has taken a call from
  shown,        \* the remaining_calls in the header the request was sent with
  gate,         \* where the gateway's handler is for each request
  reply,        \* the handler's answer on its way to a buyer who waits for it
  usage,        \* prepaid_usage as the gateway's connection sees it
  durable,      \* prepaid_usage as it was last committed
  did,          \* history: upstream did the work
  faults        \* crashes, restarts and failing store calls so far

fileVars    == <<file, remaining>>
sellerVars  == <<gate, usage, durable, did>>
vars == <<now, file, remaining, buyer, using, shown, gate, reply, usage,
          durable, did, faults>>

Never == -1

Row    == [calls : Nat, since : Nat \cup {Never}]
NoRow  == [calls |-> 0, since |-> Never]

\* rejected: 402, put the call back and pay on chain; unserved: put it back and
\* report the failure.
Buyers == {"idle", "waiting", "rejected", "unserved", "onchain", "served",
           "failed", "dead"}
Gates  == {"none", "sent", "allowed", "full", "proxy", "over"}

\* answered: any status the buyer takes for an answer; challenged: 402;
\* failed: 429, or 500 and above.
Replies == {"none", "answered", "challenged", "failed"}

Init ==
  /\ now = 0
  /\ file      = Creds
  /\ remaining = [c \in Creds |-> Calls[Package[c]]]
  /\ buyer     = [r \in Requests |-> "idle"]
  /\ using     = [r \in Requests |-> NoCred]
  /\ shown     = [r \in Requests |-> 0]
  /\ gate      = [r \in Requests |-> "none"]
  /\ reply     = [r \in Requests |-> "none"]
  /\ usage     = [c \in Creds |-> NoRow]
  /\ durable   = [c \in Creds |-> NoRow]
  /\ did       = [r \in Requests |-> FALSE]
  /\ faults    = 0

-----------------------------------------------------------------------------
(* The buyer *)

Expired(c) == now >= ExpiresAt[c]

Valid == {c \in file : remaining[c] > 0 /\ ~Expired(c)}

BuyerGoes(r, from, to) ==
  /\ buyer[r] = from
  /\ buyer' = [buyer EXCEPT ![r] = to]

\* check_and_deduct takes the first valid credential, and the request is sent
\* with it.  Variant: the deduction is not saved.
CheckAndDeduct_NotSaved(r) ==
  /\ Valid # {}
  /\ BuyerGoes(r, "idle", "waiting")
  /\ using' = [using EXCEPT ![r] = Min(Valid)]
  /\ shown' = [shown EXCEPT ![r] = remaining[Min(Valid)] - 1]
  /\ gate'  = [gate EXCEPT ![r] = "sent"]
  /\ UNCHANGED <<now, fileVars, reply, usage, durable, did, faults>>

CheckAndDeduct(r) ==
  /\ Valid # {}
  /\ BuyerGoes(r, "idle", "waiting")
  /\ LET c == Min(Valid) IN
       /\ remaining' = [remaining EXCEPT ![c] = @ - 1]
       /\ using' = [using EXCEPT ![r] = c]
       /\ shown' = [shown EXCEPT ![r] = remaining[c] - 1]
  /\ gate' = [gate EXCEPT ![r] = "sent"]
  /\ UNCHANGED <<now, file, reply, usage, durable, did, faults>>

\* Without a valid credential the request is paid for on chain.
NoCredential(r) ==
  /\ Valid = {}
  /\ BuyerGoes(r, "idle", "onchain")
  /\ UNCHANGED <<now, fileVars, using, shown, reply, sellerVars, faults>>

\* Variant: a server error is taken for an answer.
ReceiveAnswer_AnyStatus(r) ==
  /\ reply[r] \in {"answered", "failed"}
  /\ BuyerGoes(r, "waiting", "served")
  /\ reply' = [reply EXCEPT ![r] = "none"]
  /\ UNCHANGED <<now, fileVars, using, shown, sellerVars, faults>>

ReceiveAnswer(r) ==
  /\ reply[r] = "answered"
  /\ BuyerGoes(r, "waiting", "served")
  /\ reply' = [reply EXCEPT ![r] = "none"]
  /\ UNCHANGED <<now, fileVars, using, shown, sellerVars, faults>>

ReceiveChallenge(r) ==
  /\ reply[r] = "challenged"
  /\ BuyerGoes(r, "waiting", "rejected")
  /\ reply' = [reply EXCEPT ![r] = "none"]
  /\ UNCHANGED <<now, fileVars, using, shown, sellerVars, faults>>

ReceiveError(r) ==
  /\ reply[r] = "failed"
  /\ BuyerGoes(r, "waiting", "unserved")
  /\ reply' = [reply EXCEPT ![r] = "none"]
  /\ UNCHANGED <<now, fileVars, using, shown, sellerVars, faults>>

\* _send raises: request or answer was lost or is late.  The gateway may still
\* be at work, and its answer goes nowhere.  Variant: the request falls back
\* to the chain.
SendRaises_FallsBack(r) ==
  /\ BuyerGoes(r, "waiting", "rejected")
  /\ reply' = [reply EXCEPT ![r] = "none"]
  /\ UNCHANGED <<now, fileVars, using, shown, sellerVars, faults>>

SendRaises(r) ==
  /\ BuyerGoes(r, "waiting", "unserved")
  /\ reply' = [reply EXCEPT ![r] = "none"]
  /\ UNCHANGED <<now, fileVars, using, shown, sellerVars, faults>>

\* rollback_call looks for the package, not for the credential.
SamePackage(c) == {d \in file : Package[d] = Package[c]}

\* Variant: the count is not capped.
RollbackCall_Uncapped(c) ==
  IF SamePackage(c) = {} THEN remaining
  ELSE [remaining EXCEPT ![Min(SamePackage(c))] = @ + 1]

RollbackCall(c) ==
  IF SamePackage(c) = {} THEN remaining
  ELSE [remaining EXCEPT ![Min(SamePackage(c))] =
          IF @ < Calls[Package[c]] THEN @ + 1 ELSE @]

PutBack(r) ==
  /\ \/ BuyerGoes(r, "rejected", "onchain")
     \/ BuyerGoes(r, "unserved", "failed")
  /\ remaining' = RollbackCall(using[r])
  /\ UNCHANGED <<now, file, using, shown, reply, sellerVars, faults>>

\* `ag402 prepaid purge`.
PurgeInvalid ==
  /\ file # Valid
  /\ file' = Valid
  /\ UNCHANGED <<now, remaining, buyer, using, shown, reply, sellerVars, faults>>

BuyerCrash ==
  /\ faults < MaxFaults
  /\ buyer' = [r \in Requests |->
                 IF buyer[r] \in {"waiting", "rejected", "unserved"} THEN "dead"
                                                                  ELSE buyer[r]]
  /\ reply'  = [r \in Requests |-> "none"]
  /\ faults' = faults + 1
  /\ UNCHANGED <<now, fileVars, using, shown, sellerVars>>

-----------------------------------------------------------------------------
(* The gateway *)

GateGoes(r, from, to) ==
  /\ gate[r] = from
  /\ gate' = [gate EXCEPT ![r] = to]

Reply(r, from, a) ==
  /\ GateGoes(r, from, "over")
  /\ reply' = [reply EXCEPT ![r] = IF buyer[r] = "waiting" THEN a ELSE "none"]

RateLimited(r) ==
  /\ Reply(r, "sent", "failed")
  /\ UNCHANGED <<now, fileVars, buyer, using, shown, usage, durable, did, faults>>

\* PrepaidVerifier.verify for a genuine credential.
Acceptable(r) == ~Expired(using[r]) /\ shown[r] > 0

VerifyRefused(r) ==
  /\ Reply(r, "sent", "challenged")
  /\ ~Acceptable(r)
  /\ UNCHANGED <<now, fileVars, buyer, using, shown, usage, durable, did, faults>>

Counted(row, n) ==
  [calls |-> row.calls + n, since |-> IF row.since = Never THEN now ELSE row.since]

\* The credential is accepted; INSERT OR IGNORE, then UPDATE ... WHERE
\* calls_used < max_calls.  Variant: the comparison lets one more through.
CountUsage_OneMore(r) ==
  LET c == using[r] IN
  /\ \/ /\ GateGoes(r, "sent", "allowed")
        /\ Acceptable(r)
        /\ usage[c].calls <= Calls[Package[c]]
        /\ usage' = [usage EXCEPT ![c] = Counted(@, 1)]
     \/ /\ GateGoes(r, "sent", "full")
        /\ Acceptable(r)
        /\ usage[c].calls > Calls[Package[c]]
        /\ usage' = [usage EXCEPT ![c] = Counted(@, 0)]
  /\ UNCHANGED <<now, fileVars, buyer, using, shown, reply, durable, did, faults>>

CountUsage(r) ==
  LET c == using[r] IN
  /\ \/ /\ GateGoes(r, "sent", "allowed")
        /\ Acceptable(r)
        /\ usage[c].calls < Calls[Package[c]]
        /\ usage' = [usage EXCEPT ![c] = Counted(@, 1)]
     \/ /\ GateGoes(r, "sent", "full")
        /\ Acceptable(r)
        /\ usage[c].calls >= Calls[Package[c]]
        /\ usage' = [usage EXCEPT ![c] = Counted(@, 0)]
  /\ UNCHANGED <<now, fileVars, buyer, using, shown, reply, durable, did, faults>>

\* The handlers share one connection: a commit takes every handler's
\* statements with it.
CommitUsage(r) ==
  /\ \/ GateGoes(r, "allowed", "proxy") /\ UNCHANGED reply
     \/ Reply(r, "full", "challenged")
  /\ durable' = usage
  /\ UNCHANGED <<now, fileVars, buyer, using, shown, usage, did, faults>>

\* A statement or the commit raises: 503, and what was inserted or updated stays
\* in the open transaction.  While the gateway closes there is no store: 402.
CountFails(r) ==
  /\ faults < MaxFaults
  /\ \/ /\ Reply(r, "sent", "challenged")
        /\ Acceptable(r)
        /\ UNCHANGED usage
     \/ /\ Reply(r, "sent", "failed")
        /\ Acceptable(r)
        /\ \/ UNCHANGED usage
           \/ usage' = [usage EXCEPT ![using[r]] = Counted(@, 0)]
     \/ /\ \E s \in {"allowed", "full"} : Reply(r, s, "failed")
        /\ UNCHANGED usage
  /\ faults' = faults + 1
  /\ UNCHANGED <<now, fileVars, buyer, using, shown, durable, did>>

\* Upstream does the work and answers; or refuses or fails; or the call raises
\* and the work may have been done.
UpstreamAnswers(r) ==
  /\ \E a \in Replies \ {"none"}, work \in BOOLEAN :
       /\ work => a \in {"answered", "failed"}
       /\ Reply(r, "proxy", a)
       /\ did' = [did EXCEPT ![r] = work]
  /\ UNCHANGED <<now, fileVars, buyer, using, shown, usage, durable, faults>>

Pruned(row) == IF row.since # Never /\ row.since < now - PurgeAge THEN NoRow ELSE row

\* The gateway dies, loses what was not committed, and prunes as it starts.
GatewayRestart ==
  /\ faults < MaxFaults
  /\ gate' = [r \in Requests |-> IF gate[r] = "none" THEN "none" ELSE "over"]
  /\ usage'   = [c \in Creds |-> Pruned(durable[c])]
  /\ durable' = [c \in Creds |-> Pruned(durable[c])]
  /\ faults'  = faults + 1
  /\ UNCHANGED <<now, fileVars, buyer, using, shown, reply, did>>

Tick ==
  /\ now < MaxTime
  /\ now' = now + 1
  /\ UNCHANGED <<fileVars, buyer, using, shown, reply, sellerVars, faults>>

-----------------------------------------------------------------------------

BuyerStep(r) ==
  \/ CheckAndDeduct(r) \/ NoCredential(r) \/ ReceiveAnswer(r)
  \/ ReceiveChallenge(r) \/ ReceiveError(r) \/ SendRaises(r) \/ PutBack(r)

GateStep(r) ==
  \/ RateLimited(r) \/ VerifyRefused(r) \/ CountUsage(r)
  \/ CommitUsage(r) \/ CountFails(r) \/ UpstreamAnswers(r)

AllOver ==
  /\ \A r \in Requests : /\ buyer[r] \in {"onchain", "served", "failed", "dead"}
                         /\ gate[r] \in {"none", "over"}
  /\ UNCHANGED vars

Next ==
  \/ \E r \in Requests : BuyerStep(r) \/ GateStep(r)
  \/ PurgeInvalid \/ BuyerCrash \/ GatewayRestart \/ Tick
  \/ AllOver

Spec == Init /\ [][Next]_vars

TypeOK ==
  /\ now \in Nat
  /\ file \subseteq Creds
  /\ remaining \in [Creds -> Nat]
  /\ \A c \in Creds : remaining[c] <= Calls[Package[c]]
  /\ buyer   \in [Requests -> Buyers]
  /\ using   \in [Requests -> Creds \cup {NoCred}]
  /\ shown   \in [Requests -> Nat]
  /\ gate    \in [Requests -> Gates]
  /\ reply   \in [Requests -> Replies]
  /\ usage   \in [Creds -> Row]
  /\ durable \in [Creds -> Row]
  /\ did     \in [Requests -> BOOLEAN]
  /\ faults  \in Nat

-----------------------------------------------------------------------------
(* Properties *)

WorkFor(c) == {r \in Requests : using[r] = c /\ did[r]}

\* A credential that lives no longer than its usage row is kept is served no
\* more often than it was sold for, whatever the buyer's file says, however
\* requests race for its last calls, and across restarts.
NotOversold ==
  \A c \in Creds :
    ExpiresAt[c] <= PurgeAge => Cardinality(WorkFor(c)) <= Calls[Package[c]]

\* The requests that hold a call: out, served, or lost with the process.
Holding ==
  {r \in Requests :
     using[r] # NoCred
       /\ buyer[r] \in {"waiting", "rejected", "unserved", "served", "dead"}}

\* Rollbacks that find another credential, give up on a request the gateway
\* is handling, or meet a purged file never leave the buyer more calls than
\* were bought.
NoCallsConjured ==
  SumFunctionOnSet(remaining, file) + Cardinality(Holding)
    <= SumFunctionOnSet([c \in Creds |-> Calls[Package[c]]], Creds)

\* The calls that the buyer gave up for good, and those upstream did, are in
\* the gateway's committed count, however late either side is and whichever
\* of them dies.
CountCovers ==
  \A c \in Creds :
    ExpiresAt[c] <= PurgeAge /\ ~Expired(c) =>
      Cardinality({r \in Requests : using[r] = c /\ (did[r] \/ buyer[r] = "served")})
        <= durable[c].calls

\* A request is paid for again on chain only if its prepaid call was not done.
FallbackIsUnserved ==
  \A r \in Requests : buyer[r] \in {"rejected", "onchain"} => ~did[r]

\* The two counts of calls never part in the buyer's favour: none is conjured by a
\* rollback, none that was used is missing from the seller's count, and a purged
\* or switched credential is no way around either (client.py:141, gateway.py:820).
CountsAgree == TypeOK /\ NoCallsConjured /\ CountCovers
=============================================================================
