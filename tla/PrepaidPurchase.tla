-------------------------- MODULE PrepaidPurchase --------------------------
(***************************************************************************)
(* Buying a prepaid package.  `ag402 prepaid buy` pays on chain, writes    *)
(* the one recovery record, posts the transaction to the gateway up to     *)
(* three times, removes the record and stores the credential it was given; *)
(* `ag402 prepaid recover` does the last part for a payment already made.  *)
(* The gateway's purchase handler verifies the payment once, inserts the   *)
(* issuance and answers every later post with the same credential.         *)
(*                                                                         *)
(* A credential is identified by its payment and its time of issue, from   *)
(* which expiry and signature are derived.  There is one gateway, one      *)
(* buyer and one package; the provider is a real one.  The credentials     *)
(* are kept in one file that every program loads, changes and saves whole. *)
(***************************************************************************)
EXTENDS Integers, FiniteSets

CONSTANTS
  Buys,          \* the runs of `prepaid buy`, which also name their payments
  Recovers,      \* the runs of `prepaid recover`
  MaxAttempts,   \* max_attempts of _submit_purchase_with_retry: 3
  PendingAge,    \* _PENDING_MAX_AGE_DAYS
  PurgeAge,      \* issuances older than this are deleted at a restart: 366 days
  NoTx,          \* no payment
  MaxTime,       \* bound: the clock stops here
  MaxPosts,      \* bound: posts in one behaviour
  MaxFaults      \* bound: crashes, restarts and failing calls in one behaviour

Commands == Buys \cup Recovers
Posts    == Commands \X (1..MaxAttempts)

ASSUME CommandsAssumption == Buys \cap Recovers = {} /\ NoTx \notin Buys
ASSUME AgesAssumption     == PendingAge \in Nat /\ PurgeAge \in Nat
ASSUME AttemptsAssumption == MaxAttempts \in Nat \ {0}
ASSUME BoundAssumption    == {MaxTime, MaxPosts, MaxFaults} \subseteq Nat

VARIABLES
  now,        \* the time, the same for both sides
  chain,      \* each payment: not made, sent, or landed, if it ever is
  pending,    \* the recovery record: a payment and when it was saved
  cmd,        \* where each command is
  target,     \* the payment it submits
  attempt,    \* how often it has posted
  cred,       \* the credential it was given
  file,       \* the credentials file: the commands whose credentials are in it
  copy,       \* what a command that adds its own has loaded of it
  reply,      \* the answer to its last post
  gate,       \* where the handler of each post is
  stamp,      \* the issue time that a handler has derived its credential from
  open,       \* the gateway has its store; not while it closes
  issued,     \* prepaid_issued as the gateway's connection sees it
  durable,    \* prepaid_issued as it was last committed
  forgot,     \* history: how a restart forgot the issuance of a payment
  mishap,     \* history: how a payment, its record or its credential was lost
  faults      \* crashes, restarts and failing calls so far

fileVars    == <<file, copy>>
buyerVars   == <<pending, cmd, target, attempt, cred, fileVars>>
storeVars   == <<open, issued, durable>>
historyVars == <<forgot, mishap, faults>>
vars == <<now, chain, buyerVars, reply, gate, stamp, storeVars, historyVars>>

Never == -1
Time  == Nat \cup {Never}

Over      == {"stored", "failed", "dead"}
CmdStates == {"idle", "save", "submit", "waiting", "given", "cleared", "loaded"} \cup Over
Gates     == {"none", "sent", "verify", "insert", "commit", "reread", "over"}

\* credential: 200 or 201; busy: 429; refused: any other status, or an answer
\* that is no credential.
Answer   == [kind : {"none", "credential", "busy", "refused"}, at : Time]
NoAnswer == [kind |-> "none", at |-> Never]
Busy     == [kind |-> "busy", at |-> Never]
Refused  == [kind |-> "refused", at |-> Never]
Credential(at) == [kind |-> "credential", at |-> at]

Mishaps == {"unreported", "unsaved", "overwritten", "cleared", "halfway", "lost"}

NoRecord == [tx |-> NoTx, at |-> Never]

Init ==
  /\ now = 0
  /\ chain   = [b \in Buys |-> "none"]
  /\ pending = NoRecord
  /\ cmd     = [k \in Commands |-> "idle"]
  /\ target  = [k \in Commands |-> NoTx]
  /\ attempt = [k \in Commands |-> 0]
  /\ cred    = [k \in Commands |-> Never]
  /\ file    = {}
  /\ copy    = [k \in Commands |-> {}]
  /\ reply   = [k \in Commands |-> NoAnswer]
  /\ gate    = [p \in Posts |-> "none"]
  /\ stamp   = [p \in Posts |-> Never]
  /\ open    = TRUE
  /\ issued  = [b \in Buys |-> Never]
  /\ durable = [b \in Buys |-> Never]
  /\ forgot  = [b \in Buys |-> {}]
  /\ mishap  = [b \in Buys |-> {}]
  /\ faults  = 0

Goes(k, from, to) ==
  /\ cmd[k] = from
  /\ cmd' = [cmd EXCEPT ![k] = to]

Fault ==
  /\ faults < MaxFaults
  /\ faults' = faults + 1

-----------------------------------------------------------------------------
(* prepaid buy *)

\* The package is known and within limits, the user confirms, and provider.pay
\* reports success: the transaction is out, confirmed or not.
PayOk(b) ==
  /\ Goes(b, "idle", "save")
  /\ chain'  = [chain EXCEPT ![b] = "sent"]
  /\ target' = [target EXCEPT ![b] = b]
  /\ UNCHANGED <<now, pending, attempt, cred, reply, gate, stamp, fileVars, storeVars,
                 historyVars>>

\* provider.pay reports a failure, or the command dies in it, although the
\* transaction is out: an answer to the send was lost.  There is no record.
PaidUnreported(b) ==
  /\ Goes(b, "idle", "failed")
  /\ chain'  = [chain EXCEPT ![b] = "sent"]
  /\ mishap' = [mishap EXCEPT ![b] = @ \cup {"unreported"}]
  /\ UNCHANGED <<now, pending, target, attempt, cred, reply, gate, stamp, fileVars,
                 storeVars, forgot, faults>>

\* Or the purchase ends before anything is paid.
NotPaid(b) ==
  /\ Goes(b, "idle", "failed")
  /\ UNCHANGED <<now, chain, pending, target, attempt, cred, reply, gate, stamp,
                 fileVars, storeVars, historyVars>>

\* The record of a payment that is not `t` is lost for the reason given.
Displace(t, why) ==
  mishap' = [b \in Buys |-> mishap[b] \cup
              (IF pending.tx = b /\ b # t THEN {why} ELSE {})]

SavePending(b) ==
  /\ Goes(b, "save", "submit")
  /\ pending' = [tx |-> b, at |-> now]
  /\ Displace(b, "overwritten")
  /\ UNCHANGED <<now, chain, target, attempt, cred, reply, gate, stamp, fileVars,
                 storeVars, forgot, faults>>

\* The record cannot be written: a warning, and the purchase goes on.
SaveFails(b) ==
  /\ Fault
  /\ Goes(b, "save", "submit")
  /\ mishap' = [mishap EXCEPT ![b] = @ \cup {"unsaved"}]
  /\ UNCHANGED <<now, chain, pending, target, attempt, cred, reply, gate, stamp,
                 fileVars, storeVars, forgot>>

-----------------------------------------------------------------------------
(* prepaid recover *)

\* The payment is taken from the record, unless that is too old, or is named
\* by the user, to whom `buy` has shown it.
StartRecover(k) ==
  /\ Goes(k, "idle", "submit")
  /\ \E t \in Buys :
       /\ \/ pending.tx = t /\ now - pending.at <= PendingAge
          \/ chain[t] # "none"
       /\ target' = [target EXCEPT ![k] = t]
  /\ UNCHANGED <<now, chain, pending, attempt, cred, reply, gate, stamp, fileVars,
                 storeVars, historyVars>>

-----------------------------------------------------------------------------
(* _submit_purchase_with_retry, and what both commands do with its result *)

PostsLeft == Cardinality({p \in Posts : gate[p] # "none"}) < MaxPosts

Post(k) ==
  /\ PostsLeft
  /\ Goes(k, "submit", "waiting")
  /\ attempt' = [attempt EXCEPT ![k] = @ + 1]
  /\ gate' = [gate EXCEPT ![<<k, attempt[k] + 1>>] = "sent"]
  /\ UNCHANGED <<now, chain, pending, target, cred, reply, stamp, fileVars, storeVars,
                 historyVars>>

\* Variant: a post that raises is counted once more.
PostRaises_CountsTwice(k) ==
  /\ Goes(k, "waiting", IF attempt[k] < MaxAttempts THEN "submit" ELSE "failed")
  /\ attempt' = [attempt EXCEPT ![k] = @ + 1]
  /\ reply' = [reply EXCEPT ![k] = NoAnswer]
  /\ UNCHANGED <<now, chain, pending, target, cred, gate, stamp, fileVars, storeVars,
                 historyVars>>

\* The post raises: it was lost, or its answer was or is late, while the
\* handler goes on.
PostRaises(k) ==
  /\ \/ attempt[k] < MaxAttempts /\ Goes(k, "waiting", "submit")
     \/ attempt[k] = MaxAttempts /\ Goes(k, "waiting", "failed")
  /\ reply' = [reply EXCEPT ![k] = NoAnswer]
  /\ UNCHANGED <<now, chain, pending, target, attempt, cred, gate, stamp, fileVars,
                 storeVars, historyVars>>

ReceiveCredential(k) ==
  /\ reply[k].kind = "credential"
  /\ Goes(k, "waiting", "given")
  /\ cred'  = [cred EXCEPT ![k] = reply[k].at]
  /\ reply' = [reply EXCEPT ![k] = NoAnswer]
  /\ UNCHANGED <<now, chain, pending, target, attempt, gate, stamp, fileVars, storeVars,
                 historyVars>>

ReceiveBusy(k) ==
  /\ reply[k].kind = "busy"
  /\ \/ attempt[k] < MaxAttempts /\ Goes(k, "waiting", "submit")
     \/ attempt[k] = MaxAttempts /\ Goes(k, "waiting", "failed")
  /\ reply' = [reply EXCEPT ![k] = NoAnswer]
  /\ UNCHANGED <<now, chain, pending, target, attempt, cred, gate, stamp, fileVars,
                 storeVars, historyVars>>

\* Variant: the record is removed although there is no credential.
ReceiveRefusal_Clears(k) ==
  /\ reply[k].kind = "refused"
  /\ Goes(k, "waiting", "failed")
  /\ reply'   = [reply EXCEPT ![k] = NoAnswer]
  /\ pending' = NoRecord
  /\ Displace(target[k], "cleared")
  /\ UNCHANGED <<now, chain, target, attempt, cred, gate, stamp, fileVars,
                 storeVars, forgot, faults>>

ReceiveRefusal(k) ==
  /\ reply[k].kind = "refused"
  /\ Goes(k, "waiting", "failed")
  /\ reply' = [reply EXCEPT ![k] = NoAnswer]
  /\ UNCHANGED <<now, chain, pending, target, attempt, cred, gate, stamp, fileVars,
                 storeVars, historyVars>>

\* _clear_pending_purchase removes the record, whosever it is.
ClearPending(k) ==
  /\ Goes(k, "given", "cleared")
  /\ pending' = NoRecord
  /\ Displace(target[k], "cleared")
  /\ UNCHANGED <<now, chain, target, attempt, cred, reply, gate, stamp, fileVars,
                 storeVars, forgot, faults>>

\* add_credential loads the whole file; one that cannot be read is taken for empty.
LoadCredentials(k) ==
  /\ Goes(k, "cleared", "loaded")
  /\ \/ copy' = [copy EXCEPT ![k] = file] /\ UNCHANGED faults
     \/ copy' = [copy EXCEPT ![k] = {}] /\ Fault
  /\ UNCHANGED <<now, chain, pending, target, attempt, cred, reply, gate, stamp, file,
                 storeVars, forgot, mishap>>

\* The file is replaced, with a loss for whoever is not in the new one.
Replace(new) ==
  /\ file' = new
  /\ mishap' = [b \in Buys |-> mishap[b] \cup
                  (IF \E j \in file \ new : target[j] = b THEN {"lost"} ELSE {})]

\* It saves what it has loaded and its own, whatever was saved in between.
AddCredential(k) ==
  /\ Goes(k, "loaded", "stored")
  /\ Replace(copy[k] \cup {k})
  /\ copy' = [copy EXCEPT ![k] = {}]
  /\ UNCHANGED <<now, chain, pending, target, attempt, cred, reply, gate, stamp,
                 storeVars, forgot, faults>>

\* A program that spends calls saves the file as it had loaded it before some of
\* the credentials were added.
SpenderSaves ==
  /\ Fault
  /\ \E old \in SUBSET file : old # file /\ Replace(old)
  /\ UNCHANGED <<now, chain, pending, cmd, target, attempt, cred, copy, reply, gate,
                 stamp, storeVars, forgot>>

\* The command dies, or add_credential raises.
Crash(k) ==
  /\ Fault
  /\ cmd[k] \notin Over \cup {"idle"}
  /\ cmd'   = [cmd EXCEPT ![k] = "dead"]
  /\ reply' = [reply EXCEPT ![k] = NoAnswer]
  /\ mishap' = [mishap EXCEPT ![target[k]] = @ \cup
                  (CASE cmd[k] = "save"    -> {"unsaved"}
                     [] cmd[k] \in {"cleared", "loaded"} -> {"halfway"}
                     [] OTHER              -> {})]
  /\ copy' = [copy EXCEPT ![k] = {}]
  /\ UNCHANGED <<now, chain, pending, target, attempt, cred, gate, stamp, file,
                 storeVars, forgot>>

-----------------------------------------------------------------------------
(* The gateway: purchase_package *)

Tx(p) == target[p[1]]

GateGoes(p, from, to) ==
  /\ gate[p] = from
  /\ gate' = [gate EXCEPT ![p] = to]

\* An answer reaches a command that still waits for this post.
Reply(p, from, a) ==
  /\ GateGoes(p, from, "over")
  /\ reply' = IF cmd[p[1]] = "waiting" /\ attempt[p[1]] = p[2]
              THEN [reply EXCEPT ![p[1]] = a] ELSE reply
  /\ stamp' = [stamp EXCEPT ![p] = Never]

RateLimited(p) ==
  /\ Reply(p, "sent", Busy)
  /\ UNCHANGED <<now, chain, buyerVars, storeVars, historyVars>>

\* What _get_prepaid_issued finds; nothing without a store.
Found(t) == open /\ issued[t] # Never

Replay(p, from) ==
  /\ Reply(p, from, Credential(issued[Tx(p)]))
  /\ Found(Tx(p))
  /\ UNCHANGED <<now, chain, buyerVars, storeVars, historyVars>>

LookupFinds(p) == Replay(p, "sent")

LookupFindsNothing(p) ==
  /\ GateGoes(p, "sent", "verify")
  /\ ~Found(Tx(p))
  /\ UNCHANGED <<now, chain, buyerVars, reply, stamp, storeVars, historyVars>>

\* Variant: a transaction that was only sent is taken for a payment.
Verified_Unconfirmed(p) ==
  /\ GateGoes(p, "verify", "insert")
  /\ chain[Tx(p)] # "none"
  /\ stamp' = [stamp EXCEPT ![p] = now]
  /\ UNCHANGED <<now, chain, buyerVars, reply, storeVars, historyVars>>

Verified(p) ==
  /\ GateGoes(p, "verify", "insert")
  /\ chain[Tx(p)] = "landed"
  /\ stamp' = [stamp EXCEPT ![p] = now]
  /\ UNCHANGED <<now, chain, buyerVars, reply, storeVars, historyVars>>

\* Not on chain, not yet, or the verification itself failed: 402.
VerifyFailed(p) ==
  /\ Reply(p, "verify", Refused)
  /\ UNCHANGED <<now, chain, buyerVars, storeVars, historyVars>>

\* INSERT OR IGNORE, in the transaction that all handlers share.
InsertWins(p) ==
  /\ GateGoes(p, "insert", "commit")
  /\ open
  /\ issued[Tx(p)] = Never
  /\ issued' = [issued EXCEPT ![Tx(p)] = stamp[p]]
  /\ UNCHANGED <<now, chain, buyerVars, reply, stamp, open, durable, historyVars>>

\* The row is another post's, and so is the credential.  Variant: the handler
\* commits and answers with the credential it had prepared.
InsertLoses_IssuesOwn(p) ==
  /\ GateGoes(p, "insert", "commit")
  /\ Found(Tx(p))
  /\ UNCHANGED <<now, chain, buyerVars, reply, stamp, storeVars, historyVars>>

InsertLoses(p) ==
  /\ GateGoes(p, "insert", "reread")
  /\ Found(Tx(p))
  /\ durable' = issued
  /\ UNCHANGED <<now, chain, buyerVars, reply, stamp, open, issued, historyVars>>

InsertWithoutStore(p) ==
  /\ GateGoes(p, "insert", "reread")
  /\ ~open
  /\ UNCHANGED <<now, chain, buyerVars, reply, stamp, storeVars, historyVars>>

Commit(p) ==
  /\ Reply(p, "commit", Credential(stamp[p]))
  /\ open
  /\ durable' = issued
  /\ UNCHANGED <<now, chain, buyerVars, open, issued, historyVars>>

RereadFinds(p) == Replay(p, "reread")

RereadFindsNothing(p) ==
  /\ Reply(p, "reread", Refused)
  /\ ~Found(Tx(p))
  /\ UNCHANGED <<now, chain, buyerVars, storeVars, historyVars>>

\* A statement or a commit raises, or the store is gone before the commit: 500.
\* A row that was inserted stays in the open transaction.
StoreFails(p) ==
  /\ \/ Fault /\ \E s \in {"sent", "insert", "commit", "reread"} : Reply(p, s, Refused)
     \/ ~open /\ Reply(p, "commit", Refused) /\ UNCHANGED faults
  /\ UNCHANGED <<now, chain, buyerVars, storeVars, forgot, mishap>>

\* The gateway closes: handlers go on without a store until it is gone.
Close ==
  /\ Fault
  /\ open
  /\ open' = FALSE
  /\ UNCHANGED <<now, chain, buyerVars, reply, gate, stamp, issued, durable,
                 forgot, mishap>>

TooOld(at) == at # Never /\ at < now - PurgeAge
Pruned(at) == IF TooOld(at) THEN Never ELSE at

\* The gateway dies, loses what was not committed, and prunes as it starts.
Restart ==
  /\ open => faults < MaxFaults
  /\ faults' = IF open THEN faults + 1 ELSE faults
  /\ open'    = TRUE
  /\ gate'    = [p \in Posts |-> IF gate[p] = "none" THEN "none" ELSE "over"]
  /\ stamp'   = [p \in Posts |-> Never]
  /\ issued'  = [b \in Buys |-> Pruned(durable[b])]
  /\ durable' = [b \in Buys |-> Pruned(durable[b])]
  /\ forgot'  = [b \in Buys |->
                   forgot[b]
                   \cup (IF issued[b] # durable[b] THEN {"uncommitted"} ELSE {})
                   \cup (IF TooOld(durable[b]) THEN {"pruned"} ELSE {})]
  /\ UNCHANGED <<now, chain, buyerVars, reply, mishap>>

-----------------------------------------------------------------------------

Settle(b) ==
  /\ chain[b] = "sent"
  /\ chain' = [chain EXCEPT ![b] = "landed"]
  /\ UNCHANGED <<now, buyerVars, reply, gate, stamp, storeVars, historyVars>>

Tick ==
  /\ now < MaxTime
  /\ now' = now + 1
  /\ UNCHANGED <<chain, buyerVars, reply, gate, stamp, storeVars, historyVars>>

BuyStep(b) ==
  PayOk(b) \/ PaidUnreported(b) \/ NotPaid(b) \/ SavePending(b) \/ SaveFails(b)

SubmitStep(k) ==
  \/ Post(k) \/ PostRaises(k)
  \/ ReceiveCredential(k) \/ ReceiveBusy(k) \/ ReceiveRefusal(k)
  \/ ClearPending(k) \/ LoadCredentials(k) \/ AddCredential(k) \/ Crash(k)

Handle(p) ==
  \/ RateLimited(p) \/ LookupFinds(p) \/ LookupFindsNothing(p)
  \/ Verified(p) \/ VerifyFailed(p)
  \/ InsertWins(p) \/ InsertLoses(p) \/ InsertWithoutStore(p) \/ Commit(p)
  \/ RereadFinds(p) \/ RereadFindsNothing(p) \/ StoreFails(p)

AllOver ==
  /\ \A k \in Commands : 
       \/ cmd[k] \in Over \cup {"idle"}
       \/ cmd[k] = "submit" /\ ~PostsLeft
  /\ \A p \in Posts : gate[p] \in {"none", "over"}
  /\ UNCHANGED vars

Next ==
  \/ \E b \in Buys : BuyStep(b) \/ Settle(b)
  \/ \E k \in Recovers : StartRecover(k)
  \/ \E k \in Commands : SubmitStep(k)
  \/ \E p \in Posts : Handle(p)
  \/ SpenderSaves \/ Close \/ Restart \/ Tick
  \/ AllOver

Spec == Init /\ [][Next]_vars

TypeOK ==
  /\ now     \in Nat
  /\ chain   \in [Buys -> {"none", "sent", "landed"}]
  /\ pending \in [tx : Buys \cup {NoTx}, at : Time]
  /\ cmd     \in [Commands -> CmdStates]
  /\ target  \in [Commands -> Buys \cup {NoTx}]
  /\ attempt \in [Commands -> Nat]
  /\ \A k \in Commands : attempt[k] <= MaxAttempts
  /\ cred    \in [Commands -> Time]
  /\ file    \in SUBSET Commands
  /\ copy    \in [Commands -> SUBSET Commands]
  /\ reply   \in [Commands -> Answer]
  /\ gate    \in [Posts -> Gates]
  /\ stamp   \in [Posts -> Time]
  /\ open    \in BOOLEAN
  /\ issued  \in [Buys -> Time]
  /\ durable \in [Buys -> Time]
  /\ forgot  \in [Buys -> SUBSET {"uncommitted", "pruned"}]
  /\ mishap  \in [Buys -> SUBSET Mishaps]
  /\ faults  \in Nat

-----------------------------------------------------------------------------
(* Properties *)

\* The credentials that were handed out for a payment.
Handed(t) ==
  {cred[k] : k \in {c \in Commands : target[c] = t /\ cred[c] # Never}}
  \cup {reply[k].at : k \in {c \in Commands : target[c] = t /\ reply[c].kind = "credential"}}

\* purchase_package: however posts of one payment race and are repeated, they
\* are all given the credential in its row, unless a restart forgot the row.
OneCredential ==
  \A t \in Buys : \A at \in Handed(t) : at = issued[t] \/ forgot[t] # {}

\* A credential is handed out, and a row committed, for payments that landed.
CredentialIsPaid ==
  \A t \in Buys : Handed(t) # {} \/ durable[t] # Never => chain[t] = "landed"

\* A payment that was made is never out of sight: a command is at work on it, its
\* credential is in the file, or the record names it.  The ways out are `buy` being
\* told that the payment failed, or dying in it (cli.py:2509-2512); the record never
\* written, or overwritten or removed by another command; a command dying between
\* removing the record and storing the credential; and a credential that a program
\* which had loaded the file before saves away (client.py:159-163).
PaidIsInSight ==
  \A t \in Buys : chain[t] # "none" =>
    \/ \E k \in Commands : target[k] = t /\ (cmd[k] \notin Over \/ k \in file)
    \/ pending.tx = t
    \/ mishap[t] # {}

=============================================================================
