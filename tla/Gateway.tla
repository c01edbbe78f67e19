------------------------------ MODULE Gateway -------------------------------
(***************************************************************************)
(* gateway_handler for requests that carry an x402 payment proof: the      *)
(* replay guard, the verification of the payment, the consumed-transaction *)
(* table with its grace window, the call of the upstream service and what  *)
(* is recorded after it.  Handlers of concurrent requests interleave at    *)
(* every await, which includes the one between a statement and its commit. *)
(* A restart kills them, empties the nonce table, takes back what was not  *)
(* committed and prunes the consumed transactions.                         *)
(***************************************************************************)
EXTENDS PersistentReplayGuard, FiniteSets

CONSTANTS
  Requests,     \* the HTTP requests that arrive
  Message,      \* what each carries: transaction, nonce and time stamp
  Nonces,       \* the nonces of the messages
  Window,       \* replay_window_seconds
  MaxCache,     \* _MAX_NONCE_CACHE
  NaN,          \* the stamp that is not a number
  MaxTime,      \* bound: the clock stops here
  MaxFaults     \* bound: restarts and failing store calls in one behaviour

ASSUME MessageAssumption ==
  Message \in [Requests -> [tx : Txs, nonce : Nonces, stamp : Int \cup {NaN}]]
ASSUME BoundAssumption == MaxTime \in Nat /\ MaxFaults \in Nat

VARIABLES
  seen,         \* the replay guard's nonces
  pc,           \* where the handler of each request is
  reply,        \* what each request was answered
  worked,       \* history: how often upstream did each payment's work, up to 2
  excuse,       \* history: why the work of a payment may be done again
  doubt,        \* history: payments whose open row met a failing store call
  faults        \* restarts and failing store calls so far

historyVars == <<worked, excuse, doubt, faults>>
vars == <<now, storeVars, seen, pc, reply, historyVars>>

Nonce == INSTANCE ReplayGuard

Tx(i) == Message[i].tx

PC == {"idle", "verify", "status", "cached", "record", "commitNew", "commitOld",
       "recheck", "proxy", "mark", "markCommit", "cache", "cacheCommit", "done"}

\* refused: 429, 403 or 402 before the payment counts; challenged: 402 for a
\* transaction that is used up; failed: an upstream error, 500 or 502.
Replies == {"none", "refused", "challenged", "cached", "served", "failed"}

Excuses == {"overlap", "unsettled", "unsaved", "forgotten"}

Init ==
  /\ Nonce!GuardInit
  /\ StoreInit
  /\ pc     = [i \in Requests |-> "idle"]
  /\ reply  = [i \in Requests |-> "none"]
  /\ worked = [t \in Txs |-> 0]
  /\ excuse = [t \in Txs |-> {}]
  /\ doubt  = {}
  /\ faults = 0

Goto(i, from, to) ==
  /\ pc[i] = from
  /\ pc' = [pc EXCEPT ![i] = to]
  /\ UNCHANGED reply

Answer(i, from, r) ==
  /\ pc[i] = from
  /\ pc' = [pc EXCEPT ![i] = "done"]
  /\ reply' = [reply EXCEPT ![i] = r]

-----------------------------------------------------------------------------
(* Before the payment counts *)

\* Over the rate limit, without a proof, or with another scheme.
RejectEarly(i) ==
  /\ Answer(i, "idle", "refused")
  /\ UNCHANGED <<now, seen, storeVars, historyVars>>

ReplayRejected(i) ==
  /\ Nonce!Refuse(Message[i].nonce, Message[i].stamp)
  /\ Answer(i, "idle", "refused")
  /\ UNCHANGED <<now, storeVars, historyVars>>

ReplayAccepted(i) ==
  /\ Nonce!Accept(Message[i].nonce, Message[i].stamp)
  /\ Goto(i, "idle", "verify")
  /\ UNCHANGED <<now, storeVars, historyVars>>

\* verifier.verify: a malformed proof, an RPC error, an unconfirmed payment.
VerifyFailed(i) ==
  /\ Answer(i, "verify", "refused")
  /\ UNCHANGED <<now, seen, storeVars, historyVars>>

Verified(i) ==
  /\ Goto(i, "verify", "status")
  /\ UNCHANGED <<now, seen, storeVars, historyVars>>

-----------------------------------------------------------------------------
(* Is the payment still good? *)

\* Between being let in and the statement that marks the payment delivered.
InFlight(i) == pc[i] \in {"cached", "record", "commitNew", "commitOld", "recheck",
                         "proxy", "mark"}

\* History: the request was let in while another with its payment was at work.
NoteOverlap(i) ==
  excuse' = IF \E j \in Requests \ {i} : Tx(j) = Tx(i) /\ InFlight(j)
            THEN [excuse EXCEPT ![Tx(i)] = @ \cup {"overlap"}]
            ELSE excuse

StatusExpired(i) ==
  /\ TxStatus(Tx(i)) = "EXPIRED"
  /\ Answer(i, "status", "challenged")
  /\ UNCHANGED <<now, seen, storeVars, historyVars>>

StatusWithinGrace(i) ==
  /\ TxStatus(Tx(i)) = "WITHIN_GRACE"
  /\ Goto(i, "status", "cached")
  /\ NoteOverlap(i)
  /\ UNCHANGED <<now, seen, storeVars, worked, doubt, faults>>

\* Variant: a new transaction goes straight to upstream.
StatusNew_NoRecord(i) ==
  /\ TxStatus(Tx(i)) = "NEW"
  /\ Goto(i, "status", "proxy")
  /\ NoteOverlap(i)
  /\ UNCHANGED <<now, seen, storeVars, worked, doubt, faults>>

StatusNew(i) ==
  /\ TxStatus(Tx(i)) = "NEW"
  /\ Goto(i, "status", "record")
  /\ NoteOverlap(i)
  /\ UNCHANGED <<now, seen, storeVars, worked, doubt, faults>>

ServeCached(i) ==
  /\ cachedAt[Tx(i)] # Never
  /\ Answer(i, "cached", "cached")
  /\ UNCHANGED <<now, seen, storeVars, historyVars>>

NotCached(i) ==
  /\ cachedAt[Tx(i)] = Never
  /\ Goto(i, "cached", "proxy")
  /\ UNCHANGED <<now, seen, storeVars, historyVars>>

\* The INSERT says whether the row is new; the commit is another await.
Record(i) ==
  /\ Goto(i, "record", IF Known(Tx(i)) THEN "commitOld" ELSE "commitNew")
  /\ RecordTx(Tx(i))
  /\ UNCHANGED <<now, seen, historyVars>>

CommitRecord(i) ==
  /\ \/ Goto(i, "commitNew", "proxy")
     \/ Goto(i, "commitOld", "recheck")
  /\ Commit
  /\ UNCHANGED <<now, seen, historyVars>>

\* Another request recorded it first.  Unless that one has been delivered or
\* the window has passed, this one goes on as well.
RecheckExpired(i) ==
  /\ TxStatus(Tx(i)) = "EXPIRED"
  /\ Answer(i, "recheck", "challenged")
  /\ UNCHANGED <<now, seen, storeVars, historyVars>>

RecheckOpen(i) ==
  /\ TxStatus(Tx(i)) # "EXPIRED"
  /\ Goto(i, "recheck", "proxy")
  /\ UNCHANGED <<now, seen, storeVars, historyVars>>

-----------------------------------------------------------------------------
(* The work *)

Work(t) == worked' = [worked EXCEPT ![t] = IF @ < 2 THEN @ + 1 ELSE @]

Unsettled(t) == excuse' = [excuse EXCEPT ![t] = @ \cup {"unsettled"}]

\* Upstream answers below 400.
UpstreamOk(i) ==
  /\ Goto(i, "proxy", "mark")
  /\ Work(Tx(i))
  /\ UNCHANGED <<now, seen, storeVars, excuse, doubt, faults>>

\* Variant: an upstream error is recorded like a good answer.
UpstreamError_Marked(i) ==
  /\ Goto(i, "proxy", "mark")
  /\ UNCHANGED <<now, seen, storeVars, historyVars>>

\* Upstream answers 400 or above, which is handed on.
UpstreamError(i) ==
  /\ Answer(i, "proxy", "failed")
  /\ UNCHANGED <<now, seen, storeVars, historyVars>>

\* The call raises (timeout, connection lost): the work may have been done.
UpstreamRaised(i) ==
  /\ Answer(i, "proxy", "failed")
  /\ \/ UNCHANGED <<worked, excuse>>
     \/ Work(Tx(i)) /\ Unsettled(Tx(i))
  /\ UNCHANGED <<now, seen, storeVars, doubt, faults>>

Mark(i) ==
  /\ Goto(i, "mark", "markCommit")
  /\ MarkDelivered(Tx(i))
  /\ UNCHANGED <<now, seen, historyVars>>

CommitMark(i) ==
  /\ Goto(i, "markCommit", "cache")
  /\ Commit
  /\ UNCHANGED <<now, seen, historyVars>>

Cache(i) ==
  /\ Goto(i, "cache", "cacheCommit")
  /\ CacheResponse(Tx(i))
  /\ UNCHANGED <<now, seen, historyVars>>

CommitCache(i) ==
  /\ Answer(i, "cacheCommit", "served")
  /\ Commit
  /\ UNCHANGED <<now, seen, historyVars>>

-----------------------------------------------------------------------------
(* Failures, time and restarts *)

\* The handlers of prepaid packages commit on the same connection.
PrepaidCommit ==
  /\ saved # Tables
  /\ Commit
  /\ UNCHANGED <<now, seen, pc, reply, historyVars>>

Excused(undone, gone) ==
  [t \in Txs |-> excuse[t] \cup (IF t \in undone THEN {"unsettled"} ELSE {})
                          \cup (IF t \in gone   THEN {"unsaved"}   ELSE {})]

\* A store call raised.  The open transaction stays open, with the rows of those in
\* half, or it is taken back, and then every open row and mark is gone.
AfterFault(half, undone) ==
  \/ /\ UNCHANGED storeVars
     /\ excuse' = Excused(undone, {})
     /\ doubt'  = doubt \cup {t \in half : OpenRow(t)}
  \/ /\ RollBack
     /\ excuse' = Excused(undone, {t \in Txs : Unsaved(t)})
     /\ doubt'  = doubt \cup {t \in Txs : OpenRow(t)}

\* Of a handler of prepaid packages.
PrepaidFault ==
  /\ faults < MaxFaults
  /\ saved # Tables
  /\ AfterFault({}, {})
  /\ faults' = faults + 1
  /\ UNCHANGED <<now, seen, pc, reply, worked>>

StorePlaces == {"status", "cached", "record", "commitNew", "commitOld", "recheck",
                "mark", "markCommit", "cache", "cacheCommit"}

At(i, place) == IF pc[i] = place THEN {Tx(i)} ELSE {}

\* Of a handler: 500 before upstream was called, 502 after it.
StoreFault(i) ==
  /\ faults < MaxFaults
  /\ \E p \in StorePlaces : Answer(i, p, "failed")
  /\ AfterFault(At(i, "commitNew"), At(i, "mark"))
  /\ faults' = faults + 1
  /\ UNCHANGED <<now, seen, worked>>

\* What was not committed is gone, and so is what is old.
Restart ==
  /\ faults < MaxFaults
  /\ pc' = [i \in Requests |-> IF pc[i] = "idle" THEN "idle" ELSE "done"]
  /\ Nonce!Forget
  /\ Reopen
  /\ LET undone == {t \in Txs : \E i \in Requests : Tx(i) = t /\ pc[i] = "mark"}
         known  == Excused(undone, {t \in Txs : Unsaved(t)})
     IN excuse' = [t \in Txs |-> IF TooOld(saved.recordedAt[t])
                                 THEN known[t] \cup {"forgotten"} ELSE known[t]]
  /\ doubt' = {}
  /\ faults' = faults + 1
  /\ UNCHANGED <<now, reply, worked>>

Tick ==
  /\ now < MaxTime
  /\ now' = now + 1
  /\ UNCHANGED <<seen, storeVars, pc, reply, historyVars>>

-----------------------------------------------------------------------------

Handle(i) ==
  \/ RejectEarly(i) \/ ReplayRejected(i) \/ ReplayAccepted(i)
  \/ VerifyFailed(i) \/ Verified(i)
  \/ StatusExpired(i) \/ StatusWithinGrace(i) \/ StatusNew(i)
  \/ ServeCached(i) \/ NotCached(i)
  \/ Record(i) \/ CommitRecord(i) \/ RecheckExpired(i) \/ RecheckOpen(i)
  \/ UpstreamOk(i) \/ UpstreamError(i) \/ UpstreamRaised(i)
  \/ Mark(i) \/ CommitMark(i) \/ Cache(i) \/ CommitCache(i)

AllAnswered ==
  /\ \A i \in Requests : pc[i] = "done"
  /\ UNCHANGED vars

Next ==
  \/ \E i \in Requests : Handle(i) \/ StoreFault(i)
  \/ PrepaidCommit \/ PrepaidFault
  \/ Tick
  \/ Restart
  \/ AllAnswered

Spec == Init /\ [][Next]_vars

TypeOK ==
  /\ Nonce!GuardTypeOK
  /\ StoreTypeOK
  /\ pc     \in [Requests -> PC]
  /\ reply  \in [Requests -> Replies]
  /\ worked \in [Txs -> 0..2]
  /\ excuse \in [Txs -> SUBSET Excuses]
  /\ doubt  \subseteq Txs
  /\ faults \in Nat

-----------------------------------------------------------------------------
(* Properties *)

\* How a payment stands with the gateway.
StandingOf(status) == CASE status = "NEW"          -> "fresh"
                        [] status = "WITHIN_GRACE" -> "open"
                        [] status = "EXPIRED"      -> "closed"

SavedStatus(t) == RowStatus(saved.recordedAt[t], saved.delivered[t])

Promise == INSTANCE Receipt
             WITH receipt <- [t \in Txs |-> StandingOf(TxStatus(t))],
                  written <- [t \in Txs |-> StandingOf(SavedStatus(t))]

\* Requests racing for one payment, its expiry, and restarts that prune it never
\* open a closed receipt again and never forget an open one, but for what had no
\* commit yet: statements and commits are two awaits (replay_guard.py:281-285,
\* 298-302), and only a failing store or a restart in between takes one back.
KeepsReceipts == Promise!Spec

\* Upstream is called only for a payment whose row is saved, so that a gateway that
\* dies during the call still knows it was used; or whose row another request has
\* inserted and is about to commit; or after a store call failed while the row had
\* no commit: then the row may be lost (replay_guard.py:281-285).
WorkIsRecorded ==
  \A i \in Requests :
    pc[i] \in {"proxy", "mark", "markCommit", "cache", "cacheCommit"} /\ Tx(i) \notin doubt =>
      /\ Known(Tx(i))
      /\ \/ saved.recordedAt[Tx(i)] # Never
         \/ \E j \in Requests : Tx(j) = Tx(i) /\ pc[j] = "commitNew"

\* A buyer is given a good answer, from upstream or from the cache, only if
\* upstream gave one for this payment.
AnswerIsEarned ==
  \A i \in Requests : reply[i] \in {"served", "cached"} => worked[Tx(i)] > 0

\* Upstream works twice for one payment only if the requests overlapped, if the
\* first answer could not be recorded, if its row or mark was lost before it was
\* committed, or if a restart had pruned it.
RepeatHasExcuse == \A t \in Txs : worked[t] > 1 => excuse[t] # {}
=============================================================================
