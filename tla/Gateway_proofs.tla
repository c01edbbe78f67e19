--------------------------- MODULE Gateway_proofs ---------------------------
(***************************************************************************)
(* For any number of requests, payments, restarts and faults, and for any  *)
(* grace window that is not longer than the pruning age: work is recorded  *)
(* before it is done, as far as a store with open statements can, answers  *)
(* are earned, repeated work has an excuse, and the consumed-transaction   *)
(* table implements the receipts' promise.                                 *)
(***************************************************************************)
EXTENDS Gateway, TLAPS

-----------------------------------------------------------------------------
(* Type correctness *)

LEMMA InitTypeOK == Init => TypeOK
<1> SUFFICES ASSUME Init PROVE TypeOK
  OBVIOUS
<1> QED
  BY DEF Init, StoreInit, Tables, Nonce!GuardInit, TypeOK, Nonce!GuardTypeOK,
     StoreTypeOK, PC, Replies, Never

LEMMA MessageTypes ==
  ASSUME NEW i \in Requests
  PROVE  /\ Tx(i) \in Txs
         /\ Message[i].nonce \in Nonces /\ Message[i].stamp \in Int \cup {NaN}
  BY MessageAssumption DEF Tx

\* The steps that neither touch the store nor the nonces.
Quiet(i) ==
  \/ RejectEarly(i) \/ VerifyFailed(i) \/ Verified(i) \/ StatusExpired(i)
  \/ ServeCached(i) \/ NotCached(i) \/ RecheckExpired(i) \/ RecheckOpen(i)
  \/ UpstreamError(i)

\* The steps that write a table, and those that commit.
Writes(i)  == Record(i) \/ Mark(i) \/ Cache(i)
Commits(i) == CommitRecord(i) \/ CommitMark(i) \/ CommitCache(i)

\* What a committed, a rolled back and a reopened store has in its columns.
LEMMA Columns ==
  /\ Commit => /\ saved'.recordedAt = recordedAt /\ saved'.delivered = delivered
               /\ saved'.cachedAt = cachedAt
               /\ UNCHANGED <<recordedAt, delivered, cachedAt>>
  /\ RollBack => /\ recordedAt' = saved.recordedAt /\ delivered' = saved.delivered
                 /\ cachedAt' = saved.cachedAt /\ saved' = saved
  /\ Reopen => /\ saved'.recordedAt = recordedAt' /\ saved'.delivered = delivered'
               /\ saved'.cachedAt = cachedAt'
  BY DEF Commit, RollBack, Reopen, Tables, tableVars

LEMMA StoreTypes ==
  ASSUME TypeOK, Commit \/ RollBack \/ Reopen
  PROVE  StoreTypeOK'
<1>1. CASE Commit
  BY <1>1 DEF Commit, Tables, tableVars, TypeOK, StoreTypeOK
<1>2. CASE RollBack
  BY <1>2 DEF RollBack, TypeOK, StoreTypeOK
<1>3. CASE Reopen
  BY <1>3 DEF Reopen, Tables, TypeOK, StoreTypeOK
<1> QED BY <1>1, <1>2, <1>3

LEMMA ExcusedTypes ==
  ASSUME TypeOK, NEW undone, NEW gone
  PROVE  Excused(undone, gone) \in [Txs -> SUBSET Excuses]
  BY DEF Excused, Excuses, TypeOK

LEMMA FaultTypes ==
  ASSUME TypeOK, NEW half \in SUBSET Txs, NEW undone, AfterFault(half, undone)
  PROVE  StoreTypeOK' /\ excuse' \in [Txs -> SUBSET Excuses] /\ doubt' \subseteq Txs
<1>1. CASE UNCHANGED storeVars
  BY <1>1, ExcusedTypes DEF AfterFault, TypeOK, StoreTypeOK, storeVars, tableVars
<1>2. CASE RollBack
  BY <1>2, ExcusedTypes, StoreTypes DEF AfterFault, TypeOK
<1> QED BY <1>1, <1>2 DEF AfterFault

LEMMA NextTypeOK == TypeOK /\ [Next]_vars => TypeOK'
<1> SUFFICES ASSUME TypeOK, [Next]_vars PROVE TypeOK'
  OBVIOUS
<1> USE DEF tableVars, storeVars, historyVars
<1>1. ASSUME NEW i \in Requests, Quiet(i) PROVE TypeOK'
  BY <1>1 DEF Quiet, RejectEarly, VerifyFailed, Verified, StatusExpired,
     ServeCached, NotCached, RecheckExpired, RecheckOpen, UpstreamError,
     Goto, Answer, TypeOK, Nonce!GuardTypeOK, StoreTypeOK, PC, Replies
<1>2. ASSUME NEW i \in Requests, ReplayRejected(i) \/ ReplayAccepted(i)
      PROVE  TypeOK'
  <2>1. Nonce!GuardTypeOK'
    BY <1>2, MessageTypes
       DEF ReplayRejected, ReplayAccepted, Nonce!Refuse, Nonce!RefuseStale,
           Nonce!RefuseDuplicate, Nonce!RefuseOverload, Nonce!Accept,
           Nonce!Pruned, Nonce!Live, TypeOK, Nonce!GuardTypeOK
  <2> QED
    BY <1>2, <2>1 DEF ReplayRejected, ReplayAccepted, Goto, Answer, TypeOK,
       StoreTypeOK, PC, Replies
<1>3. ASSUME NEW i \in Requests, StatusWithinGrace(i) \/ StatusNew(i)
      PROVE  TypeOK'
  BY <1>3, MessageTypes DEF StatusWithinGrace, StatusNew, NoteOverlap, Goto,
     TypeOK, Nonce!GuardTypeOK, StoreTypeOK, PC, Excuses
<1>4. ASSUME NEW i \in Requests, Writes(i)
      PROVE  TypeOK'
  <2>1. StoreTypeOK'
    BY <1>4, MessageTypes DEF Writes, Record, Mark, Cache, RecordTx, MarkDelivered,
       CacheResponse, Known, TypeOK, StoreTypeOK, Nonce!GuardTypeOK
  <2>2. pc' \in [Requests -> PC] /\ reply' \in [Requests -> Replies]
    BY <1>4 DEF Writes, Record, Mark, Cache, Goto, TypeOK, PC, Replies
  <2> QED
    BY <1>4, <2>1, <2>2 DEF Writes, Record, Mark, Cache, TypeOK, Nonce!GuardTypeOK
<1>10. ASSUME NEW i \in Requests, Commits(i)
      PROVE  TypeOK'
  <2>1. StoreTypeOK'
    BY <1>10, StoreTypes DEF Commits, CommitRecord, CommitMark, CommitCache
  <2>2. pc' \in [Requests -> PC] /\ reply' \in [Requests -> Replies]
    BY <1>10 DEF Commits, CommitRecord, CommitMark, CommitCache, Goto, Answer,
       TypeOK, PC, Replies
  <2> QED
    BY <1>10, <2>1, <2>2 DEF Commits, CommitRecord, CommitMark, CommitCache,
       TypeOK, Nonce!GuardTypeOK
<1>5. ASSUME NEW i \in Requests, UpstreamOk(i) \/ UpstreamRaised(i)
      PROVE  TypeOK'
  <2>1. ASSUME Work(Tx(i)) PROVE worked' \in [Txs -> 0..2]
    <3>1. worked[Tx(i)] \in 0..2
      BY MessageTypes DEF TypeOK
    <3>2. (IF worked[Tx(i)] < 2 THEN worked[Tx(i)] + 1 ELSE worked[Tx(i)])
            \in 0..2
      BY <3>1
    <3> QED BY <2>1, <3>2 DEF Work, TypeOK
  <2>2. ASSUME Unsettled(Tx(i)) PROVE excuse' \in [Txs -> SUBSET Excuses]
    BY <2>2, MessageTypes DEF Unsettled, Excuses, TypeOK
  <2>3. worked' \in [Txs -> 0..2] /\ excuse' \in [Txs -> SUBSET Excuses]
    BY <1>5, <2>1, <2>2 DEF UpstreamOk, UpstreamRaised, TypeOK
  <2> QED
    BY <1>5, <2>3 DEF UpstreamOk, UpstreamRaised, Goto, Answer, TypeOK,
       Nonce!GuardTypeOK, StoreTypeOK, PC, Replies
<1>6. ASSUME NEW i \in Requests, StoreFault(i) PROVE TypeOK'
  <2>1. StoreTypeOK' /\ excuse' \in [Txs -> SUBSET Excuses] /\ doubt' \subseteq Txs
    <3>1. At(i, "commitNew") \in SUBSET Txs
      BY MessageTypes DEF At
    <3> QED BY <1>6, <3>1, FaultTypes DEF StoreFault
  <2> QED
    BY <1>6, <2>1 DEF StoreFault, Answer, TypeOK, Nonce!GuardTypeOK, PC, Replies
<1>11. CASE PrepaidFault
  <2>1. StoreTypeOK' /\ excuse' \in [Txs -> SUBSET Excuses] /\ doubt' \subseteq Txs
    BY <1>11, FaultTypes DEF PrepaidFault
  <2> QED
    BY <1>11, <2>1 DEF PrepaidFault, TypeOK, Nonce!GuardTypeOK
<1>12. CASE PrepaidCommit
  BY <1>12, StoreTypes DEF PrepaidCommit, TypeOK, Nonce!GuardTypeOK
<1>7. CASE Restart
  <2>1. excuse' \in [Txs -> SUBSET Excuses]
    <3> DEFINE undone == {t \in Txs : \E i \in Requests : Tx(i) = t /\ pc[i] = "mark"}
               known  == Excused(undone, {t \in Txs : Unsaved(t)})
    <3>1. known \in [Txs -> SUBSET Excuses]
      BY ExcusedTypes
    <3>2. excuse' = [t \in Txs |-> IF TooOld(saved.recordedAt[t])
                                   THEN known[t] \cup {"forgotten"} ELSE known[t]]
      BY <1>7 DEF Restart
    <3> HIDE DEF known
    <3> QED BY <3>1, <3>2 DEF Excuses
  <2>2. StoreTypeOK'
    BY <1>7, StoreTypes DEF Restart
  <2>3. /\ pc' = [i \in Requests |-> IF pc[i] = "idle" THEN "idle" ELSE "done"]
        /\ Nonce!Forget /\ doubt' = {} /\ faults' = faults + 1
        /\ UNCHANGED <<now, reply, worked>>
    BY <1>7 DEF Restart
  <2> QED
    BY <2>1, <2>2, <2>3 DEF Nonce!Forget, TypeOK, Nonce!GuardTypeOK, PC
<1>8. CASE Tick
  BY <1>8 DEF Tick, TypeOK, Nonce!GuardTypeOK, StoreTypeOK
<1>9. CASE UNCHANGED vars
  BY <1>9 DEF vars, TypeOK, Nonce!GuardTypeOK, StoreTypeOK
<1> QED
  BY <1>1, <1>2, <1>3, <1>4, <1>5, <1>6, <1>7, <1>8, <1>9, <1>10, <1>11, <1>12
     DEF Next, Handle, Quiet, Writes, Commits, AllAnswered

\* Every variable keeps its type, for any requests, payments and bounds.
THEOREM TypeCorrect == Spec => []TypeOK
<1> QED BY InitTypeOK, NextTypeOK, PTL DEF Spec

-----------------------------------------------------------------------------
(* The store, and what was worked for *)

LetIn == {"cached", "commitNew", "commitOld", "recheck", "proxy", "mark", "markCommit",
          "cache", "cacheCommit"}
Done  == {"mark", "markCommit", "cache", "cacheCommit"}

\* What the tables say of a payment is so, and what is saved of it they say too.
StoreInv == \A t \in Txs :
  /\ recordedAt[t] <= now /\ saved.recordedAt[t] <= now
  /\ delivered[t] => Known(t)
  /\ saved.recordedAt[t] # Never => recordedAt[t] = saved.recordedAt[t]
  /\ saved.delivered[t] => saved.recordedAt[t] # Never /\ delivered[t]
  /\ cachedAt[t] # Never \/ saved.cachedAt[t] # Never => worked[t] > 0

\* A row is saved, or about to be committed, or has met a failing store call.
RowInv == \A t \in Txs :
  Known(t) /\ t \notin doubt =>
    \/ saved.recordedAt[t] # Never
    \/ \E j \in Requests : Tx(j) = t /\ pc[j] = "commitNew"

\* What a request relies on wherever its handler is.
RequestInv == \A i \in Requests :
  /\ pc[i] \in LetIn => \/ Known(Tx(i))
                        \/ Tx(i) \in doubt /\ "unsaved" \in excuse[Tx(i)]
  /\ pc[i] \in Done => worked[Tx(i)] > 0
  /\ reply[i] \in {"served", "cached"} => worked[Tx(i)] > 0

IInv == TypeOK /\ StoreInv /\ RowInv /\ RequestInv

LEMMA InitIInv == Init => IInv
<1> SUFFICES ASSUME Init PROVE IInv
  OBVIOUS
<1>1. TypeOK
  BY InitTypeOK
<1>2. saved = Tables
  BY DEF Init, StoreInit
<1> QED
  BY <1>1, <1>2, MessageTypes
     DEF Init, StoreInit, Tables, Nonce!GuardInit, IInv, StoreInv, RowInv, RequestInv,
         Known, Never, LetIn, Done

\* Steps that leave the store alone and work for nobody.
LEMMA QuietIInv ==
  ASSUME IInv, TypeOK', UNCHANGED storeVars, UNCHANGED <<now, worked>>,
         NEW i \in Requests, pc[i] # "commitNew",
         \A j \in Requests \ {i} : pc'[j] = pc[j] /\ reply'[j] = reply[j],
         doubt \subseteq doubt', \A t \in Txs : excuse[t] \subseteq excuse'[t],
         pc'[i] \in LetIn => pc[i] \in LetIn \/ Known(Tx(i)),
         pc'[i] \in Done => worked[Tx(i)] > 0,
         reply'[i] \in {"served", "cached"} => worked[Tx(i)] > 0
  PROVE  IInv'
<1>0. UNCHANGED <<recordedAt, delivered, cachedAt, saved>>
  BY DEF storeVars, tableVars
<1>1. StoreInv'
  BY <1>0 DEF IInv, StoreInv, Known
<1>2. RowInv'
  BY <1>0 DEF IInv, RowInv, Known, Tx
<1>3. RequestInv'
  BY <1>0, MessageTypes DEF IInv, RequestInv, Known, Tx
<1> QED BY <1>1, <1>2, <1>3 DEF IInv

\* A commit saves every open row; a rollback leaves none.
LEMMA CommitInv ==
  ASSUME IInv, Commit, UNCHANGED <<now, worked>>
  PROVE  StoreInv' /\ RowInv' /\ \A t \in Txs : Known(t)' = Known(t)
<1> USE Columns
<1>1. StoreInv'
  BY DEF IInv, StoreInv, Known
<1>2. RowInv'
  BY DEF RowInv, Known
<1> QED BY <1>1, <1>2 DEF Known

LEMMA RollBackInv ==
  ASSUME IInv, RollBack, UNCHANGED <<now, worked>>,
         \A t \in Txs : OpenRow(t) => t \in doubt' /\ "unsaved" \in excuse'[t]
  PROVE  /\ StoreInv' /\ RowInv'
         /\ \A t \in Txs : \/ Known(t)' = Known(t)
                           \/ t \in doubt' /\ "unsaved" \in excuse'[t]
<1> USE Columns
<1>1. StoreInv'
  BY DEF IInv, StoreInv, Known
<1>2. RowInv'
  BY DEF RowInv, Known
<1>3. ASSUME NEW t \in Txs, ~OpenRow(t) PROVE Known(t)' = Known(t)
  BY <1>3 DEF OpenRow, Known
<1> QED BY <1>1, <1>2, <1>3

\* After a failing store call.
LEMMA FaultInv ==
  ASSUME IInv, NEW half \in SUBSET Txs, NEW undone, AfterFault(half, undone),
         UNCHANGED <<now, worked>>
  PROVE  /\ StoreInv'
         /\ doubt \subseteq doubt' /\ \A t \in Txs : excuse[t] \subseteq excuse'[t]
         /\ \A t \in Txs : \/ Known(t)' = Known(t)
                           \/ t \in doubt' /\ "unsaved" \in excuse'[t]
         /\ \/ RowInv'
            \/ UNCHANGED storeVars /\ \A t \in half : OpenRow(t) => t \in doubt'
<1>0. TypeOK
  BY DEF IInv
<1>1. CASE UNCHANGED storeVars /\ excuse' = Excused(undone, {})
           /\ doubt' = doubt \cup {t \in half : OpenRow(t)}
  <2>1. UNCHANGED <<recordedAt, delivered, cachedAt, saved>>
    BY <1>1 DEF storeVars, tableVars
  <2>2. StoreInv' /\ \A t \in Txs : Known(t)' = Known(t)
    BY <2>1 DEF IInv, StoreInv, Known
  <2>3. \A t \in Txs : excuse[t] \subseteq excuse'[t]
    BY <1>1 DEF Excused
  <2> QED BY <1>1, <2>2, <2>3
<1>2. CASE RollBack /\ excuse' = Excused(undone, {t \in Txs : Unsaved(t)})
           /\ doubt' = doubt \cup {t \in Txs : OpenRow(t)}
  <2>1. \A t \in Txs : OpenRow(t) => t \in doubt' /\ "unsaved" \in excuse'[t]
    BY <1>2 DEF Excused, Unsaved
  <2>2. \A t \in Txs : excuse[t] \subseteq excuse'[t]
    BY <1>2 DEF Excused
  <2> QED BY <1>2, <2>1, <2>2, RollBackInv
<1> QED BY <1>1, <1>2 DEF AfterFault

LEMMA NextIInv == IInv /\ [Next]_vars => IInv'
<1> SUFFICES ASSUME IInv, [Next]_vars PROVE IInv'
  OBVIOUS
<1> USE DEF historyVars
<1>0. TypeOK /\ TypeOK'
  BY NextTypeOK DEF IInv
<1>1. ASSUME NEW i \in Requests,
             Quiet(i) \/ ReplayRejected(i) \/ ReplayAccepted(i)
      PROVE  IInv'
  <2>1. /\ UNCHANGED storeVars /\ UNCHANGED <<now, worked, excuse, doubt>>
        /\ \A j \in Requests \ {i} : pc'[j] = pc[j] /\ reply'[j] = reply[j]
    BY <1>0, <1>1 DEF Quiet, RejectEarly, VerifyFailed, Verified, StatusExpired,
       ServeCached, NotCached, RecheckExpired, RecheckOpen, UpstreamError,
       ReplayRejected, ReplayAccepted, Goto, Answer, TypeOK
  <2>2. /\ pc'[i] \in LetIn => pc[i] \in LetIn
        /\ pc'[i] \notin Done /\ pc[i] # "commitNew"
        /\ \/ reply'[i] = reply[i]
           \/ reply'[i] \in {"refused", "challenged", "failed"}
           \/ reply'[i] = "cached" /\ cachedAt[Tx(i)] # Never
    BY <1>0, <1>1 DEF Quiet, RejectEarly, VerifyFailed, Verified, StatusExpired,
       ServeCached, NotCached, RecheckExpired, RecheckOpen, UpstreamError,
       ReplayRejected, ReplayAccepted, Goto, Answer, TypeOK, LetIn, Done
  <2> QED
    BY <1>0, <2>1, <2>2, QuietIInv, MessageTypes DEF IInv, StoreInv, RequestInv
<1>2. ASSUME NEW i \in Requests, StatusWithinGrace(i) \/ StatusNew(i)
      PROVE  IInv'
  <2>1. /\ UNCHANGED storeVars /\ UNCHANGED <<now, worked, doubt>>
        /\ \A j \in Requests \ {i} : pc'[j] = pc[j] /\ reply'[j] = reply[j]
        /\ reply'[i] = reply[i] /\ pc[i] # "commitNew"
        /\ \A t \in Txs : excuse[t] \subseteq excuse'[t]
    BY <1>0, <1>2 DEF StatusWithinGrace, StatusNew, NoteOverlap, Goto, TypeOK
  <2>2. TxStatus(Tx(i)) = "WITHIN_GRACE" => Known(Tx(i))
    BY DEF TxStatus, RowStatus, Known
  <2>3. pc'[i] = "record" \/ (pc'[i] = "cached" /\ Known(Tx(i)))
    BY <1>0, <1>2, <2>2 DEF StatusWithinGrace, StatusNew, Goto, TypeOK
  <2> QED BY <1>0, <2>1, <2>3, QuietIInv DEF IInv, RequestInv, LetIn, Done
<1>3. ASSUME NEW i \in Requests, Writes(i)
      PROVE  IInv'
  <2>1. /\ UNCHANGED <<now, worked, excuse, doubt, saved>>
        /\ \A t \in Txs : Known(t) => recordedAt'[t] = recordedAt[t]
        /\ \A t \in Txs : recordedAt'[t] \in {recordedAt[t], now}
        /\ \A t \in Txs : t # Tx(i) => recordedAt'[t] = recordedAt[t]
        /\ \A t \in Txs : delivered'[t] => delivered[t] \/ Known(t)
        /\ \A t \in Txs : delivered[t] => delivered'[t]
        /\ worked[Tx(i)] > 0 \/ cachedAt' = cachedAt
        /\ \A t \in Txs : t # Tx(i) => cachedAt'[t] = cachedAt[t]
    BY <1>0, <1>3, MessageTypes
       DEF Writes, Record, Mark, Cache, RecordTx, MarkDelivered, CacheResponse, Goto,
           Known, TypeOK, StoreTypeOK, Nonce!GuardTypeOK, IInv, StoreInv,
           RequestInv, Done, Never
  <2>2. /\ \A j \in Requests \ {i} : pc'[j] = pc[j]
        /\ reply' = reply /\ pc[i] # "commitNew"
        /\ pc'[i] \in Done => pc[i] \in Done
        /\ pc'[i] \in LetIn => pc[i] \in LetIn \/ recordedAt'[Tx(i)] # Never
        /\ recordedAt'[Tx(i)] # recordedAt[Tx(i)] => pc'[i] = "commitNew"
    BY <1>0, <1>3, MessageTypes
       DEF Writes, Record, Mark, Cache, RecordTx, MarkDelivered, CacheResponse, Goto,
           Known, Never, TypeOK, StoreTypeOK, Nonce!GuardTypeOK, Done, LetIn
  <2>3. StoreInv'
    BY <1>0, <2>1, MessageTypes
       DEF IInv, StoreInv, Known, TypeOK, StoreTypeOK, Nonce!GuardTypeOK
  <2>4. RowInv'
    BY <2>1, <2>2 DEF IInv, RowInv, Known, Tx
  <2>5. RequestInv'
    BY <1>0, <2>1, <2>2, MessageTypes DEF IInv, RequestInv, Known, Tx
  <2> QED BY <1>0, <2>3, <2>4, <2>5 DEF IInv
<1>8. ASSUME NEW i \in Requests, Commits(i)
      PROVE  IInv'
  <2>1. /\ Commit /\ UNCHANGED <<now, worked, excuse, doubt>>
        /\ \A j \in Requests \ {i} : pc'[j] = pc[j] /\ reply'[j] = reply[j]
        /\ pc[i] \in LetIn /\ pc'[i] \in Done => pc[i] \in Done
        /\ pc[i] \in LetIn
        /\ reply'[i] = reply[i] \/ pc[i] \in Done
    BY <1>0, <1>8 DEF Commits, CommitRecord, CommitMark, CommitCache, Goto, Answer,
       TypeOK, LetIn, Done
  <2>2. StoreInv' /\ RowInv' /\ \A t \in Txs : Known(t)' = Known(t)
    BY <2>1, CommitInv
  <2>3. RequestInv'
    BY <2>1, <2>2, MessageTypes DEF IInv, RequestInv, Tx
  <2> QED BY <1>0, <2>2, <2>3 DEF IInv
<1>4. ASSUME NEW i \in Requests, UpstreamOk(i) \/ UpstreamRaised(i)
      PROVE  IInv'
  <2>1. \A t \in Txs : worked[t] > 0 => worked'[t] > 0
    BY <1>0, <1>4, MessageTypes DEF UpstreamOk, UpstreamRaised, Work, TypeOK
  <2>2. pc'[i] = "mark" => worked'[Tx(i)] > 0
    BY <1>0, <1>4, MessageTypes
       DEF UpstreamOk, UpstreamRaised, Work, TypeOK, Goto, Answer
  <2>3. /\ \A j \in Requests \ {i} : pc'[j] = pc[j] /\ reply'[j] = reply[j]
        /\ pc[i] = "proxy" /\ pc'[i] \in {"mark", "done"}
        /\ reply'[i] \in {reply[i], "failed"}
        /\ UNCHANGED <<now, recordedAt, delivered, cachedAt, saved, doubt>>
        /\ \A t \in Txs : excuse[t] \subseteq excuse'[t]
    BY <1>0, <1>4 DEF UpstreamOk, UpstreamRaised, Unsettled, Goto, Answer, TypeOK,
       storeVars, tableVars
  <2>4. StoreInv'
    BY <2>1, <2>3 DEF IInv, StoreInv, Known
  <2>5. RowInv'
    BY <2>3 DEF IInv, RowInv, Known, Tx
  <2>6. RequestInv'
    BY <2>1, <2>2, <2>3, MessageTypes
       DEF IInv, RequestInv, Known, LetIn, Done, Tx
  <2> QED BY <1>0, <2>4, <2>5, <2>6 DEF IInv
<1>9. ASSUME NEW i \in Requests, StoreFault(i)
      PROVE  IInv'
  <2>1. /\ AfterFault(At(i, "commitNew"), At(i, "mark")) /\ UNCHANGED <<now, worked>>
        /\ \A j \in Requests \ {i} : pc'[j] = pc[j] /\ reply'[j] = reply[j]
        /\ pc'[i] = "done" /\ reply'[i] = "failed"
        /\ At(i, "commitNew") \in SUBSET Txs
    BY <1>0, <1>9, MessageTypes DEF StoreFault, Answer, TypeOK, At
  <2>2. /\ StoreInv'
        /\ doubt \subseteq doubt' /\ \A t \in Txs : excuse[t] \subseteq excuse'[t]
        /\ \A t \in Txs : \/ Known(t)' = Known(t)
                          \/ t \in doubt' /\ "unsaved" \in excuse'[t]
        /\ \/ RowInv'
           \/ /\ UNCHANGED storeVars
              /\ \A t \in At(i, "commitNew") : OpenRow(t) => t \in doubt'
    BY <2>1, FaultInv
  <2>3. RowInv'
    <3> SUFFICES ASSUME UNCHANGED <<recordedAt, saved>>,
                        \A t \in At(i, "commitNew") : OpenRow(t) => t \in doubt'
                 PROVE  RowInv'
      BY <2>2 DEF storeVars, tableVars
    <3> SUFFICES ASSUME NEW t \in Txs, Known(t), t \notin doubt',
                        saved.recordedAt[t] = Never
                 PROVE  \E j \in Requests : Tx(j) = t /\ pc'[j] = "commitNew"
      BY DEF RowInv, Known, Tx
    <3>1. PICK j \in Requests : Tx(j) = t /\ pc[j] = "commitNew"
      BY <2>2 DEF IInv, RowInv
    <3>2. j # i
      BY <3>1 DEF At, OpenRow, Known
    <3> QED BY <2>1, <3>1, <3>2
  <2>4. RequestInv'
    BY <2>1, <2>2, MessageTypes DEF IInv, RequestInv, LetIn, Done, Tx
  <2> QED BY <1>0, <2>2, <2>3, <2>4 DEF IInv
<1>10. CASE PrepaidCommit \/ PrepaidFault
  <2>1. UNCHANGED <<now, pc, reply, worked>>
    BY <1>10 DEF PrepaidCommit, PrepaidFault
  <2>2. /\ StoreInv'
        /\ doubt \subseteq doubt' /\ \A t \in Txs : excuse[t] \subseteq excuse'[t]
        /\ \A t \in Txs : \/ Known(t)' = Known(t)
                          \/ t \in doubt' /\ "unsaved" \in excuse'[t]
        /\ RowInv' \/ UNCHANGED storeVars
    <3>1. CASE PrepaidCommit
      BY <2>1, <3>1, CommitInv DEF PrepaidCommit
    <3>2. CASE PrepaidFault
      BY <2>1, <3>2, FaultInv DEF PrepaidFault
    <3> QED BY <1>10, <3>1, <3>2
  <2>3. RowInv'
    BY <2>1, <2>2 DEF IInv, RowInv, Known, Tx, storeVars, tableVars
  <2>4. RequestInv'
    BY <2>1, <2>2, MessageTypes DEF IInv, RequestInv, Tx
  <2> QED BY <1>0, <2>2, <2>3, <2>4 DEF IInv
<1>5. CASE Restart
  <2>1. UNCHANGED <<now, worked, reply>> /\ Reopen
    BY <1>5 DEF Restart
  <2>4. \A t \in Txs :
          /\ recordedAt'[t] = (IF TooOld(saved.recordedAt[t]) THEN Never
                                                        ELSE saved.recordedAt[t])
          /\ delivered'[t] => saved.delivered[t] /\ ~TooOld(saved.recordedAt[t])
          /\ cachedAt'[t] \in {saved.cachedAt[t], Never}
    BY <2>1 DEF Reopen
  <2>5. now \in Nat
    BY <1>0 DEF TypeOK, Nonce!GuardTypeOK
  <2>6. /\ saved'.recordedAt = recordedAt' /\ saved'.delivered = delivered'
        /\ saved'.cachedAt = cachedAt'
    BY <2>1, Columns
  <2>3. StoreInv'
    BY <2>1, <2>4, <2>5, <2>6 DEF IInv, StoreInv, Known, Never
  <2>7. RowInv'
    BY <2>6 DEF RowInv, Known
  <2>8. \A i \in Requests : pc'[i] \in {"idle", "done"}
    BY <1>5 DEF Restart
  <2>2. RequestInv'
    BY <2>1, <2>8 DEF IInv, RequestInv, LetIn, Done, Tx
  <2> QED BY <1>0, <2>3, <2>7, <2>2 DEF IInv
<1>6. CASE Tick
  <2>1. StoreInv'
    BY <1>0, <1>6 DEF Tick, storeVars, tableVars, IInv, StoreInv, Known, TypeOK,
       StoreTypeOK, Nonce!GuardTypeOK, Never
  <2>2. RequestInv' /\ RowInv'
    BY <1>6 DEF Tick, storeVars, tableVars, IInv, RequestInv, RowInv, Known, Tx
  <2> QED BY <1>0, <2>1, <2>2 DEF IInv
<1>7. CASE UNCHANGED vars
  <2>1. StoreInv' /\ RequestInv' /\ RowInv'
    BY <1>7 DEF vars, storeVars, tableVars, IInv, StoreInv, RequestInv, RowInv, Known, Tx
  <2> QED BY <1>0, <2>1 DEF IInv
<1> QED
  BY <1>1, <1>2, <1>3, <1>4, <1>5, <1>6, <1>7, <1>8, <1>9, <1>10
     DEF Next, Handle, Quiet, Writes, Commits, AllAnswered

\* The inductive invariant: the rows, what is saved of them, the requests in
\* flight and what was answered stay in step through every interleaving, fault and
\* restart.
THEOREM InvariantCorrect == Spec => []IInv
<1> QED BY InitIInv, NextIInv, PTL DEF Spec

\* No upstream call is made for a payment that a dying gateway would forget, but for
\* a row that another request is committing or that met a failing store call.
THEOREM WorkRecorded == Spec => []WorkIsRecorded
<1>1. IInv => WorkIsRecorded
  <2> SUFFICES ASSUME IInv, NEW i \in Requests, pc[i] \in LetIn, Tx(i) \notin doubt
               PROVE  /\ Known(Tx(i))
                      /\ \/ saved.recordedAt[Tx(i)] # Never
                         \/ \E j \in Requests : Tx(j) = Tx(i) /\ pc[j] = "commitNew"
    BY DEF WorkIsRecorded, LetIn
  <2> QED BY MessageTypes DEF IInv, RequestInv, RowInv
<1> QED BY <1>1, InvariantCorrect, PTL

\* A good answer, cached or not, is upstream's for this very payment.
THEOREM AnswersEarned == Spec => []AnswerIsEarned
<1>1. IInv => AnswerIsEarned
  BY DEF IInv, RequestInv, AnswerIsEarned
<1> QED BY <1>1, InvariantCorrect, PTL


-----------------------------------------------------------------------------
(* The tables implement the receipts' promise *)

Standing(recorded, done) == StandingOf(RowStatus(recorded, done))

LEMMA Standings ==
  ASSUME NEW recorded, NEW done \in BOOLEAN
  PROVE  /\ recorded = Never => Standing(recorded, done) = "fresh"
         /\ recorded # Never /\ (done \/ now - recorded > Grace)
              => Standing(recorded, done) = "closed"
         /\ recorded # Never /\ ~(done \/ now - recorded > Grace)
              => Standing(recorded, done) = "open"
         /\ Standing(recorded, done) \in Promise!Standing
  BY DEF Standing, StandingOf, RowStatus, Promise!Standing

\* What a step that goes on may do to a row, and to what is saved of it.
RowKept(t)   == UNCHANGED <<recordedAt[t], delivered[t], now>>
RowOpened(t) ==
  ~Known(t) /\ recordedAt'[t] = now /\ delivered'[t] = delivered[t] /\ now' = now
RowMarked(t) ==
  Known(t) /\ recordedAt'[t] = recordedAt[t] /\ delivered'[t] /\ now' = now
SavedKept(t) == UNCHANGED <<saved.recordedAt[t], saved.delivered[t]>>
SavedRow(t)  ==
  saved'.recordedAt[t] = recordedAt'[t] /\ saved'.delivered[t] = delivered'[t]

OnwardRow(t) ==
  \/ (RowKept(t) \/ RowOpened(t) \/ RowMarked(t)) /\ SavedKept(t)
  \/ RowKept(t) /\ SavedRow(t)
  \/ now' = now + 1 /\ UNCHANGED <<recordedAt[t], delivered[t]>> /\ SavedKept(t)

\* After a step back a row is what is saved of it, which may be pruned.
BackRow(t) ==
  /\ SavedRow(t) /\ now' = now
  /\ \/ SavedKept(t)
     \/ TooOld(saved.recordedAt[t]) /\ saved'.recordedAt[t] = Never

LEMMA StepsOfRows ==
  ASSUME IInv, [Next]_vars
  PROVE  (\A t \in Txs : OnwardRow(t)) \/ (\A t \in Txs : BackRow(t))
<1> USE DEF historyVars, storeVars, tableVars
<1>0. TypeOK
  BY DEF IInv
<1>1. ASSUME NEW i \in Requests,
             \/ Quiet(i) \/ ReplayRejected(i) \/ ReplayAccepted(i)
             \/ StatusWithinGrace(i) \/ StatusNew(i)
             \/ UpstreamOk(i) \/ UpstreamRaised(i) \/ Cache(i)
      PROVE  \A t \in Txs : OnwardRow(t)
  <2>1. UNCHANGED <<recordedAt, delivered, now, saved>>
    BY <1>1 DEF Quiet, RejectEarly, VerifyFailed, Verified, StatusExpired,
       ServeCached, NotCached, RecheckExpired, RecheckOpen, UpstreamError,
       ReplayRejected, ReplayAccepted, StatusWithinGrace, StatusNew,
       UpstreamOk, UpstreamRaised, Cache, CacheResponse
  <2> QED BY <2>1 DEF OnwardRow, RowKept, SavedKept
<1>2. ASSUME NEW i \in Requests, Record(i) PROVE \A t \in Txs : OnwardRow(t)
  BY <1>0, <1>2 DEF Record, RecordTx, OnwardRow, RowKept, RowOpened, SavedKept, Known,
     TypeOK, StoreTypeOK
<1>3. ASSUME NEW i \in Requests, Mark(i) PROVE \A t \in Txs : OnwardRow(t)
  <2>1. UNCHANGED <<recordedAt, now, saved>>
        /\ delivered' = [delivered EXCEPT ![Tx(i)] = Known(Tx(i))]
    BY <1>3 DEF Mark, MarkDelivered
  <2>2. ASSUME NEW t \in Txs, t = Tx(i), Known(t) PROVE RowMarked(t)
    BY <1>0, <2>1, <2>2 DEF RowMarked, TypeOK, StoreTypeOK
  <2>3. ASSUME NEW t \in Txs, t # Tx(i) \/ ~Known(t) PROVE RowKept(t)
    <3>1. delivered[t] \in BOOLEAN /\ (~Known(t) => ~delivered[t])
      BY <1>0 DEF TypeOK, StoreTypeOK, IInv, StoreInv
    <3>2. delivered'[t] = IF t = Tx(i) THEN Known(t) ELSE delivered[t]
      BY <1>0, <2>1 DEF TypeOK, StoreTypeOK
    <3>3. delivered'[t] = delivered[t]
      <4>1. CASE t = Tx(i)
        <5>1. ~Known(t) /\ ~delivered'[t] /\ delivered'[t] = Known(t)
          BY <2>3, <3>2, <4>1
        <5>2. delivered[t] = FALSE /\ Known(t) = FALSE
          BY <3>1, <5>1 DEF Known
        <5> QED BY <5>1, <5>2
      <4>2. CASE t # Tx(i)
        BY <3>2, <4>2
      <4> QED BY <4>1, <4>2
    <3> QED BY <2>1, <3>3 DEF RowKept
  <2> QED BY <2>1, <2>2, <2>3 DEF OnwardRow, SavedKept
<1>4. ASSUME Commit, now' = now PROVE \A t \in Txs : OnwardRow(t)
  BY <1>4, Columns DEF OnwardRow, RowKept, SavedRow
<1>5. ASSUME NEW half, NEW undone, AfterFault(half, undone), now' = now
      PROVE  (\A t \in Txs : OnwardRow(t)) \/ (\A t \in Txs : BackRow(t))
  <2>1. CASE UNCHANGED storeVars
    BY <1>5, <2>1 DEF OnwardRow, RowKept, SavedKept
  <2>2. CASE RollBack
    BY <1>5, <2>2, Columns DEF BackRow, SavedRow, SavedKept
  <2> QED BY <1>5, <2>1, <2>2 DEF AfterFault
<1>6. CASE Restart
  <2>1. Reopen /\ now' = now
    BY <1>6 DEF Restart
  <2>2. ASSUME NEW t \in Txs PROVE BackRow(t)
    <3>1. SavedRow(t)
      BY <2>1, Columns DEF SavedRow
    <3>2. CASE TooOld(saved.recordedAt[t])
      BY <2>1, <3>1, <3>2 DEF Reopen, BackRow, SavedRow
    <3>3. CASE ~TooOld(saved.recordedAt[t])
      <4>1. recordedAt'[t] = saved.recordedAt[t] /\ delivered'[t] = saved.delivered[t]
        BY <1>0, <2>1, <3>3 DEF Reopen, TypeOK, StoreTypeOK
      <4> QED BY <2>1, <3>1, <4>1 DEF BackRow, SavedRow, SavedKept
    <3> QED BY <3>2, <3>3
  <2> QED BY <2>2
<1>7. CASE Tick \/ UNCHANGED vars
  BY <1>7 DEF Tick, vars, OnwardRow, RowKept, SavedKept
<1>8. ASSUME NEW i \in Requests, Commits(i) PROVE \A t \in Txs : OnwardRow(t)
  BY <1>4, <1>8 DEF Commits, CommitRecord, CommitMark, CommitCache
<1>9. ASSUME NEW i \in Requests, StoreFault(i)
      PROVE  (\A t \in Txs : OnwardRow(t)) \/ (\A t \in Txs : BackRow(t))
  BY <1>5, <1>9 DEF StoreFault
<1>10. CASE PrepaidCommit
  BY <1>4, <1>10 DEF PrepaidCommit
<1>11. CASE PrepaidFault
  BY <1>5, <1>11 DEF PrepaidFault
<1> QED
  BY <1>1, <1>2, <1>3, <1>6, <1>7, <1>8, <1>9, <1>10, <1>11
     DEF Next, Handle, Quiet, Commits, AllAnswered

\* What the moves of a row are for its receipt.
Seen(t)    == Standing(recordedAt[t], delivered[t])
Written(t) == Standing(saved.recordedAt[t], saved.delivered[t])

LEMMA RowTypes ==
  ASSUME IInv, NEW t \in Txs
  PROVE  /\ now \in Nat /\ recordedAt[t] \in Nat \cup {Never}
         /\ delivered[t] \in BOOLEAN /\ saved.delivered[t] \in BOOLEAN
         /\ saved.recordedAt[t] \in Nat \cup {Never}
         /\ delivered[t] => Known(t)
         /\ saved.recordedAt[t] # Never => recordedAt[t] = saved.recordedAt[t]
         /\ saved.delivered[t] => saved.recordedAt[t] # Never /\ delivered[t]
  BY DEF IInv, TypeOK, StoreTypeOK, Nonce!GuardTypeOK, StoreInv

LEMMA NextStandings ==
  ASSUME IInv', NEW t \in Txs
  PROVE  /\ recordedAt'[t] = Never => Seen(t)' = "fresh"
         /\ recordedAt'[t] # Never /\ (delivered'[t] \/ now' - recordedAt'[t] > Grace)
              => Seen(t)' = "closed"
         /\ recordedAt'[t] # Never /\ ~(delivered'[t] \/ now' - recordedAt'[t] > Grace)
              => Seen(t)' = "open"
         /\ saved'.recordedAt[t] = Never => Written(t)' = "fresh"
         /\ saved'.recordedAt[t] # Never
            /\ (saved'.delivered[t] \/ now' - saved'.recordedAt[t] > Grace)
              => Written(t)' = "closed"
         /\ saved'.recordedAt[t] # Never
            /\ ~(saved'.delivered[t] \/ now' - saved'.recordedAt[t] > Grace)
              => Written(t)' = "open"
  BY DEF Seen, Written, Standing, StandingOf, RowStatus

LEMMA OnwardIsMove ==
  ASSUME IInv, IInv', NEW t \in Txs, OnwardRow(t)
  PROVE  /\ Seen(t)' # Seen(t) => <<Seen(t), Seen(t)'>> \in Promise!Moves
         /\ Written(t)' \in {Written(t), Seen(t)'}
<1> USE GraceAssumption
<1>0. /\ now \in Nat /\ recordedAt[t] \in Nat \cup {Never}
      /\ delivered[t] \in BOOLEAN /\ saved.delivered[t] \in BOOLEAN
      /\ saved.recordedAt[t] \in Nat \cup {Never}
      /\ delivered[t] => Known(t)
      /\ saved.recordedAt[t] # Never => recordedAt[t] = saved.recordedAt[t]
      /\ saved.delivered[t] => saved.recordedAt[t] # Never /\ delivered[t]
  BY RowTypes
<1>1. ASSUME RowKept(t) PROVE Seen(t)' = Seen(t)
  BY <1>1 DEF RowKept, Seen, Standing, StandingOf, RowStatus
<1>2. ASSUME SavedKept(t), now' = now PROVE Written(t)' = Written(t)
  BY <1>2 DEF SavedKept, Written, Standing, StandingOf, RowStatus
<1>3. ASSUME SavedRow(t) PROVE Written(t)' = Seen(t)'
  BY <1>3 DEF SavedRow, Seen, Written, Standing, StandingOf, RowStatus
<1>4. CASE RowOpened(t) /\ SavedKept(t)
  <2>1. Seen(t) = "fresh"
    BY <1>0, <1>4, Standings DEF RowOpened, Known, Seen
  <2>2. recordedAt'[t] # Never /\ ~delivered'[t] /\ ~(now' - recordedAt'[t] > Grace)
    BY <1>0, <1>4 DEF RowOpened, Known, Never
  <2>3. Seen(t)' = "open"
    BY <2>2, NextStandings
  <2> QED BY <1>2, <1>4, <2>1, <2>3 DEF Promise!Moves, RowOpened
<1>5. CASE RowMarked(t) /\ SavedKept(t)
  <2>1. Seen(t)' = "closed"
    BY <1>5, NextStandings DEF RowMarked, Known
  <2>2. Seen(t) \in {"open", "closed"}
    BY <1>0, <1>5, Standings DEF RowMarked, Known, Seen
  <2> QED BY <1>2, <1>5, <2>1, <2>2 DEF Promise!Moves, RowMarked
<1>6. CASE now' = now + 1 /\ UNCHANGED <<recordedAt[t], delivered[t]>> /\ SavedKept(t)
  <2>0. /\ recordedAt'[t] = recordedAt[t] /\ delivered'[t] = delivered[t]
        /\ saved'.recordedAt[t] = saved.recordedAt[t]
        /\ saved'.delivered[t] = saved.delivered[t]
    BY <1>6 DEF SavedKept
  <2>4. Written(t)' \in {Written(t), Seen(t)'}
    <3>1. CASE saved.recordedAt[t] = Never
      BY <1>0, <2>0, <3>1, Standings, NextStandings DEF Written
    <3>2. CASE /\ saved.recordedAt[t] # Never
               /\ saved'.delivered[t] \/ now' - saved'.recordedAt[t] > Grace
      <4>1. Written(t)' = "closed"
        BY <2>0, <3>2, NextStandings
      <4>2. delivered'[t] \/ now' - recordedAt'[t] > Grace
        BY <1>0, <2>0, <3>2
      <4>3. Seen(t)' = "closed"
        BY <1>0, <2>0, <3>2, <4>2, NextStandings
      <4> QED BY <4>1, <4>3
    <3>3. CASE /\ saved.recordedAt[t] # Never
               /\ ~(saved'.delivered[t] \/ now' - saved'.recordedAt[t] > Grace)
      <4>1. Written(t)' = "open"
        BY <2>0, <3>3, NextStandings
      <4>2. ~(saved.delivered[t] \/ now - saved.recordedAt[t] > Grace)
        BY <1>0, <1>6, <2>0, <3>3 DEF Never
      <4>3. Written(t) = "open"
        BY <1>0, <3>3, <4>2, Standings DEF Written
      <4> QED BY <4>1, <4>3
    <3> QED BY <3>1, <3>2, <3>3
  <2>1. CASE recordedAt[t] = Never
    <3>1. Seen(t) = "fresh" /\ Seen(t)' = "fresh"
      BY <1>0, <2>0, <2>1, Standings, NextStandings DEF Seen
    <3>2. Written(t)' = "fresh"
      BY <1>0, <2>0, <2>1, NextStandings
    <3> QED BY <3>1, <3>2
  <2>2. CASE recordedAt[t] # Never /\ (delivered[t] \/ now - recordedAt[t] > Grace)
    <3>1. Seen(t) = "closed"
      BY <1>0, <2>2, Standings DEF Seen
    <3>2. delivered'[t] \/ now' - recordedAt'[t] > Grace
      BY <1>0, <1>6, <2>0, <2>2 DEF Never
    <3>3. Seen(t)' = "closed"
      BY <2>0, <2>2, <3>2, NextStandings
    <3> QED BY <2>4, <3>1, <3>3
  <2>3. CASE recordedAt[t] # Never /\ ~(delivered[t] \/ now - recordedAt[t] > Grace)
    <3>1. Seen(t) = "open"
      BY <1>0, <2>3, Standings DEF Seen
    <3>2. Seen(t)' \in {"open", "closed"}
      BY <2>0, <2>3, NextStandings
    <3> QED BY <2>4, <3>1, <3>2 DEF Promise!Moves
  <2> QED BY <2>1, <2>2, <2>3
<1> QED
  BY <1>1, <1>2, <1>3, <1>4, <1>5, <1>6 DEF OnwardRow, RowKept

LEMMA BackIsMove ==
  ASSUME IInv, IInv', NEW t \in Txs, BackRow(t)
  PROVE  /\ Seen(t)' = Written(t)'
         /\ Written(t)' # Written(t)
              => Written(t) = "closed" /\ Written(t)' = "fresh"
<1> USE GraceAssumption, PruneAssumption
<1>1. Seen(t)' = Written(t)'
  BY DEF BackRow, SavedRow, Seen, Written, Standing, StandingOf, RowStatus
<1>2. CASE SavedKept(t)
  BY <1>1, <1>2 DEF BackRow, SavedKept, Written, Standing, StandingOf, RowStatus
<1>3. CASE TooOld(saved.recordedAt[t]) /\ saved'.recordedAt[t] = Never
  <2>1. saved.recordedAt[t] # Never /\ now - saved.recordedAt[t] > Grace
    BY <1>3, RowTypes DEF TooOld
  <2>2. Written(t) = "closed"
    BY <2>1, RowTypes, Standings DEF Written
  <2>3. Written(t)' = "fresh"
    BY <1>3, NextStandings
  <2> QED BY <1>1, <2>2, <2>3
<1> QED BY <1>2, <1>3 DEF BackRow

\* Whatever the requests, faults, crashes and prunings, a payment that the gateway
\* has closed is not opened again and one that is open is not forgotten, as long as
\* nothing is pruned within the grace window; a fault or a crash takes back what had
\* no commit, and only that.
THEOREM ReceiptsKept == Spec => KeepsReceipts
<1>1. Init => Promise!Init
  <2> SUFFICES ASSUME Init PROVE Promise!Init
    OBVIOUS
  <2>1. /\ recordedAt = [t \in Txs |-> Never] /\ saved.recordedAt = recordedAt
    BY DEF Init, StoreInit, Tables
  <2>2. \A t \in Txs : /\ StandingOf(TxStatus(t)) = "fresh"
                       /\ StandingOf(SavedStatus(t)) = "fresh"
    BY <2>1 DEF StandingOf, TxStatus, SavedStatus, RowStatus
  <2> QED BY <2>2 DEF Promise!Init
<1>2. IInv /\ IInv' /\ [Next]_vars
        => [Promise!Next]_<<[t \in Txs |-> StandingOf(TxStatus(t))],
                            [t \in Txs |-> StandingOf(SavedStatus(t))]>>
  <2> SUFFICES ASSUME IInv, IInv', [Next]_vars PROVE Promise!Next
    OBVIOUS
  <2>1. \A t \in Txs :
          /\ StandingOf(TxStatus(t)) = Seen(t) /\ StandingOf(TxStatus(t))' = Seen(t)'
          /\ StandingOf(SavedStatus(t)) = Written(t)
          /\ StandingOf(SavedStatus(t))' = Written(t)'
    BY DEF TxStatus, SavedStatus, Seen, Written, Standing
  <2>2. \A t \in Txs : /\ Seen(t)' \in Promise!Standing
                       /\ Written(t)' \in Promise!Standing
    BY DEF Seen, Written, Standing, StandingOf, RowStatus, Promise!Standing
  <2>3. CASE \A t \in Txs : OnwardRow(t)
    BY <2>1, <2>2, <2>3, OnwardIsMove DEF Promise!Next, Promise!Onward
  <2>4. CASE \A t \in Txs : BackRow(t)
    <3>1. \A t \in Txs :
            /\ Seen(t)' = Written(t)'
            /\ Written(t)' # Written(t)
                 => Written(t) = "closed" /\ Written(t)' = "fresh"
      BY <2>4, BackIsMove
    <3>2. Promise!Back
      BY <2>1, <2>2, <3>1 DEF Promise!Back
    <3> QED BY <3>2 DEF Promise!Next
  <2> QED BY <2>3, <2>4, StepsOfRows
<1> QED BY <1>1, <1>2, InvariantCorrect, PTL DEF Spec, KeepsReceipts, Promise!Spec

-----------------------------------------------------------------------------
(* Repeated work has an excuse *)

\* While nothing excuses a second time, one request at most is in flight for a
\* payment, and none that is not done yet once the work was done.
Settled(t) == delivered[t] \/ \E i \in Requests : Tx(i) = t /\ pc[i] = "mark"

AtWork(t) == {i \in Requests : Tx(i) = t /\ InFlight(i)}

Once(t) ==
  /\ worked[t] <= 1
  /\ worked[t] = 1 => Settled(t)
  /\ \A i \in AtWork(t) : pc[i] # "mark" => worked[t] = 0
  /\ \A i, j \in AtWork(t) : i = j

OnceInv == \A t \in Txs : excuse[t] = {} => Once(t)

LEMMA InitOnce == Init => OnceInv
  BY MessageTypes DEF Init, OnceInv, Once, AtWork, InFlight

\* A step of one request leaves the others' places and payments alone.
LEMMA OneRequest ==
  ASSUME TypeOK, NEW i \in Requests, Handle(i)
  PROVE  /\ \A j \in Requests \ {i} : pc'[j] = pc[j]
         /\ \A t \in Txs \ {Tx(i)} :
              /\ worked'[t] = worked[t] /\ delivered'[t] = delivered[t]
              /\ excuse'[t] = excuse[t]
<1> USE DEF storeVars, tableVars, historyVars
<1>1. CASE Commits(i)
  BY <1>1, Columns DEF Commits, CommitRecord, CommitMark, CommitCache, Goto, Answer, TypeOK
<1>2. CASE ~Commits(i)
  BY <1>2 DEF Handle, Commits, RejectEarly, ReplayRejected, ReplayAccepted, VerifyFailed,
     Verified, StatusExpired, StatusWithinGrace, StatusNew, ServeCached,
     NotCached, Record, RecheckExpired, RecheckOpen, UpstreamOk, UpstreamError,
     UpstreamRaised, Mark, Cache, Goto, Answer, NoteOverlap,
     RecordTx, MarkDelivered, CacheResponse, Work, Unsettled, TypeOK, StoreTypeOK
<1> QED BY <1>1, <1>2

LEMMA OtherPayment ==
  ASSUME TypeOK, OnceInv, NEW t \in Txs, excuse[t] = {},
         \A j \in Requests : Tx(j) = t => pc'[j] = pc[j],
         worked'[t] = worked[t], delivered'[t] = delivered[t]
  PROVE  Once(t)'
<1>2. AtWork(t)' = AtWork(t)
  BY DEF AtWork, InFlight, Tx
<1>3. Settled(t)' = Settled(t)
  BY DEF Settled, Tx
<1> QED BY <1>2, <1>3 DEF OnceInv, Once, AtWork

\* A request that leaves its payment's row alone and is not in flight any more.
LEMMA GoneQuietly ==
  ASSUME TypeOK, NEW i \in Requests, Once(Tx(i)),
         \A j \in Requests \ {i} : pc'[j] = pc[j],
         pc[i] # "mark", ~InFlight(i)', pc'[i] # "mark",
         worked'[Tx(i)] = worked[Tx(i)], delivered'[Tx(i)] = delivered[Tx(i)]
  PROVE  Once(Tx(i))'
<1>1. AtWork(Tx(i))' \subseteq AtWork(Tx(i))
  BY DEF AtWork, InFlight, Tx
<1>2. \A j \in AtWork(Tx(i))' : pc'[j] = pc[j]
  BY DEF AtWork, Tx
<1>3. Settled(Tx(i)) => Settled(Tx(i))'
  BY DEF Settled, Tx
<1> QED BY <1>1, <1>2, <1>3 DEF Once, Tx

\* A request that stays in flight and has not worked yet.
LEMMA StaysInFlight ==
  ASSUME TypeOK, NEW i \in Requests, Once(Tx(i)),
         \A j \in Requests \ {i} : pc'[j] = pc[j],
         InFlight(i), pc[i] # "mark", InFlight(i)', pc'[i] # "mark",
         worked'[Tx(i)] = worked[Tx(i)], delivered'[Tx(i)] = delivered[Tx(i)]
  PROVE  Once(Tx(i))'
<1>1. AtWork(Tx(i))' = AtWork(Tx(i))
  BY DEF AtWork, InFlight, Tx
<1>2. worked[Tx(i)] = 0
  BY DEF Once, AtWork
<1>3. AtWork(Tx(i))' = {i}
  BY <1>1 DEF Once, AtWork
<1> QED BY <1>1, <1>2, <1>3 DEF Once, Tx

LEMMA OwnPayment ==
  ASSUME IInv, OnceInv, NEW i \in Requests, Handle(i), excuse'[Tx(i)] = {}
  PROVE  Once(Tx(i))'
<1> DEFINE t == Tx(i)
<1> USE DEF historyVars, storeVars, tableVars
<1>0. /\ TypeOK /\ t \in Txs
      /\ \A j \in Requests \ {i} : pc'[j] = pc[j]
  BY MessageTypes, OneRequest DEF IInv
<1>1. excuse[t] = {} /\ Once(t)
  <2>1. excuse[t] \subseteq excuse'[t]
    BY <1>0 DEF Handle, RejectEarly, ReplayRejected, ReplayAccepted,
       VerifyFailed, Verified, StatusExpired, StatusWithinGrace, StatusNew,
       ServeCached, NotCached, Record, CommitRecord, RecheckExpired, RecheckOpen,
       UpstreamOk, UpstreamError, UpstreamRaised, Mark, CommitMark, Cache, CommitCache,
       NoteOverlap, Unsettled, TypeOK
  <2> QED BY <1>0, <2>1 DEF OnceInv
<1>2. CASE \/ RejectEarly(i) \/ ReplayRejected(i) \/ ReplayAccepted(i)
           \/ VerifyFailed(i) \/ Verified(i) \/ StatusExpired(i)
           \/ ServeCached(i) \/ RecheckExpired(i) \/ UpstreamError(i)
           \/ Cache(i)
  BY <1>0, <1>1, <1>2, GoneQuietly
     DEF RejectEarly, ReplayRejected, ReplayAccepted, VerifyFailed, Verified,
         StatusExpired, ServeCached, RecheckExpired, UpstreamError, Cache,
         CacheResponse, Goto, Answer, InFlight, TypeOK
<1>8. CASE CommitMark(i) \/ CommitCache(i)
  BY <1>0, <1>1, <1>8, GoneQuietly, Columns
     DEF CommitMark, CommitCache, Goto, Answer, InFlight, TypeOK
<1>3. CASE UpstreamRaised(i)
  <2>1. ~Unsettled(t)
    BY <1>0 DEF Unsettled, TypeOK
  <2>2. /\ pc[i] # "mark" /\ pc'[i] = "done"
        /\ UNCHANGED <<worked, delivered>>
    BY <1>0, <1>3, <2>1 DEF UpstreamRaised, Answer, TypeOK
  <2> QED BY <1>0, <1>1, <2>2, GoneQuietly DEF InFlight
<1>4. CASE NotCached(i) \/ Record(i) \/ CommitRecord(i) \/ RecheckOpen(i)
  BY <1>0, <1>1, <1>4, StaysInFlight, Columns
     DEF NotCached, Record, RecordTx, CommitRecord, RecheckOpen, Goto, InFlight, TypeOK
<1>5. CASE StatusWithinGrace(i) \/ StatusNew(i)
  <2>1. \A j \in Requests \ {i} : ~(Tx(j) = t /\ InFlight(j))
    BY <1>0, <1>5 DEF StatusWithinGrace, StatusNew, NoteOverlap, TypeOK
  <2>2. ~delivered[t]
    <3>1. TxStatus(t) \in {"NEW", "WITHIN_GRACE"}
      BY <1>5 DEF StatusWithinGrace, StatusNew
    <3>2. delivered[t] => Known(t)
      BY <1>0 DEF IInv, StoreInv
    <3> QED BY <3>1, <3>2 DEF TxStatus, RowStatus, Known
  <2>3. pc[i] = "status" /\ pc'[i] \in {"cached", "record"}
    BY <1>0, <1>5 DEF StatusWithinGrace, StatusNew, Goto, TypeOK
  <2>4. ~Settled(t)
    BY <2>1, <2>2, <2>3 DEF Settled, InFlight
  <2>5. worked[t] = 0 /\ worked' = worked
    <3>1. worked[t] \in 0..2
      BY <1>0 DEF TypeOK
    <3> QED BY <1>1, <1>5, <2>4, <3>1 DEF Once, StatusWithinGrace, StatusNew
  <2>6. AtWork(t)' = {i}
    BY <1>0, <2>1, <2>3 DEF AtWork, InFlight, Tx
  <2> QED BY <2>5, <2>6 DEF Once, Tx
<1>6. CASE UpstreamOk(i)
  <2>1. pc[i] = "proxy" /\ pc'[i] = "mark"
    BY <1>0, <1>6 DEF UpstreamOk, Goto, TypeOK
  <2>2. AtWork(t) = {i} /\ worked[t] = 0
    BY <1>1, <2>1 DEF Once, AtWork, InFlight
  <2>3. worked'[t] = 1
    BY <1>0, <1>6, <2>2 DEF UpstreamOk, Work, TypeOK
  <2>4. AtWork(t)' = {i}
    BY <1>0, <2>1, <2>2 DEF AtWork, InFlight, Tx
  <2>5. Settled(t)'
    BY <2>1 DEF Settled, Tx
  <2> QED BY <2>1, <2>3, <2>4, <2>5 DEF Once, Tx
<1>7. CASE Mark(i)
  <2>1. pc[i] = "mark" /\ pc'[i] = "markCommit"
    BY <1>0, <1>7 DEF Mark, Goto, TypeOK
  <2>2. AtWork(t) = {i}
    BY <1>1, <2>1 DEF Once, AtWork, InFlight
  <2>3. AtWork(t)' = {}
    BY <1>0, <2>1, <2>2 DEF AtWork, InFlight, Tx
  <2>4. delivered'[t]
    <3>1. Known(t)
      BY <1>1, <2>1 DEF IInv, RequestInv, LetIn
    <3> QED BY <1>0, <1>7, <3>1 DEF Mark, MarkDelivered, TypeOK, StoreTypeOK
  <2>5. worked' = worked
    BY <1>7 DEF Mark
  <2> QED BY <1>1, <2>3, <2>4, <2>5 DEF Once, Settled, Tx
<1> QED BY <1>2, <1>3, <1>4, <1>5, <1>6, <1>7, <1>8 DEF Handle

LEMMA NextOnceInv == IInv /\ OnceInv /\ [Next]_vars => OnceInv'
<1> SUFFICES ASSUME IInv, OnceInv, [Next]_vars, NEW t \in Txs, excuse'[t] = {}
             PROVE  Once(t)'
  BY DEF OnceInv
<1>0. TypeOK
  BY DEF IInv
<1> USE DEF historyVars, storeVars, tableVars
<1>1. ASSUME NEW i \in Requests, Handle(i) PROVE Once(t)'
  <2>1. CASE t = Tx(i)
    BY <1>1, <2>1, OwnPayment
  <2>2. CASE t # Tx(i)
    BY <1>0, <1>1, <2>2, OneRequest, OtherPayment
  <2> QED BY <2>1, <2>2
<1>2. ASSUME NEW half, NEW undone, AfterFault(half, undone)
      PROVE  excuse[t] = {} /\ t \notin undone /\ delivered'[t] = delivered[t]
  <2>1. CASE UNCHANGED storeVars /\ excuse' = Excused(undone, {})
    BY <1>0, <2>1 DEF Excused
  <2>2. CASE RollBack /\ excuse' = Excused(undone, {u \in Txs : Unsaved(u)})
    <3>1. excuse[t] = {} /\ t \notin undone /\ ~Unsaved(t)
      BY <1>0, <2>2 DEF Excused
    <3> QED BY <2>2, <3>1, Columns DEF Unsaved
  <2> QED BY <1>2, <2>1, <2>2 DEF AfterFault
<1>3. ASSUME NEW i \in Requests, StoreFault(i) PROVE Once(t)'
  <2>1. /\ excuse[t] = {} /\ t \notin At(i, "mark") /\ delivered'[t] = delivered[t]
        /\ worked' = worked /\ pc'[i] = "done"
        /\ \A j \in Requests \ {i} : pc'[j] = pc[j]
    BY <1>0, <1>2, <1>3 DEF StoreFault, Answer, TypeOK
  <2>2. CASE t = Tx(i)
    <3>1. pc[i] # "mark" /\ Once(Tx(i))
      BY <2>1, <2>2 DEF At, OnceInv
    <3> QED BY <1>0, <2>1, <2>2, <3>1, GoneQuietly DEF InFlight
  <2>3. CASE t # Tx(i)
    BY <1>0, <2>1, <2>3, OtherPayment
  <2> QED BY <2>2, <2>3
<1>4. CASE PrepaidFault \/ PrepaidCommit
  <2>1. /\ excuse[t] = {} /\ delivered'[t] = delivered[t]
        /\ worked' = worked /\ pc' = pc
    BY <1>2, <1>4, Columns DEF PrepaidFault, PrepaidCommit
  <2> QED BY <1>0, <2>1, OtherPayment
<1>5. CASE Restart
  <2> DEFINE undone == {u \in Txs : \E i \in Requests : Tx(i) = u /\ pc[i] = "mark"}
             known  == Excused(undone, {u \in Txs : Unsaved(u)})
  <2>0. excuse' = [u \in Txs |-> IF TooOld(saved.recordedAt[u])
                                 THEN known[u] \cup {"forgotten"} ELSE known[u]]
    BY <1>5 DEF Restart
  <2>1. known[t] = {} /\ ~TooOld(saved.recordedAt[t])
    <3> HIDE DEF known
    <3> QED BY <2>0
  <2>2. excuse[t] = {} /\ t \notin undone /\ ~Unsaved(t)
    BY <2>1 DEF Excused
  <2>3. AtWork(t)' = {}
    BY <1>5 DEF Restart, AtWork, InFlight
  <2>4. worked' = worked
    BY <1>5 DEF Restart
  <2>5. delivered[t] => delivered'[t]
    BY <1>0, <1>5, <2>1, <2>2 DEF Restart, Reopen, Unsaved, TypeOK, StoreTypeOK
  <2> QED BY <2>2, <2>3, <2>4, <2>5 DEF OnceInv, Once, Settled
<1>6. CASE Tick \/ UNCHANGED vars
  BY <1>0, <1>6, OtherPayment DEF Tick, vars
<1> QED BY <1>1, <1>3, <1>4, <1>5, <1>6 DEF Next, AllAnswered

\* The seller works twice for one payment only when requests overlapped, when
\* an answer could not be recorded, when a row or a mark was lost for want of a
\* commit, or when a restart had pruned the payment: never for requests that
\* follow one another on a store that works.
THEOREM RepeatsExcused == Spec => []RepeatHasExcuse
<1>1. IInv /\ OnceInv => RepeatHasExcuse
  BY DEF IInv, TypeOK, OnceInv, Once, RepeatHasExcuse
<1>2. Init => IInv /\ OnceInv
  BY InitIInv, InitOnce
<1>3. IInv /\ OnceInv /\ [Next]_vars => OnceInv'
  BY NextOnceInv
<1> QED BY <1>1, <1>2, <1>3, InvariantCorrect, PTL DEF Spec
=============================================================================
