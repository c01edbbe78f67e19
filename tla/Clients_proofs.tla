--------------------------- MODULE Clients_proofs ---------------------------
(***************************************************************************)
(* Two clients that an agent's calls go through.  The prepaid one: for any *)
(* number of purchases, recoveries, attempts and faults, every post of a   *)
(* payment is given the same credential, only a payment that has landed is *)
(* given one, and a payment that was made stays in sight of the commands   *)
(* but for the mishaps that the model names.  The front ends: for any      *)
(* number of calls, enables, requests, starts and stops, their flags tell  *)
(* the truth, whoever paid is answered, and no wait is without an end.     *)
(***************************************************************************)
EXTENDS PrepaidPurchase, FrontEnds, Sequences, FiniteSetTheorems, TLAPS

-----------------------------------------------------------------------------
(* Type correctness, with what commands and posts are sure of *)

\* What a command's place says of its target and of its attempts.
CommandInv(k) ==
  /\ cmd[k] = "idle" => /\ reply[k] = NoAnswer /\ cred[k] = Never
                        /\ \A p \in Posts : p[1] = k => gate[p] = "none"
  /\ cmd[k] = "idle" /\ k \in Buys => chain[k] = "none"
  /\ cmd[k] \in {"idle", "save", "submit"} => attempt[k] < MaxAttempts
  /\ cmd[k] = "save" => k \in Buys /\ target[k] = k
  /\ cmd[k] \notin {"idle", "failed", "dead"} => target[k] \in Buys

\* A handler works for a payment, and has found it landed once it has a stamp.
PostInv(p) ==
  /\ gate[p] # "none" => Tx(p) \in Buys
  /\ gate[p] \in {"insert", "commit", "reread"} => chain[Tx(p)] = "landed"
  /\ gate[p] \in {"insert", "commit"} => stamp[p] # Never

\* Whose credential is in the file, or was when a command loaded it, is through.
FileInv ==
  /\ \A k \in file : cmd[k] = "stored"
  /\ \A k \in Commands : \A j \in copy[k] : cmd[j] = "stored"

IInv ==
  /\ TypeOK
  /\ FileInv
  /\ \A k \in Commands : CommandInv(k)
  /\ \A p \in Posts : PostInv(p)

LEMMA InitIInv == Init => IInv
<1> SUFFICES ASSUME Init PROVE IInv
  OBVIOUS
<1> USE AttemptsAssumption, CommandsAssumption
<1>1. TypeOK
  BY BoundAssumption DEF Init, TypeOK, Mishaps, Time, Never, NoRecord, CmdStates, Gates, Answer, NoAnswer
<1>2. \A k \in Commands : CommandInv(k)
  BY DEF Init, CommandInv, Commands
<1>3. \A p \in Posts : PostInv(p)
  BY DEF Init, PostInv
<1>4. FileInv
  BY DEF Init, FileInv
<1> QED
  BY <1>1, <1>2, <1>3, <1>4 DEF IInv

LEMMA PostTypes ==
  ASSUME NEW p \in Posts
  PROVE  p[1] \in Commands /\ p[2] \in 1..MaxAttempts /\ p = <<p[1], p[2]>>
  BY DEF Posts

\* The steps of a command, and those of a handler that only answer.
CommandStep ==
  \/ \E b \in Buys : BuyStep(b)
  \/ \E k \in Recovers : StartRecover(k)
  \/ \E k \in Commands : SubmitStep(k)
  \/ SpenderSaves

LEMMA CommandTypeOK ==
  ASSUME IInv, CommandStep PROVE TypeOK'
<1> USE AttemptsAssumption DEF IInv, fileVars, buyerVars, storeVars, historyVars
<1>1. ASSUME NEW b \in Buys, PayOk(b) \/ NotPaid(b) PROVE TypeOK'
  BY <1>1 DEF PayOk, NotPaid, Goes, TypeOK, CmdStates, Over, Commands
<1>10. ASSUME NEW b \in Buys, PaidUnreported(b) PROVE TypeOK'
  <2>1. mishap' \in [Buys -> SUBSET Mishaps]
    BY <1>10 DEF PaidUnreported, TypeOK, Mishaps
  <2> QED
    BY <1>10, <2>1 DEF PaidUnreported, Goes, TypeOK, CmdStates, Over, Commands
<1>2. ASSUME NEW b \in Buys, SavePending(b) PROVE TypeOK'
  <2>1. mishap' \in [Buys -> SUBSET Mishaps]
    BY <1>2 DEF SavePending, Displace, TypeOK, Mishaps
  <2> QED
    BY <1>2, <2>1 DEF SavePending, Goes, TypeOK, CmdStates, Over, Time
<1>3. ASSUME NEW b \in Buys, SaveFails(b) PROVE TypeOK'
  <2>1. mishap' \in [Buys -> SUBSET Mishaps]
    BY <1>3 DEF SaveFails, TypeOK, Mishaps
  <2>2. faults' \in Nat
    BY <1>3 DEF SaveFails, Fault, TypeOK
  <2> QED
    BY <1>3, <2>1, <2>2 DEF SaveFails, Goes, TypeOK, CmdStates, Over
<1>4. ASSUME NEW k \in Recovers, StartRecover(k) PROVE TypeOK'
  <2>1. PICK t \in Buys : target' = [target EXCEPT ![k] = t]
    BY <1>4 DEF StartRecover
  <2>2. target' \in [Commands -> Buys \cup {NoTx}]
    BY <2>1 DEF TypeOK
  <2> QED
    BY <1>4, <2>2 DEF StartRecover, Goes, TypeOK, CmdStates, Over
<1>5. ASSUME NEW k \in Commands, Post(k) PROVE TypeOK'
  <2>1. attempt'[k] <= MaxAttempts /\ attempt' \in [Commands -> Nat]
    BY <1>5 DEF Post, Goes, CommandInv, TypeOK
  <2>2. \A c \in Commands : attempt'[c] <= MaxAttempts
    BY <1>5, <2>1 DEF Post, TypeOK
  <2> QED
    BY <1>5, <2>1, <2>2 DEF Post, Goes, TypeOK, CmdStates, Over, Gates
<1>6. ASSUME NEW k \in Commands,
             PostRaises(k) \/ ReceiveCredential(k) \/ ReceiveBusy(k) \/ ReceiveRefusal(k)
      PROVE  TypeOK'
  <2>1. NoAnswer \in Answer /\ \A a \in Answer : a.at \in Time
    BY DEF Answer, NoAnswer, Time
  <2>2. reply' \in [Commands -> Answer] /\ cred' \in [Commands -> Time]
    BY <1>6, <2>1 DEF PostRaises, ReceiveCredential, ReceiveBusy, ReceiveRefusal, TypeOK
  <2>3. cmd' \in [Commands -> CmdStates]
    BY <1>6 DEF PostRaises, ReceiveCredential, ReceiveBusy, ReceiveRefusal, Goes, TypeOK,
       CmdStates, Over
  <2> QED
    BY <1>6, <2>2, <2>3
       DEF PostRaises, ReceiveCredential, ReceiveBusy, ReceiveRefusal, TypeOK
<1>7. ASSUME NEW k \in Commands, ClearPending(k) PROVE TypeOK'
  <2>1. mishap' \in [Buys -> SUBSET Mishaps]
    BY <1>7 DEF ClearPending, Displace, TypeOK, Mishaps
  <2> QED
    BY <1>7, <2>1 DEF ClearPending, Goes, TypeOK, CmdStates, Over, Time, NoRecord
<1>11. ASSUME NEW k \in Commands, LoadCredentials(k) PROVE TypeOK'
  <2>1. copy' \in [Commands -> SUBSET Commands] /\ faults' \in Nat
    BY <1>11 DEF LoadCredentials, Fault, TypeOK
  <2> QED
    BY <1>11, <2>1 DEF LoadCredentials, Goes, TypeOK, CmdStates, Over
<1>12. ASSUME NEW new, Replace(new) PROVE mishap' \in [Buys -> SUBSET Mishaps]
  BY <1>12 DEF Replace, TypeOK, Mishaps
<1>8. ASSUME NEW k \in Commands, AddCredential(k) PROVE TypeOK'
  <2>1. file' \in SUBSET Commands /\ copy' \in [Commands -> SUBSET Commands]
    BY <1>8 DEF AddCredential, Replace, TypeOK
  <2> QED
    BY <1>8, <1>12, <2>1 DEF AddCredential, Goes, TypeOK, CmdStates, Over
<1>13. ASSUME SpenderSaves PROVE TypeOK'
  <2>1. PICK old \in SUBSET file : Replace(old)
    BY <1>13 DEF SpenderSaves
  <2>2. file' \in SUBSET Commands /\ faults' \in Nat
    BY <1>13, <2>1 DEF SpenderSaves, Replace, Fault, TypeOK
  <2> QED
    BY <1>12, <1>13, <2>1, <2>2 DEF SpenderSaves, TypeOK
<1>9. ASSUME NEW k \in Commands, Crash(k) PROVE TypeOK'
  <2>1. mishap' \in [Buys -> SUBSET Mishaps]
    BY <1>9 DEF Crash, TypeOK, Mishaps
  <2>2. NoAnswer \in Answer
    BY DEF Answer, NoAnswer, Time
  <2> QED
    BY <1>9, <2>1, <2>2 DEF Crash, Fault, TypeOK, CmdStates, Over
<1> QED
  BY <1>1, <1>2, <1>3, <1>4, <1>5, <1>6, <1>7, <1>8, <1>9, <1>10, <1>11, <1>13
     DEF CommandStep, BuyStep, SubmitStep

LEMMA ReplyType ==
  ASSUME IInv, NEW p \in Posts, NEW s \in Gates, NEW a \in Answer, Reply(p, s, a)
  PROVE  /\ gate'  \in [Posts -> Gates]
         /\ reply' \in [Commands -> Answer]
         /\ stamp' \in [Posts -> Time]
  BY DEF IInv, TypeOK, Reply, GateGoes, Gates, Time

LEMMA HandleTypeOK ==
  ASSUME IInv, NEW p \in Posts, Handle(p) PROVE TypeOK'
<1> USE DEF IInv, fileVars, buyerVars, storeVars, historyVars
<1>0. Busy \in Answer /\ Refused \in Answer /\ \A at \in Time : Credential(at) \in Answer
  BY DEF Busy, Refused, Credential, Answer, Time
<1>1. CASE RateLimited(p)
  BY <1>1, <1>0, ReplyType DEF RateLimited, TypeOK, Gates
<1>2. CASE LookupFinds(p) \/ RereadFinds(p)
  <2>1. PICK s \in {"sent", "reread"} : Replay(p, s)
    BY <1>2 DEF LookupFinds, RereadFinds
  <2>2. Credential(issued[Tx(p)]) \in Answer
    BY <1>0, <2>1 DEF Replay, Reply, GateGoes, PostInv, TypeOK
  <2> QED
    BY <2>1, <2>2, ReplyType DEF Replay, TypeOK, Gates
<1>3. CASE LookupFindsNothing(p)
  BY <1>3 DEF LookupFindsNothing, GateGoes, TypeOK, Gates
<1>4. CASE Verified(p)
  BY <1>4 DEF Verified, GateGoes, TypeOK, Gates, Time
<1>5. CASE VerifyFailed(p)
  BY <1>5, <1>0, ReplyType DEF VerifyFailed, TypeOK, Gates
<1>6. CASE InsertWins(p)
  BY <1>6 DEF InsertWins, GateGoes, TypeOK, Gates
<1>7. CASE InsertLoses(p) \/ InsertWithoutStore(p)
  BY <1>7 DEF InsertLoses, InsertWithoutStore, GateGoes, TypeOK, Gates
<1>8. CASE Commit(p)
  BY <1>8, <1>0, ReplyType DEF Commit, TypeOK, Gates
<1>9. CASE RereadFindsNothing(p)
  BY <1>9, <1>0, ReplyType DEF RereadFindsNothing, TypeOK, Gates
<1>10. CASE StoreFails(p)
  <2>1. PICK s \in {"sent", "insert", "commit", "reread"} : Reply(p, s, Refused)
    BY <1>10 DEF StoreFails
  <2>2. faults' \in Nat
    BY <1>10 DEF StoreFails, Fault, TypeOK
  <2> QED
    BY <1>10, <1>0, <2>1, <2>2, ReplyType DEF StoreFails, TypeOK, Gates
<1> QED
  BY <1>1, <1>2, <1>3, <1>4, <1>5, <1>6, <1>7, <1>8, <1>9, <1>10 DEF Handle

LEMMA WorldTypeOK ==
  ASSUME IInv, (\E b \in Buys : Settle(b)) \/ Close \/ Restart \/ Tick \/ UNCHANGED vars
  PROVE  TypeOK'
<1> USE DEF IInv, fileVars, buyerVars, storeVars, historyVars
<1>1. ASSUME NEW b \in Buys, Settle(b) PROVE TypeOK'
  BY <1>1 DEF Settle, TypeOK
<1>2. CASE Close
  <2>1. faults' \in Nat
    BY <1>2 DEF Close, Fault, TypeOK
  <2> QED
    BY <1>2, <2>1 DEF Close, TypeOK
<1>3. CASE Restart
  <2>1. \A at \in Time : Pruned(at) \in Time
    BY DEF Pruned, Time
  <2>2. forgot' \in [Buys -> SUBSET {"uncommitted", "pruned"}]
    BY <1>3 DEF Restart, TypeOK
  <2>3. gate' \in [Posts -> Gates] /\ stamp' \in [Posts -> Time]
    BY <1>3 DEF Restart, Gates, Time
  <2>4. issued' \in [Buys -> Time] /\ durable' \in [Buys -> Time] /\ faults' \in Nat
    BY <1>3, <2>1 DEF Restart, TypeOK
  <2> QED
    BY <1>3, <2>2, <2>3, <2>4 DEF Restart, TypeOK
<1>4. CASE Tick
  BY <1>4 DEF Tick, TypeOK
<1>5. CASE UNCHANGED vars
  BY <1>5 DEF vars, TypeOK
<1> QED
  BY <1>1, <1>2, <1>3, <1>4, <1>5

-----------------------------------------------------------------------------
(* The invariant is inductive *)

LEMMA CommandPlaces ==
  ASSUME IInv, CommandStep
  PROVE  (\A k \in Commands : CommandInv(k))' /\ (\A p \in Posts : PostInv(p))'
<1> USE AttemptsAssumption, CommandsAssumption, PostTypes
        DEF IInv, fileVars, buyerVars, storeVars, historyVars, Tx
<1>1. ASSUME NEW b \in Buys, PayOk(b)
      PROVE  (\A k \in Commands : CommandInv(k))' /\ (\A p \in Posts : PostInv(p))'
  <2>1. b \in Commands
    BY DEF Commands
  <2>2. ASSUME NEW k \in Commands PROVE CommandInv(k)'
    BY <1>1, <2>1 DEF PayOk, Goes, TypeOK, CommandInv
  <2>3. ASSUME NEW p \in Posts PROVE PostInv(p)'
    <3>1. p[1] = b => gate[p] = "none"
      BY <1>1, <2>1 DEF PayOk, Goes, CommandInv
    <3>2. chain[b] = "none"
      BY <1>1, <2>1 DEF PayOk, Goes, CommandInv
    <3> QED
      BY <1>1, <2>1, <3>1, <3>2 DEF PayOk, TypeOK, PostInv
  <2> QED
    BY <2>2, <2>3
<1>6. ASSUME NEW b \in Buys, PaidUnreported(b)
      PROVE  (\A k \in Commands : CommandInv(k))' /\ (\A p \in Posts : PostInv(p))'
  <2>1. b \in Commands /\ chain[b] = "none"
    BY <1>6 DEF PaidUnreported, Goes, CommandInv, Commands
  <2>2. ASSUME NEW k \in Commands PROVE CommandInv(k)'
    BY <1>6, <2>1 DEF PaidUnreported, Goes, TypeOK, CommandInv
  <2>3. ASSUME NEW p \in Posts PROVE PostInv(p)'
    BY <1>6, <2>1 DEF PaidUnreported, TypeOK, PostInv
  <2> QED
    BY <2>2, <2>3
<1>2. ASSUME NEW b \in Buys, NotPaid(b) \/ SavePending(b) \/ SaveFails(b)
      PROVE  (\A k \in Commands : CommandInv(k))' /\ (\A p \in Posts : PostInv(p))'
  <2>1. b \in Commands
    BY DEF Commands
  <2>2. ASSUME NEW k \in Commands PROVE CommandInv(k)'
    BY <1>2, <2>1 DEF NotPaid, SavePending, SaveFails, Goes, TypeOK, CommandInv
  <2>3. ASSUME NEW p \in Posts PROVE PostInv(p)'
    BY <1>2 DEF NotPaid, SavePending, SaveFails, PostInv
  <2> QED
    BY <2>2, <2>3
<1>3. ASSUME NEW k \in Recovers, StartRecover(k)
      PROVE  (\A c \in Commands : CommandInv(c))' /\ (\A p \in Posts : PostInv(p))'
  <2>1. k \in Commands /\ k \notin Buys
    BY DEF Commands
  <2>2. PICK t \in Buys : target' = [target EXCEPT ![k] = t]
    BY <1>3 DEF StartRecover
  <2>3. ASSUME NEW c \in Commands PROVE CommandInv(c)'
    BY <1>3, <2>1, <2>2 DEF StartRecover, Goes, TypeOK, CommandInv
  <2>4. ASSUME NEW p \in Posts PROVE PostInv(p)'
    <3>1. p[1] = k => gate[p] = "none"
      BY <1>3, <2>1 DEF StartRecover, Goes, CommandInv
    <3> QED
      BY <1>3, <2>1, <2>2, <3>1 DEF StartRecover, TypeOK, PostInv
  <2> QED
    BY <2>3, <2>4
<1>4. ASSUME NEW k \in Commands, Post(k)
      PROVE  (\A c \in Commands : CommandInv(c))' /\ (\A p \in Posts : PostInv(p))'
  <2>1. ASSUME NEW p \in Posts, p[1] # k PROVE gate'[p] = gate[p]
    BY <1>4, <2>1 DEF Post, TypeOK
  <2>2. ASSUME NEW c \in Commands PROVE CommandInv(c)'
    BY <1>4, <2>1 DEF Post, Goes, TypeOK, CommandInv
  <2>3. ASSUME NEW p \in Posts PROVE PostInv(p)'
    <3>1. target[k] \in Buys
      BY <1>4 DEF Post, Goes, CommandInv
    <3>2. gate'[p] = gate[p] \/ (gate'[p] = "sent" /\ p[1] = k)
      BY <1>4, <2>1 DEF Post, TypeOK
    <3> QED
      BY <1>4, <3>1, <3>2 DEF Post, PostInv
  <2> QED
    BY <2>2, <2>3
<1>5. ASSUME NEW k \in Commands,
             \/ PostRaises(k) \/ ReceiveCredential(k) \/ ReceiveBusy(k) \/ ReceiveRefusal(k)
             \/ ClearPending(k) \/ LoadCredentials(k) \/ AddCredential(k) \/ Crash(k)
      PROVE  (\A c \in Commands : CommandInv(c))' /\ (\A p \in Posts : PostInv(p))'
  <2>1. UNCHANGED <<chain, target, attempt, gate, stamp>>
    BY <1>5 DEF PostRaises, ReceiveCredential, ReceiveBusy, ReceiveRefusal, ClearPending,
       LoadCredentials, AddCredential, Crash
  <2>2. \A p \in Posts : PostInv(p)'
    BY <2>1 DEF PostInv
  <2>3. ASSUME NEW c \in Commands \ {k} PROVE CommandInv(c)'
    <3>1. cmd'[c] = cmd[c] /\ reply'[c] = reply[c] /\ cred'[c] = cred[c]
      BY <1>5 DEF PostRaises, ReceiveCredential, ReceiveBusy, ReceiveRefusal, ClearPending,
         LoadCredentials, AddCredential, Crash, Goes, TypeOK
    <3> QED
      BY <2>1, <3>1 DEF CommandInv
  <2>4. CommandInv(k)'
    <3>1. /\ cmd[k] \notin {"idle", "failed", "dead"}
          /\ cmd'[k] # "idle" /\ cmd'[k] # "save"
          /\ cmd'[k] = "submit" => attempt[k] < MaxAttempts
      BY <1>5 DEF PostRaises, ReceiveCredential, ReceiveBusy, ReceiveRefusal, ClearPending,
         LoadCredentials, AddCredential, Crash, Goes, TypeOK, Over
    <3> QED
      BY <2>1, <3>1 DEF CommandInv
  <2> QED
    BY <2>2, <2>3, <2>4
<1>7. CASE SpenderSaves
  BY <1>7 DEF SpenderSaves, CommandInv, PostInv
<1> QED
  BY <1>1, <1>2, <1>3, <1>4, <1>5, <1>6, <1>7 DEF CommandStep, BuyStep, SubmitStep

\* What every step of a handler leaves, and how it moves its post.
LEMMA HandleFrame ==
  ASSUME IInv, NEW p \in Posts, Handle(p)
  PROVE  /\ UNCHANGED <<chain, pending, cmd, target, attempt, cred, file, copy, forgot, mishap>>
         /\ gate[p] \notin {"none", "over"}
         /\ \A q \in Posts : q # p => gate'[q] = gate[q] /\ stamp'[q] = stamp[q]
         /\ \A k \in Commands : reply'[k] = reply[k] \/ (k = p[1] /\ cmd[k] = "waiting")
         /\ gate'[p] # "none"
         /\ gate'[p] = "insert" => chain[Tx(p)] = "landed" /\ stamp'[p] = now
         /\ gate'[p] = "commit" => gate[p] = "insert" /\ stamp'[p] = stamp[p]
         /\ gate'[p] = "reread" => gate[p] = "insert"
<1> USE DEF IInv, TypeOK, fileVars, buyerVars, storeVars, historyVars, GateGoes, Gates
<1>1. ASSUME NEW s \in Gates \ {"none", "over"}, NEW a, Reply(p, s, a)
      PROVE  /\ gate[p] \notin {"none", "over"} /\ gate'[p] = "over"
             /\ \A q \in Posts : q # p => gate'[q] = gate[q] /\ stamp'[q] = stamp[q]
             /\ \A k \in Commands : reply'[k] = reply[k] \/ (k = p[1] /\ cmd[k] = "waiting")
  BY <1>1, PostTypes DEF Reply
<1>2. CASE RateLimited(p)
  BY <1>2, <1>1 DEF RateLimited
<1>3. CASE LookupFinds(p) \/ RereadFinds(p)
  BY <1>3, <1>1 DEF LookupFinds, RereadFinds, Replay
<1>4. CASE LookupFindsNothing(p)
  BY <1>4 DEF LookupFindsNothing
<1>5. CASE Verified(p)
  BY <1>5 DEF Verified
<1>6. CASE VerifyFailed(p) \/ Commit(p) \/ RereadFindsNothing(p)
  BY <1>6, <1>1 DEF VerifyFailed, Commit, RereadFindsNothing
<1>7. CASE InsertWins(p) \/ InsertLoses(p) \/ InsertWithoutStore(p)
  BY <1>7 DEF InsertWins, InsertLoses, InsertWithoutStore
<1>8. CASE StoreFails(p)
  BY <1>8, <1>1 DEF StoreFails
<1> QED
  BY <1>2, <1>3, <1>4, <1>5, <1>6, <1>7, <1>8 DEF Handle

LEMMA HandlePlaces ==
  ASSUME IInv, NEW p \in Posts, Handle(p)
  PROVE  (\A k \in Commands : CommandInv(k))' /\ (\A q \in Posts : PostInv(q))'
<1> USE DEF IInv, Tx
<1>1. ASSUME NEW k \in Commands PROVE CommandInv(k)'
  <2>1. cmd[k] = "idle" => reply'[k] = reply[k] /\ p[1] # k
    BY HandleFrame DEF CommandInv
  <2>2. \A q \in Posts : q # p => gate'[q] = gate[q]
    BY HandleFrame
  <2> QED
    BY <2>1, <2>2, HandleFrame DEF CommandInv
<1>2. ASSUME NEW q \in Posts PROVE PostInv(q)'
  <2>1. CASE q # p
    BY <2>1, HandleFrame DEF PostInv
  <2>2. CASE q = p
    <3>1. now # Never
      BY DEF TypeOK, Never
    <3> QED
      BY <2>2, <3>1, HandleFrame DEF PostInv
  <2> QED
    BY <2>1, <2>2
<1> QED
  BY <1>1, <1>2

LEMMA WorldPlaces ==
  ASSUME IInv, (\E b \in Buys : Settle(b)) \/ Close \/ Restart \/ Tick \/ UNCHANGED vars
  PROVE  (\A k \in Commands : CommandInv(k))' /\ (\A p \in Posts : PostInv(p))'
<1> USE DEF IInv, Tx, fileVars, buyerVars, storeVars, historyVars
<1>1. ASSUME NEW b \in Buys, Settle(b)
      PROVE  (\A k \in Commands : CommandInv(k))' /\ (\A p \in Posts : PostInv(p))'
  BY <1>1 DEF Settle, TypeOK, CommandInv, PostInv
<1>2. CASE Close \/ Tick \/ UNCHANGED vars
  BY <1>2 DEF Close, Tick, vars, CommandInv, PostInv
<1>3. CASE Restart
  BY <1>3 DEF Restart, TypeOK, CommandInv, PostInv
<1> QED
  BY <1>1, <1>2, <1>3

\* Only a command that is at its end is in the file, and it stays there.
LEMMA CommandFiles ==
  ASSUME IInv, CommandStep PROVE FileInv'
<1> USE DEF IInv, TypeOK, FileInv, fileVars, Goes
<1>1. ASSUME NEW b \in Buys, BuyStep(b) PROVE FileInv'
  BY <1>1 DEF BuyStep, PayOk, PaidUnreported, NotPaid, SavePending, SaveFails, Commands
<1>2. ASSUME NEW k \in Recovers, StartRecover(k) PROVE FileInv'
  BY <1>2 DEF StartRecover, Commands
<1>3. ASSUME NEW k \in Commands, LoadCredentials(k) PROVE FileInv'
  BY <1>3 DEF LoadCredentials
<1>4. ASSUME NEW k \in Commands, AddCredential(k) PROVE FileInv'
  BY <1>4 DEF AddCredential, Replace
<1>5. ASSUME NEW k \in Commands, Crash(k) PROVE FileInv'
  BY <1>5 DEF Crash, Over
<1>6. ASSUME NEW k \in Commands,
             \/ Post(k) \/ PostRaises(k) \/ ReceiveCredential(k) \/ ReceiveBusy(k)
             \/ ReceiveRefusal(k) \/ ClearPending(k)
      PROVE  FileInv'
  BY <1>6 DEF Post, PostRaises, ReceiveCredential, ReceiveBusy, ReceiveRefusal, ClearPending
<1>7. CASE SpenderSaves
  BY <1>7 DEF SpenderSaves, Replace
<1> QED
  BY <1>1, <1>2, <1>3, <1>4, <1>5, <1>6, <1>7 DEF CommandStep, SubmitStep

LEMMA FilesKept ==
  ASSUME IInv, UNCHANGED <<cmd, file, copy>> PROVE FileInv'
  BY DEF IInv, FileInv

LEMMA NextIInv == IInv /\ [Next]_vars => IInv'
<1> SUFFICES ASSUME IInv, [Next]_vars PROVE IInv'
  OBVIOUS
<1>1. CASE CommandStep
  BY <1>1, CommandTypeOK, CommandPlaces, CommandFiles DEF IInv
<1>2. ASSUME NEW p \in Posts, Handle(p) PROVE IInv'
  BY <1>2, HandleTypeOK, HandlePlaces, HandleFrame, FilesKept DEF IInv
<1>3. CASE (\E b \in Buys : Settle(b)) \/ Close \/ Restart \/ Tick \/ UNCHANGED vars
  <2>1. UNCHANGED <<cmd, file, copy>>
    BY <1>3 DEF Settle, Close, Restart, Tick, vars, buyerVars, fileVars
  <2> QED
    BY <1>3, <2>1, WorldTypeOK, WorldPlaces, FilesKept DEF IInv
<1> QED
  BY <1>1, <1>2, <1>3 DEF Next, AllOver, CommandStep

\* Every variable keeps its type, for any commands, attempts and bounds.
THEOREM TypeCorrect == Spec => []TypeOK
<1>1. IInv => TypeOK
  BY DEF IInv
<1> QED
  BY <1>1, InitIInv, NextIInv, PTL DEF Spec

-----------------------------------------------------------------------------
(* Credentials *)

\* A credential that was handed out for t.
Good(t, at) ==
  /\ t \in Buys /\ at # Never
  /\ chain[t] = "landed"
  /\ at = issued[t] \/ forgot[t] # {}

AnswerInv(k) ==
  /\ cred[k] # Never => Good(target[k], cred[k])
  /\ reply[k].kind = "credential" => Good(target[k], reply[k].at)

RowInv(t) == issued[t] # Never \/ durable[t] # Never => chain[t] = "landed"

\* Whoever inserted the row answers with what is in it.
WinnerInv(p) == gate[p] = "commit" => stamp[p] = issued[Tx(p)]

CredentialInv ==
  /\ \A k \in Commands : AnswerInv(k)
  /\ \A t \in Buys : RowInv(t)
  /\ \A p \in Posts : WinnerInv(p)

LEMMA InitCredentialInv == Init => CredentialInv
  BY DEF Init, CredentialInv, AnswerInv, RowInv, WinnerInv, NoAnswer

\* Commands pass answers on; their targets and payments stay once they have any.
LEMMA CommandFrame ==
  ASSUME IInv, CommandStep
  PROVE  /\ UNCHANGED <<stamp, issued, durable, forgot>>
         /\ \A t \in Buys : chain[t] = "landed" => chain'[t] = "landed"
         /\ \A p \in Posts : gate'[p] = gate[p] \/ gate'[p] = "sent"
         /\ \A c \in Commands :
              /\ target'[c] = target[c] \/ cmd[c] = "idle"
              /\ \/ cred'[c] = cred[c]
                 \/ reply[c].kind = "credential" /\ cred'[c] = reply[c].at
              /\ reply'[c] = reply[c] \/ reply'[c] = NoAnswer
<1> USE CommandsAssumption DEF IInv, TypeOK, fileVars, buyerVars, storeVars, historyVars, Goes
<1>1. ASSUME NEW b \in Buys, BuyStep(b)
      PROVE  /\ UNCHANGED <<stamp, issued, durable, forgot, gate, cred, reply>>
             /\ \A t \in Buys : chain[t] = "landed" => chain'[t] = "landed"
             /\ \A c \in Commands : target'[c] = target[c] \/ cmd[c] = "idle"
  <2>1. cmd[b] = "idle" => chain[b] = "none"
    BY DEF CommandInv, Commands
  <2> QED
    BY <1>1, <2>1 DEF BuyStep, PayOk, PaidUnreported, NotPaid, SavePending, SaveFails
<1>2. ASSUME NEW k \in Recovers, StartRecover(k)
      PROVE  /\ UNCHANGED <<stamp, issued, durable, forgot, gate, cred, reply, chain>>
             /\ \A c \in Commands : target'[c] = target[c] \/ cmd[c] = "idle"
  BY <1>2 DEF StartRecover
<1>3. ASSUME NEW k \in Commands, SubmitStep(k)
      PROVE  /\ UNCHANGED <<stamp, issued, durable, forgot, target, chain>>
             /\ \A p \in Posts : gate'[p] = gate[p] \/ gate'[p] = "sent"
             /\ \A c \in Commands :
                  /\ \/ cred'[c] = cred[c]
                     \/ reply[c].kind = "credential" /\ cred'[c] = reply[c].at
                  /\ reply'[c] = reply[c] \/ reply'[c] = NoAnswer
  BY <1>3 DEF SubmitStep, Post, PostRaises, ReceiveCredential, ReceiveBusy, ReceiveRefusal,
     ClearPending, LoadCredentials, AddCredential, Crash
<1>4. CASE SpenderSaves
  BY <1>4 DEF SpenderSaves
<1> QED
  BY <1>1, <1>2, <1>3, <1>4 DEF CommandStep

LEMMA CommandCredentialInv ==
  ASSUME IInv, CredentialInv, CommandStep PROVE CredentialInv'
<1> USE DEF IInv, CredentialInv
<1>1. ASSUME NEW k \in Commands PROVE AnswerInv(k)'
  <2>1. \A t, at : Good(t, at) => Good(t, at)'
    BY CommandFrame DEF Good
  <2>2. CASE cmd[k] = "idle"
    <3>1. reply[k].kind = "none" /\ cred[k] = Never
      BY <2>2 DEF CommandInv, NoAnswer
    <3>2. reply'[k].kind = "none" /\ cred'[k] = Never
      BY <3>1, CommandFrame DEF NoAnswer
    <3> QED
      BY <3>2 DEF AnswerInv
  <2>3. CASE cmd[k] # "idle"
    <3>1. cred'[k] # Never => Good(target'[k], cred'[k])
      BY <2>3, CommandFrame DEF AnswerInv
    <3>2. reply'[k].kind = "credential" => Good(target'[k], reply'[k].at)
      BY <2>3, CommandFrame DEF AnswerInv, NoAnswer
    <3>3. \A t, at : Good(t, at) => t \in Buys
      BY DEF Good
    <3> QED
      BY <2>1, <3>1, <3>2, <3>3 DEF AnswerInv
  <2> QED
    BY <2>2, <2>3
<1>2. ASSUME NEW t \in Buys PROVE RowInv(t)'
  BY CommandFrame DEF RowInv
<1>3. ASSUME NEW p \in Posts PROVE WinnerInv(p)'
  <2>1. gate'[p] = "commit" => cmd[p[1]] # "idle" /\ gate[p] = "commit"
    BY CommandFrame, PostTypes DEF CommandInv
  <2> QED
    BY <2>1, CommandFrame, PostTypes DEF WinnerInv, Tx
<1> QED
  BY <1>1, <1>2, <1>3

\* Handlers answer with what is in the row, and write it only once.
LEMMA HandleEffect ==
  ASSUME IInv, NEW p \in Posts, Handle(p)
  PROVE  /\ \/ issued' = issued
            \/ /\ gate[p] = "insert" /\ gate'[p] = "commit" /\ reply' = reply
               /\ issued[Tx(p)] = Never
               /\ issued' = [issued EXCEPT ![Tx(p)] = stamp[p]]
         /\ durable' = durable \/ durable' = issued
         /\ gate'[p] = "commit" => issued' = [issued EXCEPT ![Tx(p)] = stamp[p]]
         /\ \A k \in Commands :
              \/ reply'[k] = reply[k]
              \/ reply'[k].kind # "credential"
              \/ /\ k = p[1] /\ issued' = issued
                 /\ \/ issued[Tx(p)] # Never /\ reply'[k] = Credential(issued[Tx(p)])
                    \/ gate[p] = "commit" /\ reply'[k] = Credential(stamp[p])
<1> USE DEF IInv, TypeOK, fileVars, buyerVars, storeVars, historyVars, GateGoes, Gates
<1>1. ASSUME NEW s \in Gates \ {"none", "over"}, NEW a, Reply(p, s, a)
      PROVE  /\ gate[p] = s /\ gate'[p] = "over"
             /\ \A k \in Commands : reply'[k] = reply[k] \/ (k = p[1] /\ reply'[k] = a)
  BY <1>1, PostTypes DEF Reply
<1>2. Busy.kind # "credential" /\ Refused.kind # "credential"
  BY DEF Busy, Refused
<1>3. CASE RateLimited(p)
  BY <1>3, <1>1, <1>2 DEF RateLimited
<1>4. CASE LookupFinds(p) \/ RereadFinds(p)
  BY <1>4, <1>1 DEF LookupFinds, RereadFinds, Replay, Found
<1>5. CASE LookupFindsNothing(p) \/ Verified(p)
  BY <1>5 DEF LookupFindsNothing, Verified
<1>6. CASE VerifyFailed(p) \/ RereadFindsNothing(p)
  BY <1>6, <1>1, <1>2 DEF VerifyFailed, RereadFindsNothing
<1>7. CASE Commit(p)
  BY <1>7, <1>1 DEF Commit
<1>8. CASE InsertWins(p)
  BY <1>8 DEF InsertWins
<1>9. CASE InsertLoses(p) \/ InsertWithoutStore(p)
  BY <1>9 DEF InsertLoses, InsertWithoutStore
<1>10. CASE StoreFails(p)
  BY <1>10, <1>1, <1>2 DEF StoreFails
<1> QED
  BY <1>3, <1>4, <1>5, <1>6, <1>7, <1>8, <1>9, <1>10 DEF Handle

LEMMA HandleCredentialInv ==
  ASSUME IInv, CredentialInv, NEW p \in Posts, Handle(p) PROVE CredentialInv'
<1> USE DEF IInv, CredentialInv
<1>1. Tx(p) \in Buys
  BY HandleFrame DEF PostInv
<1>2. \A t, at : Good(t, at) => Good(t, at)'
  <2> SUFFICES ASSUME NEW t, NEW at, Good(t, at) PROVE Good(t, at)'
    OBVIOUS
  <2>1. issued'[t] = issued[t] \/ issued[t] = Never
    BY <1>1, HandleEffect DEF Good, TypeOK
  <2> QED
    BY <2>1, HandleFrame DEF Good
<1>3. ASSUME NEW k \in Commands PROVE AnswerInv(k)'
  <2>1. (cred[k] # Never => Good(target[k], cred[k]))'
    BY <1>2, HandleFrame DEF AnswerInv
  <2>2. ASSUME reply'[k].kind = "credential" PROVE Good(target[k], reply[k].at)'
    <3>1. CASE reply'[k] = reply[k]
      BY <1>2, <2>2, <3>1, HandleFrame DEF AnswerInv
    <3>2. CASE /\ k = p[1] /\ issued' = issued
               /\ issued[Tx(p)] # Never /\ reply'[k] = Credential(issued[Tx(p)])
      BY <1>1, <3>2, HandleFrame DEF Credential, Good, RowInv, Tx
    <3>3. CASE /\ k = p[1] /\ issued' = issued
               /\ gate[p] = "commit" /\ reply'[k] = Credential(stamp[p])
      BY <1>1, <3>3, HandleFrame DEF Credential, Good, WinnerInv, PostInv, Tx
    <3> QED
      BY <2>2, <3>1, <3>2, <3>3, HandleEffect
  <2> QED
    BY <2>1, <2>2 DEF AnswerInv
<1>4. ASSUME NEW t \in Buys PROVE RowInv(t)'
  BY <1>1, HandleFrame, HandleEffect DEF RowInv, PostInv, TypeOK
<1>5. ASSUME NEW q \in Posts PROVE WinnerInv(q)'
  <2>1. CASE q = p
    BY <1>1, <2>1, HandleFrame, HandleEffect DEF WinnerInv, Tx, TypeOK
  <2>2. CASE q # p
    <3>1. gate[q] = "commit" => Tx(q) \in Buys /\ stamp[q] # Never
      BY DEF PostInv
    <3>2. gate[q] = "commit" => issued'[Tx(q)] = issued[Tx(q)]
      BY <1>1, <3>1, HandleEffect DEF WinnerInv, TypeOK
    <3> QED
      BY <2>2, <3>2, HandleFrame DEF WinnerInv, Tx
  <2> QED
    BY <2>1, <2>2
<1> QED
  BY <1>3, <1>4, <1>5

LEMMA WorldCredentialInv ==
  ASSUME IInv, CredentialInv,
         (\E b \in Buys : Settle(b)) \/ Close \/ Restart \/ Tick \/ UNCHANGED vars
  PROVE  CredentialInv'
<1> USE DEF IInv, CredentialInv, Tx, fileVars, buyerVars, storeVars, historyVars
<1>1. ASSUME NEW b \in Buys, Settle(b) PROVE CredentialInv'
  BY <1>1 DEF Settle, TypeOK, AnswerInv, RowInv, WinnerInv, Good
<1>2. CASE Close \/ Tick \/ UNCHANGED vars
  BY <1>2 DEF Close, Tick, vars, AnswerInv, RowInv, WinnerInv, Good
<1>3. CASE Restart
  <2>1. ASSUME NEW t \in Buys
        PROVE  /\ forgot[t] \subseteq forgot'[t]
               /\ issued'[t] = issued[t] \/ forgot'[t] # {}
               /\ issued'[t] # Never => durable[t] # Never
               /\ durable'[t] # Never => durable[t] # Never
    <3>1. /\ issued'[t] = Pruned(durable[t]) /\ durable'[t] = Pruned(durable[t])
          /\ forgot[t] \subseteq forgot'[t]
          /\ issued[t] # durable[t] => "uncommitted" \in forgot'[t]
          /\ TooOld(durable[t]) => "pruned" \in forgot'[t]
      BY <1>3 DEF Restart
    <3> QED
      BY <3>1 DEF Pruned
  <2>2. ASSUME NEW k \in Commands PROVE AnswerInv(k)'
    <3>1. \A t, at : Good(t, at) => Good(t, at)'
      BY <1>3, <2>1 DEF Restart, Good
    <3> QED
      BY <1>3, <3>1 DEF Restart, AnswerInv
  <2>3. \A t \in Buys : RowInv(t)'
    BY <1>3, <2>1 DEF Restart, RowInv
  <2>4. \A p \in Posts : WinnerInv(p)'
    BY <1>3 DEF Restart, WinnerInv
  <2> QED
    BY <2>2, <2>3, <2>4
<1> QED
  BY <1>1, <1>2, <1>3

LEMMA NextCredentialInv == IInv /\ CredentialInv /\ [Next]_vars => CredentialInv'
  BY CommandCredentialInv, HandleCredentialInv, WorldCredentialInv
     DEF Next, AllOver, CommandStep

LEMMA Credentials == Spec => [](IInv /\ CredentialInv)
<1> QED
  BY InitIInv, NextIInv, InitCredentialInv, NextCredentialInv, PTL DEF Spec

\* However posts race, are lost and are repeated, a payment is given one
\* credential, unless a restart of the gateway forgot its row.
THEOREM OneCredentialEach == Spec => []OneCredential
<1>1. CredentialInv => OneCredential
  BY DEF CredentialInv, AnswerInv, Good, OneCredential, Handed
<1> QED
  BY <1>1, Credentials, PTL

\* No credential is handed out and no issuance committed before the payment
\* has landed.
THEOREM CredentialsArePaid == Spec => []CredentialIsPaid
<1>1. CredentialInv => CredentialIsPaid
  BY DEF CredentialInv, AnswerInv, RowInv, Good, CredentialIsPaid, Handed
<1> QED
  BY <1>1, Credentials, PTL

-----------------------------------------------------------------------------
(* The payment that was made *)

\* Until a command has its credential, a payment is in the record, about to be
\* recorded, or one of the mishaps took it out.
Done(t) == \E k \in Commands :
             target[k] = t /\ (cmd[k] \in {"cleared", "loaded"} \/ k \in file)

Sighted(t) == pending.tx = t \/ mishap[t] # {} \/ cmd[t] = "save" \/ Done(t)

SightInv == \A t \in Buys : chain[t] # "none" => Sighted(t)

LEMMA InitSightInv == Init => SightInv
  BY DEF Init, SightInv

\* A step that takes no record out and leaves no command short of its end.
LEMMA SightKept ==
  ASSUME IInv, SightInv, UNCHANGED <<pending, target, file>>,
         \A t \in Buys : chain'[t] # "none" => chain[t] # "none",
         \A t \in Buys : mishap[t] \subseteq mishap'[t],
         \A k \in Commands : cmd[k] \in {"save", "cleared", "loaded"} => cmd'[k] = cmd[k]
  PROVE  SightInv'
<1> USE DEF SightInv
<1> SUFFICES ASSUME NEW t \in Buys, chain'[t] # "none" PROVE Sighted(t)'
  OBVIOUS
<1>1. Sighted(t)
  OBVIOUS
<1>2. Done(t) => Done(t)'
  BY DEF Done
<1>3. t \in Commands
  BY DEF Commands
<1> QED
  BY <1>1, <1>2, <1>3 DEF Sighted

LEMMA DisplaceRecords ==
  ASSUME IInv, NEW t \in Buys, NEW why, Displace(t, why)
  PROVE  \A b \in Buys : /\ mishap[b] \subseteq mishap'[b]
                         /\ pending.tx = b /\ b # t => mishap'[b] # {}
  BY DEF Displace

LEMMA CommandSightInv ==
  ASSUME IInv, SightInv, CommandStep PROVE SightInv'
<1> USE DEF IInv, fileVars, buyerVars, storeVars, historyVars
<1>1. ASSUME NEW b \in Buys, PayOk(b) PROVE SightInv'
  <2>0. b \in Commands
    BY DEF Commands
  <2> SUFFICES ASSUME NEW t \in Buys, chain'[t] # "none" PROVE Sighted(t)'
    BY DEF SightInv
  <2>1. CASE t = b
    BY <1>1, <2>0, <2>1 DEF PayOk, Goes, TypeOK, Sighted
  <2>2. CASE t # b
    <3>1. Sighted(t)
      BY <1>1, <2>2 DEF PayOk, TypeOK, SightInv
    <3>2. Done(t) => Done(t)'
      BY <1>1, <2>0 DEF PayOk, Goes, TypeOK, Done, FileInv
    <3> QED
      BY <1>1, <2>2, <3>1, <3>2 DEF PayOk, Goes, TypeOK, Sighted, Commands
  <2> QED
    BY <2>1, <2>2
<1>10. ASSUME NEW b \in Buys, PaidUnreported(b) PROVE SightInv'
  <2>0. b \in Commands
    BY DEF Commands
  <2> SUFFICES ASSUME NEW t \in Buys, chain'[t] # "none" PROVE Sighted(t)'
    BY DEF SightInv
  <2>1. CASE t = b
    BY <1>10, <2>1 DEF PaidUnreported, TypeOK, Sighted
  <2>2. CASE t # b
    <3>1. Sighted(t)
      BY <1>10, <2>2 DEF PaidUnreported, TypeOK, SightInv
    <3>2. Done(t) => Done(t)'
      BY <1>10, <2>0 DEF PaidUnreported, Goes, TypeOK, Done
    <3> QED
      BY <1>10, <2>2, <3>1, <3>2 DEF PaidUnreported, Goes, TypeOK, Sighted, Commands
  <2> QED
    BY <2>1, <2>2
<1>2. ASSUME NEW b \in Buys, NotPaid(b) PROVE SightInv'
  BY <1>2, SightKept DEF NotPaid, Goes, TypeOK
<1>3. ASSUME NEW b \in Buys, SavePending(b) PROVE SightInv'
  <2> SUFFICES ASSUME NEW t \in Buys, chain'[t] # "none" PROVE Sighted(t)'
    BY DEF SightInv
  <2>1. CASE t = b
    BY <1>3, <2>1 DEF SavePending, Sighted
  <2>2. CASE t # b
    <3>1. Sighted(t)
      BY <1>3 DEF SavePending, SightInv
    <3>2. Done(t) => Done(t)'
      BY <1>3 DEF SavePending, Goes, TypeOK, Done
    <3>3. mishap[t] \subseteq mishap'[t] /\ (pending.tx = t => mishap'[t] # {})
      BY <1>3, <2>2, DisplaceRecords DEF SavePending
    <3>4. cmd[t] = "save" => cmd'[t] = "save"
      BY <1>3, <2>2 DEF SavePending, Goes, TypeOK, Commands
    <3> QED
      BY <3>1, <3>2, <3>3, <3>4 DEF Sighted
  <2> QED
    BY <2>1, <2>2
<1>4. ASSUME NEW b \in Buys, SaveFails(b) PROVE SightInv'
  <2> SUFFICES ASSUME NEW t \in Buys, chain'[t] # "none" PROVE Sighted(t)'
    BY DEF SightInv
  <2>1. CASE t = b
    BY <1>4, <2>1 DEF SaveFails, TypeOK, Sighted
  <2>2. CASE t # b
    <3>1. Sighted(t)
      BY <1>4 DEF SaveFails, SightInv
    <3>2. Done(t) => Done(t)'
      BY <1>4 DEF SaveFails, Goes, TypeOK, Done
    <3>3. mishap'[t] = mishap[t] /\ cmd'[t] = cmd[t]
      BY <1>4, <2>2 DEF SaveFails, Goes, TypeOK, Commands
    <3> QED
      BY <1>4, <3>1, <3>2, <3>3 DEF SaveFails, Sighted
  <2> QED
    BY <2>1, <2>2
<1>5. ASSUME NEW k \in Recovers, StartRecover(k) PROVE SightInv'
  <2>0. k \in Commands
    BY DEF Commands
  <2> SUFFICES ASSUME NEW t \in Buys, chain'[t] # "none" PROVE Sighted(t)'
    BY DEF SightInv
  <2>1. Sighted(t)
    BY <1>5 DEF StartRecover, SightInv
  <2>2. Done(t) => Done(t)'
    BY <1>5, <2>0 DEF StartRecover, Goes, TypeOK, Done, FileInv
  <2>3. cmd[t] = "save" => cmd'[t] = "save"
    BY <1>5, <2>0 DEF StartRecover, Goes, TypeOK, Commands
  <2> QED
    BY <1>5, <2>1, <2>2, <2>3 DEF StartRecover, Sighted
<1>6. ASSUME NEW k \in Commands,
             \/ Post(k) \/ PostRaises(k) \/ ReceiveCredential(k) \/ ReceiveBusy(k)
             \/ ReceiveRefusal(k)
      PROVE  SightInv'
  BY <1>6, SightKept DEF Post, PostRaises, ReceiveCredential, ReceiveBusy, ReceiveRefusal,
     Goes, TypeOK
<1>7. ASSUME NEW k \in Commands, ClearPending(k) PROVE SightInv'
  <2> SUFFICES ASSUME NEW t \in Buys, chain'[t] # "none" PROVE Sighted(t)'
    BY DEF SightInv
  <2>1. target[k] \in Buys
    BY <1>7 DEF ClearPending, Goes, CommandInv
  <2>2. CASE t = target[k]
    <3>1. Done(t)'
      BY <1>7, <2>2 DEF ClearPending, Goes, TypeOK, Done
    <3> QED
      BY <3>1 DEF Sighted
  <2>3. CASE t # target[k]
    <3>1. Sighted(t)
      BY <1>7 DEF ClearPending, SightInv
    <3>2. Done(t) => Done(t)'
      BY <1>7 DEF ClearPending, Goes, TypeOK, Done
    <3>3. mishap[t] \subseteq mishap'[t] /\ (pending.tx = t => mishap'[t] # {})
      BY <1>7, <2>1, <2>3, DisplaceRecords DEF ClearPending
    <3>4. cmd[t] = "save" => cmd'[t] = "save"
      BY <1>7 DEF ClearPending, Goes, TypeOK, Commands
    <3> QED
      BY <3>1, <3>2, <3>3, <3>4 DEF Sighted
  <2> QED
    BY <2>2, <2>3
<1>11. ASSUME NEW k \in Commands, LoadCredentials(k) PROVE SightInv'
  <2> SUFFICES ASSUME NEW t \in Buys, chain'[t] # "none" PROVE Sighted(t)'
    BY DEF SightInv
  <2>1. Sighted(t)
    BY <1>11 DEF LoadCredentials, SightInv
  <2>2. Done(t) => Done(t)'
    BY <1>11 DEF LoadCredentials, Goes, TypeOK, Done
  <2>3. cmd[t] = "save" => cmd'[t] = "save"
    BY <1>11 DEF LoadCredentials, Goes, TypeOK, Commands
  <2> QED
    BY <1>11, <2>1, <2>2, <2>3 DEF LoadCredentials, Sighted
<1>12. ASSUME NEW new, Replace(new), target' = target
       PROVE  \A t \in Buys :
                /\ mishap[t] \subseteq mishap'[t]
                /\ \A j \in file : target[j] = t => j \in file' \/ mishap'[t] # {}
  BY <1>12 DEF Replace
<1>8. ASSUME NEW k \in Commands, AddCredential(k) PROVE SightInv'
  <2> SUFFICES ASSUME NEW t \in Buys, chain'[t] # "none" PROVE Sighted(t)'
    BY DEF SightInv
  <2>1. Sighted(t)
    BY <1>8 DEF AddCredential, SightInv
  <2>2. /\ mishap[t] \subseteq mishap'[t]
        /\ \A j \in file : target[j] = t => j \in file' \/ mishap'[t] # {}
    BY <1>8, <1>12 DEF AddCredential
  <2>3. /\ k \in file' /\ UNCHANGED <<pending, target, chain>>
        /\ \A c \in Commands : c # k => cmd'[c] = cmd[c]
        /\ cmd[k] = "loaded"
    BY <1>8 DEF AddCredential, Replace, Goes, TypeOK
  <2>4. Done(t) => Done(t)' \/ mishap'[t] # {}
    <3> SUFFICES ASSUME NEW c \in Commands, target[c] = t,
                        cmd[c] \in {"cleared", "loaded"} \/ c \in file
                 PROVE  Done(t)' \/ mishap'[t] # {}
      BY DEF Done
    <3>1. CASE c = k
      BY <2>3, <3>1 DEF Done
    <3>2. CASE c # k
      BY <2>2, <2>3, <3>2 DEF Done
    <3> QED
      BY <3>1, <3>2
  <2>5. cmd[t] = "save" => cmd'[t] = "save"
    BY <2>3 DEF Commands
  <2> QED
    BY <2>1, <2>2, <2>3, <2>4, <2>5 DEF Sighted
<1>13. CASE SpenderSaves
  <2> SUFFICES ASSUME NEW t \in Buys, chain'[t] # "none" PROVE Sighted(t)'
    BY DEF SightInv
  <2>0. UNCHANGED <<pending, target, chain, cmd>>
    BY <1>13 DEF SpenderSaves
  <2>1. Sighted(t)
    BY <2>0 DEF SightInv
  <2>2. /\ mishap[t] \subseteq mishap'[t]
        /\ \A j \in file : target[j] = t => j \in file' \/ mishap'[t] # {}
    BY <1>12, <1>13, <2>0 DEF SpenderSaves
  <2>3. Done(t) => Done(t)' \/ mishap'[t] # {}
    BY <2>0, <2>2 DEF Done
  <2> QED
    BY <2>0, <2>1, <2>2, <2>3 DEF Sighted
<1>9. ASSUME NEW k \in Commands, Crash(k) PROVE SightInv'
  <2> SUFFICES ASSUME NEW t \in Buys, chain'[t] # "none" PROVE Sighted(t)'
    BY DEF SightInv
  <2>1. Sighted(t)
    BY <1>9 DEF Crash, SightInv
  <2>2. target[k] \in Buys
    BY <1>9 DEF Crash, Over, CommandInv
  <2>3. \A b \in Buys : mishap[b] \subseteq mishap'[b]
    BY <1>9 DEF Crash, TypeOK
  <2>4. /\ cmd[k] \in {"save", "cleared", "loaded"} => mishap'[target[k]] # {}
        /\ k \notin file /\ file' = file
    BY <1>9, <2>2 DEF Crash, TypeOK, Over, FileInv
  <2>5. cmd[t] = "save" => cmd'[t] = "save" \/ mishap'[t] # {}
    BY <1>9, <2>4 DEF Crash, TypeOK, CommandInv, Commands
  <2>6. Done(t) => Done(t)' \/ mishap'[t] # {}
    <3> SUFFICES ASSUME NEW c \in Commands, target[c] = t,
                        cmd[c] \in {"cleared", "loaded"} \/ c \in file
                 PROVE  Done(t)' \/ mishap'[t] # {}
      BY DEF Done
    <3>1. CASE c = k
      BY <1>9, <2>4, <3>1 DEF Crash, Over
    <3>2. CASE c # k
      BY <1>9, <2>4, <3>2 DEF Crash, TypeOK, Done
    <3> QED
      BY <3>1, <3>2
  <2> QED
    BY <1>9, <2>1, <2>3, <2>5, <2>6 DEF Crash, Sighted
<1> QED
  BY <1>1, <1>2, <1>3, <1>4, <1>5, <1>6, <1>7, <1>8, <1>9, <1>10, <1>11, <1>13
     DEF CommandStep, BuyStep, SubmitStep

LEMMA NextSightInv == IInv /\ SightInv /\ [Next]_vars => SightInv'
<1> SUFFICES ASSUME IInv, SightInv, [Next]_vars PROVE SightInv'
  OBVIOUS
<1> USE DEF fileVars, buyerVars, storeVars, historyVars
<1>1. CASE CommandStep
  BY <1>1, CommandSightInv
<1>2. ASSUME NEW p \in Posts, Handle(p) PROVE SightInv'
  BY <1>2, HandleFrame, SightKept
<1>3. ASSUME NEW b \in Buys, Settle(b) PROVE SightInv'
  BY <1>3, SightKept DEF Settle, IInv, TypeOK
<1>4. CASE Close \/ Restart \/ Tick \/ UNCHANGED vars
  BY <1>4, SightKept DEF Close, Restart, Tick, vars
<1> QED
  BY <1>1, <1>2, <1>3, <1>4 DEF Next, AllOver, CommandStep

\* A payment that was made is never out of sight of all commands and of the
\* record, but for the mishaps the model names.
THEOREM PaidStaysInSight == Spec => []PaidIsInSight
<1>1. IInv /\ SightInv => PaidIsInSight
  <2> SUFFICES ASSUME IInv, SightInv, NEW t \in Buys, chain[t] # "none"
               PROVE  \/ \E k \in Commands :
                           target[k] = t /\ (cmd[k] \notin Over \/ k \in file)
                      \/ pending.tx = t
                      \/ mishap[t] # {}
    BY DEF PaidIsInSight
  <2>1. t \in Commands
    BY DEF Commands
  <2>2. cmd[t] = "save" => target[t] = t
    BY <2>1 DEF IInv, CommandInv
  <2> QED
    BY <2>1, <2>2 DEF SightInv, Sighted, Done, Over
<1> QED
  BY <1>1, InitIInv, NextIInv, InitSightInv, NextSightInv, PTL DEF Spec

-----------------------------------------------------------------------------
(* The forward proxy                                                       *)

Up == {s \in Starts : startPc[s] \in {"init", "balance", "deposit", "up"}}

ProxyTypes ==
  /\ {running, serving, closable, overlapped} \subseteq BOOLEAN
  /\ loop \subseteq Starts /\ alive \subseteq Starts /\ loop \subseteq alive
  /\ startPc \in [Starts -> {"idle", "noop", "init", "balance", "deposit", "up", "done", "raised"}]
  /\ stopPc \in {"no", "shutdown", "loops", "closing"}
  /\ stops \in 0 .. MaxStops /\ balance \in Nat
  /\ reqPc \in [Requests -> {"idle", "queued", "handled", "tunnel", "refused", "reset",
                             "closed", "answered", "502"}]
  /\ co \in [Requests -> {"none", "running", "paid", "finished", "dropped"}]
  /\ coLoop \in [Requests -> SUBSET Starts]
  /\ paid \subseteq Requests /\ gaveUp \subseteq Requests /\ raised \subseteq Requests
  /\ stranded \subseteq Starts

HandlerBusy(r) == reqPc[r] \in {"handled", "tunnel"}

\* One handler thread; none is at work, and no server takes more, once stop
\* has come to the loop.
HandlerInv ==
  /\ \A r, s \in Requests : HandlerBusy(r) /\ HandlerBusy(s) => r = s
  /\ stopPc = "loops" => ~serving /\ \A r \in Requests : ~HandlerBusy(r)

\* A coroutine has a loop, and a handler that waits for it or gave up on it.
ReceiptInv == \A r \in Requests :
  /\ reqPc[r] \in {"idle", "queued"} => co[r] = "none"
  /\ co[r] \in {"running", "paid"} => reqPc[r] \in {"handled", "502"} /\ coLoop[r] # {}
  /\ co[r] = "dropped" => reqPc[r] = "502"
  /\ r \in paid => co[r] \in {"paid", "finished", "dropped"}
  /\ reqPc[r] = "502" /\ co[r] \in {"running", "paid", "dropped"} => r \in gaveUp
  /\ reqPc[r] = "502" /\ r \in paid => r \in gaveUp \cup raised

\* But for overlaps: at most one start is under way, of a proxy that is down,
\* and only the current loop runs, with those of the starts that could not
\* bind; a coroutine that is not over is the server's, on its loop.
UpInv ==
  ~overlapped =>
    /\ alive \subseteq loop \cup stranded
    /\ \A r \in Requests : co[r] \in {"running", "paid"} =>
         coLoop[r] = loop /\ (serving \/ stopPc = "loops")
    /\ \A s, t \in Up : s = t
    /\ Up # {} => ~running /\ stopPc = "no"
    /\ stopPc \in {"no", "shutdown"} => /\ running <=> serving
                                        /\ serving => loop # {}
                                        /\ ~serving => loop \subseteq stranded
                                        /\ running => closable
    /\ stopPc \in {"loops", "closing"} => ~serving
    /\ stopPc = "closing" => loop = {}
    /\ balance <= TopUp
    /\ \A s \in Starts : startPc[s] = "deposit" => balance = 0

ProxyInv == ProxyTypes /\ HandlerInv /\ ReceiptInv /\ UpInv

-----------------------------------------------------------------------------

LEMMA ProxyInitInv == Proxy!Init => ProxyInv
<1> SUFFICES ASSUME Proxy!Init PROVE ProxyInv
  OBVIOUS
<1> USE DEF Proxy!Init
<1>1. ProxyTypes
  <2>1. {running, serving, closable, overlapped} \subseteq BOOLEAN  OBVIOUS
  <2>2. stops \in 0 .. MaxStops  BY ProxyAssumption
  <2> QED  BY <2>1, <2>2 DEF ProxyTypes
<1>2. HandlerInv /\ ReceiptInv  BY DEF HandlerInv, ReceiptInv, HandlerBusy
<1>3. UpInv  BY ProxyAssumption DEF UpInv, Up
<1> QED  BY <1>1, <1>2, <1>3 DEF ProxyInv

LEMMA StartStep ==
  ASSUME ProxyInv, NEW s \in Starts,
         \/ Proxy!BeginStart(s) \/ Proxy!OpenWallet(s) \/ Proxy!ReadBalance(s)
         \/ Proxy!Deposit(s) \/ Proxy!ComeUp(s)
  PROVE  ProxyInv'
<1> USE ProxyAssumption DEF ProxyInv, Proxy!requests, Proxy!service, Proxy!AppBlocked
<1>1. CASE Proxy!BeginStart(s)
  <2> USE <1>1 DEF Proxy!BeginStart
  <2>1. ProxyTypes'  BY DEF ProxyTypes
  <2>2. HandlerInv' /\ ReceiptInv'  BY DEF HandlerInv, ReceiptInv, HandlerBusy
  <2>3. ASSUME ~overlapped' PROVE ~overlapped /\ stopPc = "no" /\ (running \/ Up = {})
    BY <2>3 DEF Proxy!Starting, Up, ProxyTypes
  <2>4. Up' = IF running THEN Up ELSE Up \cup {s}
    BY DEF Up, ProxyTypes
  <2>5. \A t \in Starts : startPc'[t] = "deposit" => startPc[t] = "deposit"
    BY DEF ProxyTypes
  <2>6. UpInv'
    <3> SUFFICES ASSUME ~overlapped' PROVE UpInv'
      BY DEF UpInv
    <3> QED  BY <2>3, <2>4, <2>5 DEF UpInv
  <2> QED  BY <2>1, <2>2, <2>6
<1>2. CASE Proxy!OpenWallet(s) \/ Proxy!ReadBalance(s)
  <2> USE <1>2 DEF Proxy!OpenWallet, Proxy!ReadBalance, Proxy!Poor
  <2>1. ProxyTypes'  BY DEF ProxyTypes
  <2>2. HandlerInv' /\ ReceiptInv'  BY DEF HandlerInv, ReceiptInv, HandlerBusy
  <2>3. Up' = Up  BY DEF Up, ProxyTypes
  <2>4. \A t \in Starts : startPc'[t] = "deposit" => startPc[t] = "deposit" \/ balance = 0
    BY DEF ProxyTypes
  <2>5. UpInv'  BY <2>3, <2>4 DEF UpInv
  <2> QED  BY <2>1, <2>2, <2>5
<1>3. CASE Proxy!Deposit(s)
  <2> USE <1>3 DEF Proxy!Deposit
  <2>1. ProxyTypes'  BY DEF ProxyTypes
  <2>2. HandlerInv' /\ ReceiptInv'  BY DEF HandlerInv, ReceiptInv, HandlerBusy
  <2>3. UpInv'  BY DEF UpInv, Up, ProxyTypes
  <2> QED  BY <2>1, <2>2, <2>3
<1>4. CASE Proxy!ComeUp(s)
  <2> USE <1>4 DEF Proxy!ComeUp
  <2>1. ProxyTypes'  BY DEF ProxyTypes
  <2>2. HandlerInv' /\ ReceiptInv'
    <3>1. stopPc # "loops"  OBVIOUS
    <3> QED  BY <3>1 DEF HandlerInv, ReceiptInv, HandlerBusy
  <2>3. s \in Up /\ Up' = Up \ {s}  BY DEF Up, ProxyTypes
  <2>4. \A t \in Starts : startPc'[t] = "deposit" => t \in Up \ {s}
    BY DEF Up, ProxyTypes
  <2>5. ASSUME ~overlapped
        PROVE  /\ Up' = {} /\ stopPc = "no" /\ ~running /\ ~serving
               /\ (running' <=> serving') /\ closable' = TRUE
               /\ loop' = {s} /\ (~serving' => s \in stranded')
               /\ alive' \subseteq loop' \cup stranded' /\ balance <= TopUp
               /\ \A r \in Requests : co[r] \notin {"running", "paid"}
    <3>1. /\ Up' = {} /\ stopPc = "no" /\ ~running /\ ~serving /\ balance <= TopUp
          /\ loop \subseteq stranded /\ alive \subseteq loop \cup stranded
      BY <2>3, <2>5 DEF UpInv, ProxyTypes
    <3>2. stranded \subseteq stranded' /\ alive' = alive \cup {s} /\ loop' = {s}
      OBVIOUS
    <3>3. \A r \in Requests : co[r] \notin {"running", "paid"}
      BY <2>5, <3>1 DEF UpInv
    <3>4. (running' <=> serving') /\ (~serving' => s \in stranded')
      <4>1. CASE serving' = TRUE /\ running' = TRUE  BY <4>1
      <4>2. CASE stranded' = stranded \cup {s} /\ UNCHANGED <<serving, running>>
        BY <3>1, <4>2
      <4> QED  BY <4>1, <4>2
    <3> QED  BY <3>1, <3>2, <3>3, <3>4
  <2>6. UpInv'
    <3> SUFFICES ASSUME ~overlapped PROVE UpInv'
      BY DEF UpInv
    <3> QED  BY <2>3, <2>4, <2>5 DEF UpInv
  <2> QED  BY <2>1, <2>2, <2>6
<1> QED  BY <1>1, <1>2, <1>3, <1>4

LEMMA StopStep ==
  ASSUME ProxyInv,
         Proxy!BeginStop \/ Proxy!Shutdown \/ Proxy!StopLoop \/ Proxy!EndStop
  PROVE  ProxyInv'
<1> USE ProxyAssumption DEF ProxyInv, Proxy!requests, Proxy!service
<1>1. CASE Proxy!BeginStop
  <2> USE <1>1 DEF Proxy!BeginStop, Proxy!Starting
  <2>1. ProxyTypes'  BY DEF ProxyTypes
  <2>2. HandlerInv' /\ ReceiptInv'  BY DEF HandlerInv, ReceiptInv, HandlerBusy
  <2>3. UpInv'  BY DEF UpInv, Up, ProxyTypes
  <2> QED  BY <2>1, <2>2, <2>3
<1>2. CASE Proxy!Shutdown
  <2> USE <1>2 DEF Proxy!Shutdown, Proxy!HandlerIsDone, Proxy!Handled
  <2>1. ProxyTypes'  BY DEF ProxyTypes
  <2>2. HandlerInv' /\ ReceiptInv'  BY DEF HandlerInv, ReceiptInv, HandlerBusy, ProxyTypes
  <2>3. UpInv'  BY DEF UpInv, Up, ProxyTypes
  <2> QED  BY <2>1, <2>2, <2>3
<1>3. CASE Proxy!StopLoop
  <2> USE <1>3 DEF Proxy!StopLoop, Proxy!Stopped, Proxy!Live
  <2>1. ProxyTypes'  BY DEF ProxyTypes
  <2>2. HandlerInv'  BY DEF HandlerInv, HandlerBusy
  <2>3. ReceiptInv'
    <3>1. \A r \in Requests : co'[r] # co[r] =>
             co[r] \in {"running", "paid"} /\ co'[r] = "dropped" /\ reqPc[r] # "handled"
      BY DEF HandlerInv, HandlerBusy, ProxyTypes
    <3> QED  BY <3>1 DEF ReceiptInv
  <2>4. UpInv'  BY DEF UpInv, Up, ProxyTypes
  <2> QED  BY <2>1, <2>2, <2>3, <2>4
<1>4. CASE Proxy!EndStop
  <2> USE <1>4 DEF Proxy!EndStop, Proxy!RunningAtEnd
  <2>1. ProxyTypes'  BY DEF ProxyTypes
  <2>2. HandlerInv' /\ ReceiptInv'  BY DEF HandlerInv, ReceiptInv, HandlerBusy
  <2>3. UpInv'  BY DEF UpInv, Up, ProxyTypes
  <2> QED  BY <2>1, <2>2, <2>3
<1> QED  BY <1>1, <1>2, <1>3, <1>4

LEMMA RequestStep ==
  ASSUME ProxyInv, NEW r \in Requests,
         \/ Proxy!Connect(r) \/ Proxy!Accept(r) \/ Proxy!CloseTunnel(r)
         \/ Proxy!Pay(r) \/ Proxy!Finish(r) \/ Proxy!GiveUp(r)
  PROVE  ProxyInv'
<1> USE ProxyAssumption DEF ProxyInv, Proxy!requests, Proxy!service
<1>1. CASE Proxy!Connect(r)
  <2> USE <1>1 DEF Proxy!Connect
  <2>1. ProxyTypes'  BY DEF ProxyTypes
  <2>2. HandlerInv' /\ ReceiptInv'  BY DEF HandlerInv, ReceiptInv, HandlerBusy, ProxyTypes
  <2>3. UpInv'  BY DEF UpInv, Up, ProxyTypes
  <2> QED  BY <2>1, <2>2, <2>3
<1>2. CASE Proxy!Accept(r)
  <2> USE <1>2 DEF Proxy!Accept, Proxy!CanHandle, Proxy!Handled
  <2>1. ProxyTypes'  BY DEF ProxyTypes
  <2>2. HandlerInv'  BY DEF HandlerInv, HandlerBusy, ProxyTypes
  <2>3. ReceiptInv'  BY DEF ReceiptInv, ProxyTypes
  <2>4. UpInv'  BY DEF UpInv, Up, ProxyTypes
  <2> QED  BY <2>1, <2>2, <2>3, <2>4
<1>3. CASE Proxy!CloseTunnel(r)
  <2> USE <1>3 DEF Proxy!CloseTunnel
  <2>1. ProxyTypes'  BY DEF ProxyTypes
  <2>2. HandlerInv' /\ ReceiptInv'  BY DEF HandlerInv, ReceiptInv, HandlerBusy, ProxyTypes
  <2>3. UpInv'  BY DEF UpInv, Up, ProxyTypes
  <2> QED  BY <2>1, <2>2, <2>3
<1>4. CASE Proxy!Pay(r)
  <2> USE <1>4 DEF Proxy!Pay, Proxy!Live
  <2>1. ProxyTypes'  BY DEF ProxyTypes
  <2>2. HandlerInv' /\ ReceiptInv'  BY DEF HandlerInv, ReceiptInv, HandlerBusy, ProxyTypes
  <2>3. UpInv'  BY DEF UpInv, Up, ProxyTypes
  <2> QED  BY <2>1, <2>2, <2>3
<1>5. CASE Proxy!Finish(r)
  <2> USE <1>5 DEF Proxy!Finish, Proxy!Live, Proxy!AnswerOf
  <2>1. ProxyTypes'  BY DEF ProxyTypes
  <2>2. HandlerInv'  BY DEF HandlerInv, HandlerBusy, ProxyTypes
  <2>3. ReceiptInv'  BY DEF ReceiptInv, ProxyTypes
  <2>4. UpInv'  BY DEF UpInv, Up, ProxyTypes
  <2> QED  BY <2>1, <2>2, <2>3, <2>4
<1>6. CASE Proxy!GiveUp(r)
  <2> USE <1>6 DEF Proxy!GiveUp
  <2>1. ProxyTypes'  BY DEF ProxyTypes
  <2>2. HandlerInv' /\ ReceiptInv'  BY DEF HandlerInv, ReceiptInv, HandlerBusy, ProxyTypes
  <2>3. UpInv'  BY DEF UpInv, Up, ProxyTypes
  <2> QED  BY <2>1, <2>2, <2>3
<1> QED  BY <1>1, <1>2, <1>3, <1>4, <1>5, <1>6

LEMMA ProxyStutter == ProxyInv /\ UNCHANGED Proxy!vars => ProxyInv'
  BY DEF ProxyInv, ProxyTypes, HandlerInv, HandlerBusy, ReceiptInv, UpInv, Up, Proxy!vars

LEMMA ProxyStep == ProxyInv /\ Proxy!Next => ProxyInv'
  BY StartStep, StopStep, RequestStep DEF Proxy!Next

LEMMA AtMostOne == ASSUME NEW S, \A x, y \in S : x = y PROVE Cardinality(S) <= 1
<1>1. CASE S = {}  BY <1>1, FS_EmptySet
<1>2. CASE S # {}
  <2>1. PICK x \in S : S = {x}  BY <1>2
  <2> QED  BY <2>1, FS_Singleton
<1> QED  BY <1>1, <1>2

LEMMA PatchCardinality == \A S : Patches!Cardinality(S) = Cardinality(S)
  BY DEF Patches!Cardinality, Cardinality

LEMMA ProxyCardinality == \A S : Proxy!Cardinality(S) = Cardinality(S)
  BY DEF Proxy!Cardinality, Cardinality

LEMMA ProxyProperties ==
  ProxyInv => /\ Proxy!TypeOK /\ Proxy!RunningIsTrue /\ Proxy!OneTopUp
              /\ Proxy!PaidIsAnswered /\ Proxy!DroppedWasAnswered
<1> SUFFICES ASSUME ProxyInv
             PROVE  /\ Proxy!TypeOK /\ Proxy!RunningIsTrue /\ Proxy!OneTopUp
                    /\ Proxy!PaidIsAnswered /\ Proxy!DroppedWasAnswered
  OBVIOUS
<1> USE DEF ProxyInv
<1>1. Proxy!TypeOK
  <2>1. Cardinality(Proxy!Handled) <= 1
    BY AtMostOne DEF HandlerInv, HandlerBusy, Proxy!Handled
  <2> QED  BY <2>1, ProxyCardinality DEF ProxyTypes, Proxy!TypeOK
<1>2. Proxy!RunningIsTrue
  BY DEF UpInv, ReceiptInv, ProxyTypes, Proxy!RunningIsTrue, Proxy!Live
<1>3. Proxy!OneTopUp
  BY DEF UpInv, Proxy!OneTopUp
<1>4. Proxy!PaidIsAnswered /\ Proxy!DroppedWasAnswered
  BY DEF ReceiptInv, ProxyTypes, Proxy!PaidIsAnswered, Proxy!DroppedWasAnswered
<1> QED  BY <1>1, <1>2, <1>3, <1>4

-----------------------------------------------------------------------------
(* The patches: types                                                      *)

Opening(c)  == pc[c] \in {"init", "balance", "deposit"}
Queueing(c) == pc[c] \in {"waiting", "woken", "asleep"}
Locking(c)  == Opening(c) \/ Queueing(c)

Lock == [owner : SUBSET Calls, waiters : Seq(Calls), loop : SUBSET SUBSET Calls]

PatchTypes ==
  /\ depth \in 0 .. MaxDepth /\ patched \in BOOLEAN /\ failed \in BOOLEAN
  /\ made \in Patches!Generations /\ middleware \in {0, made}
  /\ patched <=> middleware # 0
  /\ depth = 0 => ~patched
  /\ flagged \subseteq Patches!Generations \ {0} /\ ready \subseteq Patches!Generations \ {0}
  /\ kind \in [Calls -> {"coroutine", "blocking", "thread"}]
  /\ pc \in [Calls -> Patches!Places]
  /\ mine \in [Calls -> Patches!Generations] /\ lockOf \in [Calls -> Patches!Generations]
  /\ answer \in [Calls -> {"none", "unpaid", "served"}]
  /\ paid \subseteq Calls /\ gaveUp \subseteq Calls /\ raised \subseteq Calls
  /\ balance \in Nat /\ crossings \in Nat /\ failures \in 0 .. MaxFailures
  /\ locks \in [Patches!Generations -> Lock]
  /\ queue \in [Patches!Generations -> Seq(Calls)]

LEMMA CurrentType == PatchTypes => middleware \in Patches!Generations /\ 0 \in Patches!Generations
  BY BoundsAssumption DEF PatchTypes, Patches!Generations

LEMMA LockType ==
  ASSUME PatchTypes, NEW g \in Patches!Generations, NEW l \in Lock
  PROVE  [locks EXCEPT ![g] = l] \in [Patches!Generations -> Lock]
  BY DEF PatchTypes

\* Leaving a lock: c goes to p, and the first of the waiters is woken.
Leaves(c, p, waiters) ==
  IF waiters = <<>> THEN pc' = [pc EXCEPT ![c] = p]
  ELSE \E q \in {"woken", "asleep"} : pc' = [[pc EXCEPT ![c] = p] EXCEPT ![Head(waiters)] = q]

LEMMA WokenLeaves ==
  ASSUME NEW c, NEW p, NEW w, pc' \in Patches!Woken(c, p, w)
  PROVE  Leaves(c, p, w)
  BY DEF Patches!Woken, Leaves

LEMMA LoopType == ASSUME PatchTypes, NEW c \in Calls PROVE Patches!LoopOf(c) \in SUBSET Calls
  BY DEF PatchTypes, Patches!LoopOf

LEMMA LeavesType ==
  ASSUME PatchTypes, NEW c \in Calls, NEW p \in Patches!Places, NEW w \in Seq(Calls),
         Leaves(c, p, w)
  PROVE  pc' \in [Calls -> Patches!Places]
<1>1. CASE w = <<>>  BY <1>1 DEF Leaves, PatchTypes
<1>2. CASE w # <<>>
  <2>1. Head(w) \in Calls  BY <1>2
  <2> QED  BY <1>2, <2>1 DEF Leaves, PatchTypes, Patches!Places
<1> QED  BY <1>1, <1>2

LEMMA EndedType ==
  ASSUME PatchTypes, NEW c, NEW a \in {"unpaid", "served"}, Patches!Ended(c, a)
  PROVE  /\ answer' \in [Calls -> {"none", "unpaid", "served"}]
         /\ queue' \in [Patches!Generations -> Seq(Calls)]
<1>1. answer' \in [Calls -> {"none", "unpaid", "served"}]
  BY DEF PatchTypes, Patches!Ended
<1>2. ASSUME NEW g \in Patches!Generations
      PROVE  (IF queue[g] # <<>> /\ Head(queue[g]) = c THEN Tail(queue[g]) ELSE queue[g]) \in Seq(Calls)
  BY DEF PatchTypes
<1> QED  BY <1>1, <1>2 DEF Patches!Ended

LEMMA UnlockType ==
  ASSUME PatchTypes, NEW c \in Calls, NEW p \in Patches!Places, Patches!Unlock(c, p)
  PROVE  /\ locks' \in [Patches!Generations -> Lock]
         /\ pc' \in [Calls -> Patches!Places]
<1>1. lockOf[c] \in Patches!Generations /\ locks[lockOf[c]] \in Lock
  BY DEF PatchTypes
<1>2. locks[lockOf[c]].waiters \in Seq(Calls)
  BY <1>1 DEF Lock
<1>3. pc' \in [Calls -> Patches!Places]
  BY <1>2, WokenLeaves, LeavesType DEF Patches!Unlock
<1>4. locks' \in [Patches!Generations -> Lock]
  BY <1>1 DEF Patches!Unlock, PatchTypes, Lock
<1> QED  BY <1>3, <1>4

LEMMA FlagType ==
  ASSUME PatchTypes, NEW c \in Calls, Patches!Flag(c)
  PROVE  /\ flagged' \subseteq Patches!Generations \ {0}
         /\ mine' \in [Calls -> Patches!Generations]
         /\ locks' \in [Patches!Generations -> Lock]
         /\ pc' \in [Calls -> Patches!Places]
         /\ answer' \in [Calls -> {"none", "unpaid", "served"}]
         /\ queue' \in [Patches!Generations -> Seq(Calls)]
<1>1. "done" \in Patches!Places /\ "pay" \in Patches!Places
  BY DEF Patches!Places
<1>2. CASE middleware = 0
  BY <1>1, <1>2, UnlockType, EndedType DEF Patches!Flag, Patches!Raise, PatchTypes
<1>3. CASE middleware # 0
  BY <1>1, <1>3, UnlockType DEF Patches!Flag, Patches!Keeps, PatchTypes
<1> QED  BY <1>2, <1>3

LEMMA UseWalletType ==
  ASSUME PatchTypes, NEW c \in Calls, NEW p \in Patches!Places, Patches!UseWallet(c, p)
  PROVE  /\ mine' \in [Calls -> Patches!Generations]
         /\ locks' \in [Patches!Generations -> Lock]
         /\ pc' \in [Calls -> Patches!Places]
         /\ answer' \in [Calls -> {"none", "unpaid", "served"}]
         /\ queue' \in [Patches!Generations -> Seq(Calls)]
<1>1. "done" \in Patches!Places
  BY DEF Patches!Places
<1>2. CASE middleware \notin ready'
  BY <1>1, <1>2, UnlockType, EndedType DEF Patches!UseWallet, Patches!Raise, PatchTypes
<1>3. CASE middleware \in ready'
  BY <1>3, CurrentType DEF Patches!UseWallet, Patches!Keeps, PatchTypes
<1> QED  BY <1>2, <1>3

\* What a step of a call leaves alone.
LEMMA CallFrame ==
  ASSUME PatchTypes, UNCHANGED Patches!switch,
         flagged' \subseteq Patches!Generations \ {0}, ready' \subseteq Patches!Generations \ {0},
         pc' \in [Calls -> Patches!Places],
         mine' \in [Calls -> Patches!Generations], lockOf' \in [Calls -> Patches!Generations],
         answer' \in [Calls -> {"none", "unpaid", "served"}],
         paid' \subseteq Calls, gaveUp' \subseteq Calls, raised' \subseteq Calls, balance' \in Nat,
         locks' \in [Patches!Generations -> Lock],
         queue' \in [Patches!Generations -> Seq(Calls)]
  PROVE  PatchTypes'
  BY DEF PatchTypes, Patches!switch

LEMMA SwitchTypes ==
  ASSUME PatchTypes, Patches!Enable \/ Patches!EnableFails \/ Patches!Disable
  PROVE  PatchTypes'
<1>0. /\ MaxDepth \in Nat /\ MaxDepth >= 1 /\ MaxGenerations \in Nat /\ MaxFailures \in Nat
      /\ TopUp \in Nat
  BY BoundsAssumption
<1>1. /\ depth' \in 0 .. MaxDepth /\ made' \in Patches!Generations /\ middleware' \in {0, made'}
      /\ crossings' \in Nat /\ failures' \in 0 .. MaxFailures
  <2>1. CASE Patches!Enable
    BY <1>0, <2>1 DEF Patches!Enable, Patches!Generations, PatchTypes
  <2>2. CASE Patches!EnableFails
    BY <1>0, <2>2 DEF Patches!EnableFails, Patches!Generations, PatchTypes
  <2>3. CASE Patches!Disable
    <3>1. Patches!Cardinality({c \in Calls : Patches!AtLock(c)}) \in Nat
      BY PatchCardinality, CallsAssumption, FS_Subset, FS_CardinalityType
    <3> DEFINE n == Patches!Cardinality({c \in Calls : Patches!AtLock(c)})
    <3>2. depth > 0 /\ depth' = depth - 1 /\ failures' = failures /\ made' = made
      BY <2>3 DEF Patches!Disable
    <3>3. \/ middleware' = 0 /\ crossings' = crossings + n
          \/ UNCHANGED <<middleware, crossings>>
      BY <2>3 DEF Patches!Disable, Patches!LastOne
    <3> HIDE DEF n
    <3>4. n \in Nat  BY <3>1 DEF n
    <3> QED  BY <1>0, <3>2, <3>3, <3>4 DEF PatchTypes
  <2> QED  BY <2>1, <2>2, <2>3
<1>2. /\ patched' \in BOOLEAN /\ failed' \in BOOLEAN
      /\ patched' <=> middleware' # 0
      /\ depth' = 0 => ~patched'
  <2>1. CASE Patches!Enable
    <3>1. made + 1 # 0 /\ depth + 1 # 0  BY <1>0 DEF PatchTypes, Patches!Generations
    <3> QED  BY <2>1, <3>1, Zenon DEF Patches!Enable, PatchTypes
  <2>2. CASE Patches!EnableFails
    <3>1. 1 # 0  OBVIOUS
    <3> QED  BY <2>2, <3>1, Zenon DEF Patches!EnableFails, PatchTypes
  <2>3. CASE Patches!Disable
    <3>1. depth # 1 /\ depth > 0 => depth - 1 # 0  BY DEF PatchTypes
    <3> QED  BY <2>3, <3>1, Zenon DEF Patches!Disable, Patches!LastOne, PatchTypes
  <2> QED  BY <2>1, <2>2, <2>3
<1>3. UNCHANGED <<flagged, ready, kind, pc, mine, lockOf, answer, paid, gaveUp, raised, balance,
                  locks, queue>>
  BY DEF Patches!Enable, Patches!EnableFails, Patches!Disable, Patches!wallets
<1> QED  BY <1>1, <1>2, <1>3 DEF PatchTypes

LEMMA CallTypes ==
  ASSUME PatchTypes, NEW c \in Calls,
         pc[c] = "woken" => locks[lockOf[c]].waiters # <<>>,
         pc[c] = "init" => mine[c] # 0,
         Patches!Send(c) \/ Patches!Work(c) \/ Patches!GiveUp(c) \/ Patches!Nudge(c)
  PROVE  PatchTypes'
<1>1. CASE Patches!Send(c) \/ Patches!GiveUp(c) \/ Patches!Nudge(c) \/ Patches!Return(c)
  <2>1. Patches!Return(c) => /\ raised' \subseteq Calls
                             /\ answer' \in [Calls -> {"none", "unpaid", "served"}]
                             /\ queue' \in [Patches!Generations -> Seq(Calls)]
    BY EndedType DEF Patches!Return, Patches!Result, PatchTypes
  <2> QED  BY <1>1, <2>1, CallFrame DEF Patches!Send, Patches!GiveUp, Patches!Nudge, Patches!Return,
              PatchTypes, Patches!Places, Patches!wallets, Patches!switch
<1>2. CASE Patches!Intercept(c)
  <2>1. Patches!Ended(c, "unpaid") => /\ answer' \in [Calls -> {"none", "unpaid", "served"}]
                                      /\ queue' \in [Patches!Generations -> Seq(Calls)]
    BY EndedType
  <2>2. middleware \in Patches!Generations
    BY CurrentType
  <2>3. [queue EXCEPT ![middleware] = Append(@, c)] \in [Patches!Generations -> Seq(Calls)]
    BY <2>2 DEF PatchTypes
  <2> QED  BY <1>2, <2>1, <2>3, CallFrame DEF Patches!Intercept, PatchTypes, Patches!Places, Patches!wallets
<1>3. CASE Patches!GetMiddleware(c)
  <2>1. Patches!Ended(c, "unpaid") => /\ answer' \in [Calls -> {"none", "unpaid", "served"}]
                                      /\ queue' \in [Patches!Generations -> Seq(Calls)]
    BY EndedType
  <2>2. middleware \in Patches!Generations
    BY CurrentType
  <2>3. [locks EXCEPT ![middleware].owner = {c}] \in [Patches!Generations -> Lock]
    <3> DEFINE l == [locks[middleware] EXCEPT !.owner = {c}]
    <3>0. locks[middleware] \in Lock  BY <2>2 DEF PatchTypes
    <3>1. l \in Lock  BY <3>0 DEF Lock
    <3> QED  BY <2>2, <3>1, LockType
  <2>4. [locks EXCEPT ![middleware].waiters = Append(@, c),
                      ![middleware].loop = {Patches!LoopOf(c)}] \in [Patches!Generations -> Lock]
    <3>1. {Patches!LoopOf(c)} \in SUBSET SUBSET Calls  BY LoopType
    <3>2. Append(locks[middleware].waiters, c) \in Seq(Calls)  BY <2>2 DEF PatchTypes, Lock
    <3> DEFINE l == [locks[middleware] EXCEPT !.waiters = Append(@, c),
                                              !.loop = {Patches!LoopOf(c)}]
    <3>0. locks[middleware] \in Lock  BY <2>2 DEF PatchTypes
    <3>3. l \in Lock
      <4> HIDE DEF Patches!LoopOf
      <4> QED  BY <3>0, <3>1, <3>2 DEF Lock
    <3>4. [locks EXCEPT ![middleware] = l] \in [Patches!Generations -> Lock]
      BY <2>2, <3>3, LockType
    <3> QED  BY <3>4
  <2>5. /\ pc' \in [Calls -> Patches!Places]
        /\ flagged' = flagged
        /\ UNCHANGED <<Patches!switch, ready, balance, paid, gaveUp, raised>>
    BY <1>3 DEF Patches!GetMiddleware, Patches!BeginInit, PatchTypes, Patches!Places
  <2>6. mine' \in [Calls -> Patches!Generations] /\ lockOf' \in [Calls -> Patches!Generations]
    <3>1. /\ mine' = mine \/ mine' = [mine EXCEPT ![c] = middleware]
          /\ lockOf' = lockOf \/ lockOf' = [lockOf EXCEPT ![c] = middleware]
      BY <1>3 DEF Patches!GetMiddleware, Patches!BeginInit
    <3>2. /\ mine \in [Calls -> Patches!Generations]
          /\ lockOf \in [Calls -> Patches!Generations]
      BY DEF PatchTypes
    <3> QED  BY <2>2, <3>1, <3>2
  <2>7. /\ answer' \in [Calls -> {"none", "unpaid", "served"}]
        /\ queue' \in [Patches!Generations -> Seq(Calls)]
    BY <1>3, <2>1 DEF Patches!GetMiddleware, Patches!BeginInit, Patches!Keeps, PatchTypes
  <2>8. locks' \in [Patches!Generations -> Lock]
    BY <1>3, <2>3, <2>4 DEF Patches!GetMiddleware, PatchTypes
  <2> QED  BY <2>5, <2>6, <2>7, <2>8, CallFrame DEF PatchTypes
<1>4. CASE Patches!Enter(c)
  <2> DEFINE g == lockOf[c]
             others == Tail(locks[g].waiters)
  <2>1. g \in Patches!Generations /\ middleware \in Patches!Generations
    BY CurrentType DEF PatchTypes
  <2>2. others \in Seq(Calls)
    BY <1>4, <2>1 DEF PatchTypes, Lock, Patches!Enter
  <2>3. [locks EXCEPT ![g].waiters = others] \in [Patches!Generations -> Lock]
    <3> DEFINE l == [locks[g] EXCEPT !.waiters = others]
    <3>0. locks[g] \in Lock  BY <2>1 DEF PatchTypes
    <3>1. l \in Lock  BY <2>2, <3>0 DEF Lock
    <3>2. [locks EXCEPT ![g] = l] \in [Patches!Generations -> Lock]  BY <2>1, <3>1, LockType
    <3> QED  BY <3>2
  <2>4. [locks EXCEPT ![g] = [@ EXCEPT !.owner = {c}, !.waiters = others]]
           \in [Patches!Generations -> Lock]
    <3> DEFINE l == [locks[g] EXCEPT !.owner = {c}, !.waiters = others]
    <3>0. locks[g] \in Lock  BY <2>1 DEF PatchTypes
    <3>1. l \in Lock  BY <2>2, <3>0 DEF Lock
    <3>2. [locks EXCEPT ![g] = l] \in [Patches!Generations -> Lock]  BY <2>1, <3>1, LockType
    <3> QED  BY <3>2
  <2>5. CASE middleware = 0 \/ middleware \in flagged
    <3>1. pc' \in [Calls -> Patches!Places]
      <4>1. PICK p \in {"done", "pay"} : pc' \in Patches!Woken(c, p, others)
        BY <1>4, <2>5 DEF Patches!Enter
      <4>2. p \in Patches!Places  BY DEF Patches!Places
      <4> HIDE DEF others
      <4>3. Leaves(c, p, others)  BY <4>1, WokenLeaves
      <4> QED  BY <2>2, <4>2, <4>3, LeavesType
    <3>2. /\ answer' \in [Calls -> {"none", "unpaid", "served"}]
          /\ queue' \in [Patches!Generations -> Seq(Calls)]
      BY <1>4, <2>5, EndedType DEF Patches!Enter, Patches!Keeps, PatchTypes
    <3>3. /\ mine' = [mine EXCEPT ![c] = middleware]
          /\ locks' = [locks EXCEPT ![g].waiters = others]
          /\ UNCHANGED <<Patches!switch, flagged, ready, balance, lockOf, paid, gaveUp, raised>>
      BY <1>4, <2>5 DEF Patches!Enter
    <3>4. mine' \in [Calls -> Patches!Generations]
      BY <2>1, <3>3 DEF PatchTypes
    <3>5. locks' \in [Patches!Generations -> Lock]
      BY <2>3, <3>3
    <3> HIDE DEF g, others
    <3> QED  BY <3>1, <3>2, <3>3, <3>4, <3>5, CallFrame DEF PatchTypes
  <2>6. CASE ~(middleware = 0 \/ middleware \in flagged)
    <3>1. /\ mine' = [mine EXCEPT ![c] = middleware] /\ pc' = [pc EXCEPT ![c] = "init"]
          /\ UNCHANGED <<Patches!switch, flagged, ready, balance, lockOf, paid, gaveUp, raised, answer, queue>>
      BY <1>4, <2>6 DEF Patches!Enter, Patches!BeginInit, Patches!Keeps
    <3>2. locks' \in [Patches!Generations -> Lock]
      BY <1>4, <2>4, <2>6 DEF Patches!Enter
    <3>3. mine' \in [Calls -> Patches!Generations] /\ pc' \in [Calls -> Patches!Places]
      BY <2>1, <3>1 DEF PatchTypes, Patches!Places
    <3> QED  BY <3>1, <3>2, <3>3, CallFrame DEF PatchTypes
  <2> QED  BY <2>5, <2>6
<1>5. CASE Patches!InitDb(c)
  <2>1. ready' \subseteq Patches!Generations \ {0}
    BY <1>5 DEF Patches!InitDb, Patches!Opens, PatchTypes
  <2>2. "balance" \in Patches!Places  BY DEF Patches!Places
  <2> QED  BY <1>5, <2>1, <2>2, UseWalletType, CallFrame DEF Patches!InitDb, PatchTypes
<1>6. CASE Patches!ReadBalance(c)
  <2>1. "deposit" \in Patches!Places  BY DEF Patches!Places
  <2> QED  BY <1>6, <2>1, UseWalletType, FlagType, CallFrame DEF Patches!ReadBalance, PatchTypes
<1>7. CASE Patches!Deposit(c)
  <2>1. balance' \in Nat  BY <1>7, BoundsAssumption DEF Patches!Deposit, PatchTypes
  <2> QED  BY <1>7, <2>1, FlagType, CallFrame DEF Patches!Deposit, PatchTypes
<1>8. CASE Patches!Pay(c)
  <2>1. /\ answer' \in [Calls -> {"none", "unpaid", "served"}]
        /\ queue' \in [Patches!Generations -> Seq(Calls)]
    BY <1>8, EndedType DEF Patches!Pay, Patches!Keeps, PatchTypes
  <2>2. pc' \in [Calls -> Patches!Places]
    BY <1>8 DEF Patches!Pay, PatchTypes, Patches!Places
  <2>3. paid' \subseteq Calls /\ balance' \in Nat
    BY <1>8 DEF Patches!Pay, PatchTypes
  <2>4. UNCHANGED <<Patches!switch, flagged, ready, locks, mine, lockOf, gaveUp, raised>>
    BY <1>8 DEF Patches!Pay
  <2> QED  BY <2>1, <2>2, <2>3, <2>4, CallFrame DEF PatchTypes
<1> QED  BY <1>1, <1>2, <1>3, <1>4, <1>5, <1>6, <1>7, <1>8 DEF Patches!Work

-----------------------------------------------------------------------------
(* The init lock of a middleware's time: at gives the place of each call,  *)
(* of the lock it came to.                                                 *)

Opens     == {"init", "balance", "deposit"}
Queues    == {"waiting", "woken", "asleep"}
AtThe(g, d, at, of) == of[d] = g /\ at[d] \in Opens \cup Queues

\* The owner is the one call in an init; the waiters are the calls that queue,
\* each once, and the first of them is awake or asleep, but no longer waiting,
\* exactly while the lock is free.
Orderly(g, own, w, at, of) ==
  /\ own = {c \in Calls : at[c] \in Opens /\ of[c] = g}
  /\ \A c, d \in own : c = d
  /\ \A i \in 1 .. Len(w) : /\ of[w[i]] = g /\ at[w[i]] \in Queues
                            /\ i > 1 => at[w[i]] = "waiting"
  /\ \A i, j \in 1 .. Len(w) : w[i] = w[j] => i = j
  /\ \A c \in Calls : at[c] \in Queues /\ of[c] = g => \E i \in 1 .. Len(w) : w[i] = c
  /\ w # <<>> => (at[w[1]] = "waiting" <=> own # {})

LEMMA LockElsewhere ==
  ASSUME NEW g, NEW own, NEW w \in Seq(Calls), NEW at, NEW of, NEW at2, NEW of2,
         Orderly(g, own, w, at, of),
         \A d \in Calls : \/ of2[d] = of[d] /\ at2[d] = at[d]
                          \/ of2[d] = of[d] /\ at[d] \in Opens /\ at2[d] \in Opens
                          \/ ~AtThe(g, d, at, of) /\ ~AtThe(g, d, at2, of2)
  PROVE  Orderly(g, own, w, at2, of2)
<1>1. \A i \in 1 .. Len(w) : w[i] \in Calls
  OBVIOUS
<1>2. \A d \in Calls : at[d] \in Queues => at[d] \notin Opens
  BY DEF Opens, Queues
<1>3. \A d \in Calls : \/ of2[d] = of[d] /\ at2[d] = at[d]
                       \/ of2[d] = of[d] /\ at[d] \in Opens /\ at2[d] \in Opens /\ at2[d] \notin Queues
                       \/ /\ of[d] # g \/ (at[d] \notin Opens /\ at[d] \notin Queues)
                          /\ of2[d] # g \/ (at2[d] \notin Opens /\ at2[d] \notin Queues)
  BY DEF AtThe, Opens, Queues
<1>4. {c \in Calls : at2[c] \in Opens /\ of2[c] = g} = {c \in Calls : at[c] \in Opens /\ of[c] = g}
  BY <1>3, <1>2
<1>5. \A i \in 1 .. Len(w) : of2[w[i]] = of[w[i]] /\ at2[w[i]] = at[w[i]]
  BY <1>1, <1>2, <1>3 DEF Orderly
<1>6. \A c \in Calls : at2[c] \in Queues /\ of2[c] = g => at[c] \in Queues /\ of[c] = g
  BY <1>3
<1>7. w # <<>> => 1 \in 1 .. Len(w)
  OBVIOUS
<1> QED  BY <1>4, <1>5, <1>6, <1>7 DEF Orderly

LEMMA LockTaken ==
  ASSUME NEW g, NEW at \in [Calls -> Patches!Places], NEW of, DOMAIN of = Calls,
         NEW c \in Calls, at[c] \notin Opens \cup Queues,
         Orderly(g, {}, <<>>, at, of)
  PROVE  Orderly(g, {c}, <<>>, [at EXCEPT ![c] = "init"], [of EXCEPT ![c] = g])
<1> DEFINE at2 == [at EXCEPT ![c] = "init"]
           of2 == [of EXCEPT ![c] = g]
<1>1. of2[c] = g /\ at2[c] = "init" /\ \A d \in Calls : d # c => of2[d] = of[d] /\ at2[d] = at[d]
  OBVIOUS
<1> HIDE DEF at2, of2
<1>2. {c} = {d \in Calls : at2[d] \in Opens /\ of2[d] = g}
  BY <1>1 DEF Orderly, Opens
<1>3. \A d \in Calls : ~(at2[d] \in Queues /\ of2[d] = g)
  BY <1>1 DEF Orderly, Queues
<1>4. Len(<<>>) = 0
  OBVIOUS
<1>5. Orderly(g, {c}, <<>>, at2, of2)
  BY <1>2, <1>3, <1>4 DEF Orderly
<1> QED  BY <1>5 DEF at2, of2

LEMMA LockJoined ==
  ASSUME NEW g, NEW own, NEW w \in Seq(Calls),
         NEW at \in [Calls -> Patches!Places], NEW of, DOMAIN of = Calls,
         NEW c \in Calls, at[c] \notin Opens \cup Queues,
         ~(own = {} /\ w = <<>>), Orderly(g, own, w, at, of)
  PROVE  Orderly(g, own, Append(w, c), [at EXCEPT ![c] = "waiting"], [of EXCEPT ![c] = g])
<1> DEFINE at2 == [at EXCEPT ![c] = "waiting"]
           of2 == [of EXCEPT ![c] = g]
           w2  == Append(w, c)
           n   == Len(w)
<1>1. of2[c] = g /\ at2[c] = "waiting" /\ \A d \in Calls : d # c => of2[d] = of[d] /\ at2[d] = at[d]
  OBVIOUS
<1>2. /\ n \in Nat /\ Len(w2) = n + 1 /\ w2[n + 1] = c /\ w2 # <<>>
      /\ \A i \in 1 .. n : w2[i] = w[i] /\ w[i] \in Calls
      /\ w # <<>> <=> n > 0
  OBVIOUS
<1>3. \A i \in 1 .. n : w[i] # c
  BY DEF Orderly
<1> HIDE DEF at2, of2, w2, n
<1>4. \A i \in 1 .. n : of2[w[i]] = of[w[i]] /\ at2[w[i]] = at[w[i]]
  BY <1>1, <1>2, <1>3
<1>5. own = {d \in Calls : at2[d] \in Opens /\ of2[d] = g}
  BY <1>1 DEF Orderly, Opens, Queues
<1>6. \A i \in 1 .. n + 1 : i \in 1 .. n \/ i = n + 1
  BY <1>2
<1>7. \A i \in 1 .. n + 1 : /\ of2[w2[i]] = g /\ at2[w2[i]] \in Queues
                            /\ i > 1 => at2[w2[i]] = "waiting"
  <2> SUFFICES ASSUME NEW i \in 1 .. n + 1
               PROVE  /\ of2[w2[i]] = g /\ at2[w2[i]] \in Queues
                      /\ i > 1 => at2[w2[i]] = "waiting"
    OBVIOUS
  <2>1. CASE i = n + 1  BY <1>1, <1>2, <2>1 DEF Queues
  <2>2. CASE i \in 1 .. n  BY <1>2, <1>4, <2>2 DEF Orderly, n
  <2> QED  BY <1>6, <2>1, <2>2
<1>8. \A i, j \in 1 .. n + 1 : w2[i] = w2[j] => i = j
  BY <1>2, <1>3, <1>6 DEF Orderly, n
<1>9. \A d \in Calls : at2[d] \in Queues /\ of2[d] = g => \E i \in 1 .. n + 1 : w2[i] = d
  <2> SUFFICES ASSUME NEW d \in Calls, at2[d] \in Queues, of2[d] = g
               PROVE  \E i \in 1 .. n + 1 : w2[i] = d
    OBVIOUS
  <2>1. CASE d = c  BY <1>2, <2>1
  <2>2. CASE d # c
    <3>1. PICK i \in 1 .. n : w[i] = d  BY <1>1, <2>2 DEF Orderly, n
    <3>2. i \in 1 .. n + 1  BY <1>2
    <3> QED  BY <1>2, <3>1, <3>2
  <2> QED  BY <2>1, <2>2
<1>10. at2[w2[1]] = "waiting" <=> own # {}
  <2>1. CASE n = 0  BY <1>1, <1>2, <2>1
  <2>2. CASE n > 0
    <3>1. 1 \in 1 .. n  BY <1>2, <2>2
    <3> QED  BY <1>2, <1>4, <2>2, <3>1 DEF Orderly
  <2> QED  BY <1>2, <2>1, <2>2
<1>11. Orderly(g, own, w2, at2, of2)
  BY <1>2, <1>5, <1>7, <1>8, <1>9, <1>10 DEF Orderly
<1> QED  BY <1>11 DEF at2, of2, w2

LEMMA LockReleased ==
  ASSUME NEW g, NEW own, NEW w \in Seq(Calls),
         NEW at, NEW at2, NEW of,
         NEW c \in Calls, at[c] \in Opens, of[c] = g, at2[c] \notin Opens \cup Queues,
         w # <<>> => at2[w[1]] \in {"woken", "asleep"},
         \A d \in Calls : d # c /\ (w # <<>> => d # w[1]) => at2[d] = at[d],
         Orderly(g, own, w, at, of)
  PROVE  Orderly(g, {}, w, at2, of)
<1>1. own = {c}
  BY DEF Orderly
<1>2. \A i \in 1 .. Len(w) : w[i] \in Calls /\ w[i] # c
  BY DEF Orderly, Opens, Queues
<1>3. \A i \in 1 .. Len(w) : i > 1 => at2[w[i]] = at[w[i]]
  <2> SUFFICES ASSUME NEW i \in 1 .. Len(w), i > 1 PROVE at2[w[i]] = at[w[i]]
    OBVIOUS
  <2>1. w # <<>> /\ 1 \in 1 .. Len(w) /\ i # 1  OBVIOUS
  <2>2. w[i] # w[1]  BY <2>1 DEF Orderly
  <2> QED  BY <1>2, <2>2
<1>4. w # <<>> => 1 \in 1 .. Len(w) /\ w[1] \in Calls /\ at[w[1]] \in Queues /\ of[w[1]] = g
  BY <1>2 DEF Orderly
<1>5. {d \in Calls : at2[d] \in Opens /\ of[d] = g} = {}
  BY <1>1, <1>4 DEF Orderly, Opens
<1>6. \A i \in 1 .. Len(w) : /\ of[w[i]] = g /\ at2[w[i]] \in Queues
                             /\ i > 1 => at2[w[i]] = "waiting"
  <2> SUFFICES ASSUME NEW i \in 1 .. Len(w)
               PROVE  /\ of[w[i]] = g /\ at2[w[i]] \in Queues
                      /\ i > 1 => at2[w[i]] = "waiting"
    OBVIOUS
  <2>1. of[w[i]] = g /\ at[w[i]] \in Queues /\ (i > 1 => at[w[i]] = "waiting")
    BY DEF Orderly
  <2>2. CASE i = 1
    BY <2>1, <2>2 DEF Queues
  <2>3. CASE i > 1
    BY <1>3, <2>1, <2>3
  <2> QED  BY <2>2, <2>3
<1>7. \A d \in Calls : at2[d] \in Queues /\ of[d] = g => \E i \in 1 .. Len(w) : w[i] = d
  <2> SUFFICES ASSUME NEW d \in Calls, at2[d] \in Queues, of[d] = g
               PROVE  \E i \in 1 .. Len(w) : w[i] = d
    OBVIOUS
  <2>1. CASE w # <<>> /\ d = w[1]  BY <1>4, <2>1
  <2>2. CASE ~(w # <<>> /\ d = w[1])
    <3>1. d # c  OBVIOUS
    <3>2. at2[d] = at[d]  BY <2>2, <3>1
    <3> QED  BY <3>2 DEF Orderly
  <2> QED  BY <2>1, <2>2
<1>8. \A i, j \in 1 .. Len(w) : w[i] = w[j] => i = j
  BY DEF Orderly
<1>9. w # <<>> => ~(at2[w[1]] = "waiting")
  OBVIOUS
<1> QED  BY <1>5, <1>6, <1>7, <1>8, <1>9 DEF Orderly

\* A call that was woken is the first of the waiters of a lock that is free.
LEMMA WokenIsFirst ==
  ASSUME NEW g, NEW own, NEW w \in Seq(Calls), NEW at, NEW of,
         NEW c \in Calls, at[c] \in {"woken", "asleep"}, of[c] = g,
         Orderly(g, own, w, at, of)
  PROVE  w # <<>> /\ w[1] = c /\ own = {}
<1>1. PICK i \in 1 .. Len(w) : w[i] = c
  BY DEF Orderly, Queues
<1>2. at[c] # "waiting"
  OBVIOUS
<1>3. i = 1
  BY <1>1, <1>2 DEF Orderly
<1>4. w # <<>>
  BY <1>1
<1> QED  BY <1>1, <1>2, <1>3, <1>4 DEF Orderly

LEMMA TailFacts ==
  ASSUME NEW w \in Seq(Calls), w # <<>>
  PROVE  /\ Len(w) \in Nat /\ Len(Tail(w)) = Len(w) - 1
         /\ \A i \in 1 .. Len(w) - 1 : /\ Tail(w)[i] = w[i + 1] /\ i + 1 \in 1 .. Len(w)
                                        /\ i + 1 > 1 /\ i + 1 # 1 /\ w[i + 1] \in Calls
         /\ \A i \in 1 .. Len(w) : i # 1 => i - 1 \in 1 .. Len(w) - 1 /\ w[i] = Tail(w)[i - 1]
         /\ 1 \in 1 .. Len(w) /\ Tail(w) \in Seq(Calls)
         /\ Tail(w) # <<>> <=> Len(w) > 1
<1>1. Len(w) \in Nat /\ Len(w) > 0 /\ Tail(w) \in Seq(Calls) /\ Len(Tail(w)) = Len(w) - 1
  OBVIOUS
<1>2. \A i \in 1 .. Len(w) - 1 : Tail(w)[i] = w[i + 1]
  OBVIOUS
<1>3. \A i \in 1 .. Len(w) - 1 : i + 1 \in 1 .. Len(w) /\ i + 1 > 1 /\ i + 1 # 1
  BY <1>1
<1>4. \A i \in 1 .. Len(w) : w[i] \in Calls
  OBVIOUS
<1>5. \A i \in 1 .. Len(w) : i # 1 => i - 1 \in 1 .. Len(w) - 1 /\ i = (i - 1) + 1
  BY <1>1
<1>6. Tail(w) # <<>> <=> Len(w) > 1
  <2> DEFINE t == Tail(w)
  <2>1. t \in Seq(Calls) /\ Len(t) = Len(w) - 1  BY <1>1
  <2> HIDE DEF t
  <2>2. t # <<>> <=> Len(w) > 1  BY <1>1, <2>1
  <2> QED  BY <2>2 DEF t
<1>7. \A i \in 1 .. Len(w) : i # 1 => w[i] = Tail(w)[i - 1]
  BY <1>2, <1>5
<1> QED  BY <1>1, <1>2, <1>3, <1>4, <1>5, <1>6, <1>7

\* It goes on into the init,
LEMMA LockEntered ==
  ASSUME NEW g, NEW own, NEW w \in Seq(Calls),
         NEW at \in [Calls -> Patches!Places], NEW of,
         NEW c \in Calls, at[c] = "woken", of[c] = g,
         Orderly(g, own, w, at, of)
  PROVE  Orderly(g, {c}, Tail(w), [at EXCEPT ![c] = "init"], of)
<1> DEFINE at2 == [at EXCEPT ![c] = "init"]
           t   == Tail(w)
           n   == Len(w) - 1
<1>1. at2[c] = "init" /\ \A d \in Calls : d # c => at2[d] = at[d]
  OBVIOUS
<1>2. w # <<>> /\ w[1] = c /\ own = {}
  BY WokenIsFirst
<1>3. /\ n \in Nat /\ Len(t) = n
      /\ \A i \in 1 .. n : /\ t[i] = w[i + 1] /\ i + 1 \in 1 .. Len(w)
                            /\ i + 1 > 1 /\ i + 1 # 1 /\ w[i + 1] \in Calls
      /\ \A i \in 1 .. Len(w) : i # 1 => i - 1 \in 1 .. n /\ w[i] = t[i - 1]
      /\ t # <<>> <=> n > 0
      /\ 1 \in 1 .. Len(w)
  BY <1>2, TailFacts
<1> HIDE DEF at2, t, n
<1>0. \A i, j \in 1 .. Len(w) : w[i] = w[j] => i = j
  BY DEF Orderly
<1>4. \A i \in 1 .. n : t[i] # c /\ t[i] \in Calls
  BY <1>0, <1>2, <1>3
<1>5. {c} = {d \in Calls : at2[d] \in Opens /\ of[d] = g}
  BY <1>1, <1>2 DEF Orderly, Opens
<1>6. \A i \in 1 .. n : of[t[i]] = g /\ at2[t[i]] = "waiting"
  <2>1. \A i \in 1 .. Len(w) : of[w[i]] = g /\ (i > 1 => at[w[i]] = "waiting")
    BY DEF Orderly
  <2>2. \A i \in 1 .. n : of[t[i]] = g /\ at[t[i]] = "waiting"
    BY <1>3, <2>1
  <2> QED  BY <1>1, <1>4, <2>2
<1>7. \A i, j \in 1 .. n : t[i] = t[j] => i = j
  BY <1>3 DEF Orderly
<1>8. \A d \in Calls : at2[d] \in Queues /\ of[d] = g => \E i \in 1 .. n : t[i] = d
  <2> SUFFICES ASSUME NEW d \in Calls, at2[d] \in Queues, of[d] = g
               PROVE  \E i \in 1 .. n : t[i] = d
    OBVIOUS
  <2>1. d # c  BY <1>1 DEF Queues
  <2>2. PICK i \in 1 .. Len(w) : w[i] = d  BY <1>1, <2>1 DEF Orderly
  <2> QED  BY <1>2, <1>3, <2>1, <2>2
<1>9. t # <<>> => at2[t[1]] = "waiting"
  BY <1>3, <1>6
<1>10. Orderly(g, {c}, t, at2, of)
  BY <1>3, <1>5, <1>6, <1>7, <1>8, <1>9 DEF Orderly, Queues
<1> QED  BY <1>10 DEF at2, t

\* or leaves, and wakes the next.
LEMMA LockSkipped ==
  ASSUME NEW g, NEW own, NEW w \in Seq(Calls), NEW at, NEW at2, NEW of,
         NEW c \in Calls, at[c] = "woken", of[c] = g, at2[c] \notin Opens \cup Queues,
         Tail(w) # <<>> => at2[Tail(w)[1]] \in {"woken", "asleep"},
         \A d \in Calls : d # c /\ (Tail(w) # <<>> => d # Tail(w)[1]) => at2[d] = at[d],
         Orderly(g, own, w, at, of)
  PROVE  Orderly(g, {}, Tail(w), at2, of)
<1> DEFINE t == Tail(w)
           n == Len(w) - 1
<1>2. w # <<>> /\ w[1] = c /\ own = {}
  BY WokenIsFirst
<1>3. /\ n \in Nat /\ Len(t) = n
      /\ \A i \in 1 .. n : /\ t[i] = w[i + 1] /\ i + 1 \in 1 .. Len(w)
                            /\ i + 1 > 1 /\ i + 1 # 1 /\ w[i + 1] \in Calls
      /\ \A i \in 1 .. Len(w) : i # 1 => i - 1 \in 1 .. n /\ w[i] = t[i - 1]
      /\ t # <<>> <=> n > 0
      /\ 1 \in 1 .. Len(w)
  BY <1>2, TailFacts
<1>0. /\ t # <<>> => at2[t[1]] \in {"woken", "asleep"}
      /\ \A d \in Calls : d # c /\ (t # <<>> => d # t[1]) => at2[d] = at[d]
  OBVIOUS
<1> HIDE DEF t, n
<1>4. \A i \in 1 .. n : t[i] # c /\ t[i] \in Calls
  BY <1>2, <1>3 DEF Orderly
<1>7. \A i, j \in 1 .. n : t[i] = t[j] => i = j
  BY <1>3 DEF Orderly
<1>5. \A i \in 1 .. n : of[t[i]] = g /\ at[t[i]] = "waiting"
  BY <1>3 DEF Orderly
<1>6. \A i \in 1 .. n : i > 1 => at2[t[i]] = "waiting"
  <2> SUFFICES ASSUME NEW i \in 1 .. n, i > 1 PROVE at2[t[i]] = "waiting"
    OBVIOUS
  <2>1. 1 \in 1 .. n /\ i # 1  BY <1>3
  <2>2. t[i] # t[1]  BY <1>7, <2>1
  <2> QED  BY <1>0, <1>4, <1>5, <2>2
<1>8. {d \in Calls : at2[d] \in Opens /\ of[d] = g} = {}
  <2> SUFFICES ASSUME NEW d \in Calls, at2[d] \in Opens, of[d] = g PROVE FALSE
    OBVIOUS
  <2>1. d # c  OBVIOUS
  <2>2. ~(t # <<>> /\ d = t[1])  BY <1>0 DEF Opens
  <2>3. at2[d] = at[d]  BY <1>0, <2>1, <2>2
  <2> QED  BY <1>2, <2>3 DEF Orderly
<1>9. \A d \in Calls : at2[d] \in Queues /\ of[d] = g => \E i \in 1 .. n : t[i] = d
  <2> SUFFICES ASSUME NEW d \in Calls, at2[d] \in Queues, of[d] = g
               PROVE  \E i \in 1 .. n : t[i] = d
    OBVIOUS
  <2>1. d # c  OBVIOUS
  <2>2. CASE t # <<>> /\ d = t[1]
    <3>1. 1 \in 1 .. n  BY <1>3, <2>2
    <3> QED  BY <2>2, <3>1
  <2>3. CASE ~(t # <<>> /\ d = t[1])
    <3>1. at2[d] = at[d]  BY <1>0, <2>1, <2>3
    <3>2. PICK i \in 1 .. Len(w) : w[i] = d  BY <3>1 DEF Orderly
    <3> QED  BY <1>2, <1>3, <2>1, <3>2
  <2> QED  BY <2>2, <2>3
<1>10. \A i \in 1 .. n : at2[t[i]] \in Queues
  <2> SUFFICES ASSUME NEW i \in 1 .. n PROVE at2[t[i]] \in Queues
    OBVIOUS
  <2>1. CASE i = 1
    <3>1. t # <<>>  BY <1>3
    <3> QED  BY <1>0, <2>1, <3>1 DEF Queues
  <2>2. CASE i > 1  BY <1>6, <2>2 DEF Queues
  <2> QED  BY <1>3, <2>1, <2>2
<1>11. t # <<>> => at2[t[1]] # "waiting"
  BY <1>0
<1>12. Orderly(g, {}, t, at2, of)
  BY <1>3, <1>5, <1>6, <1>7, <1>8, <1>9, <1>10, <1>11 DEF Orderly
<1> QED  BY <1>12 DEF t

LEMMA LockNudged ==
  ASSUME NEW g, NEW own, NEW w \in Seq(Calls), NEW at \in [Calls -> Patches!Places], NEW of,
         NEW c \in Calls, at[c] = "asleep", of[c] = g,
         Orderly(g, own, w, at, of)
  PROVE  Orderly(g, own, w, [at EXCEPT ![c] = "woken"], of)
<1> DEFINE at2 == [at EXCEPT ![c] = "woken"]
<1>1. at2[c] = "woken" /\ \A d \in Calls : d # c => at2[d] = at[d]
  OBVIOUS
<1>2. w # <<>> /\ w[1] = c /\ own = {}
  BY WokenIsFirst
<1> HIDE DEF at2
<1>3. \A d \in Calls : (at2[d] \in Queues <=> at[d] \in Queues) /\ (at2[d] \in Opens <=> at[d] \in Opens)
  BY <1>1 DEF Queues, Opens
<1>4. \A i \in 1 .. Len(w) : w[i] \in Calls /\ (i > 1 => w[i] # c)
  BY <1>2 DEF Orderly
<1>5. \A i \in 1 .. Len(w) : i > 1 => at2[w[i]] = "waiting"
  BY <1>1, <1>4 DEF Orderly
<1>6. Orderly(g, own, w, at2, of)
  BY <1>1, <1>2, <1>3, <1>4, <1>5 DEF Orderly
<1> QED  BY <1>6 DEF at2

-----------------------------------------------------------------------------
(* The invariant of the patches                                            *)

LockInv == \A g \in Patches!Generations :
  Orderly(g, locks[g].owner, locks[g].waiters, pc, lockOf)

\* What was paid for is returned, was given up or raised; what is over was
\* answered.
CallInv(c) ==
  /\ c \in paid => pc[c] \in {"paid", "done"}
  /\ answer[c] = "unpaid" /\ pc[c] # "done" => c \in gaveUp
  /\ answer[c] = "unpaid" /\ c \in paid => c \in gaveUp \cup raised
  /\ pc[c] = "done" => answer[c] # "none"
  /\ pc[c] = "init" => mine[c] # 0
  /\ Locking(c) => lockOf[c] \in 1 .. made

\* The calls at a lock of an earlier time; a disable put each of them there.
Crossed  == {c \in Calls : Locking(c) /\ lockOf[c] # middleware}
CrossInv == Cardinality(Crossed) <= crossings

FlagInv == crossings = 0 =>
  /\ flagged \subseteq ready
  /\ \A c \in Calls : pc[c] \in {"balance", "deposit"} => middleware \in ready

\* What is in the wallet and on its way there.
Depositing == {c \in Calls : pc[c] = "deposit"}
MoneyInv   == balance + TopUp * Cardinality(Depositing) <= TopUp * (1 + crossings)

\* A blocking call that is at a lock has the thread of its pool.
Heads(c) == \E g \in Patches!Generations : queue[g] # <<>> /\ Head(queue[g]) = c
HeadInv  == \A c \in Calls : kind[c] = "blocking" /\ Locking(c) => Heads(c)

PatchInv ==
  /\ PatchTypes /\ LockInv /\ (\A c \in Calls : CallInv(c))
  /\ CrossInv /\ FlagInv /\ MoneyInv /\ HeadInv
  /\ Patches!PatchedWhileEnabled

LEMMA PatchInitInv == Patches!Init => PatchInv
<1> SUFFICES ASSUME Patches!Init PROVE PatchInv
  OBVIOUS
<1>0. 0 \in Patches!Generations
  BY BoundsAssumption DEF Patches!Generations
<1>1. PatchTypes
  <2>1. kind \in [Calls -> {"coroutine", "blocking", "thread"}]
    <3>1. kind \in [Calls -> UNION Patches!Range(KindsOf)] /\ \A c \in Calls : kind[c] \in KindsOf[c]
      BY DEF Patches!Init
    <3>2. \A c \in Calls : KindsOf[c] \subseteq {"coroutine", "blocking", "thread"}
      BY CallsAssumption
    <3> QED  BY <3>1, <3>2
  <2>2. locks \in [Patches!Generations -> Lock]
    BY DEF Patches!Init, Lock
  <2>3. queue \in [Patches!Generations -> Seq(Calls)]
    BY DEF Patches!Init
  <2>4. /\ pc \in [Calls -> Patches!Places]
        /\ mine \in [Calls -> Patches!Generations] /\ lockOf \in [Calls -> Patches!Generations]
        /\ answer \in [Calls -> {"none", "unpaid", "served"}]
    BY <1>0 DEF Patches!Init, Patches!Places
  <2>5. /\ depth \in 0 .. MaxDepth /\ failures \in 0 .. MaxFailures
        /\ balance \in Nat /\ crossings \in Nat
    BY BoundsAssumption DEF Patches!Init
  <2> QED  BY <1>0, <2>1, <2>2, <2>3, <2>4, <2>5 DEF PatchTypes, Patches!Init
<1>2. LockInv
  <2> SUFFICES ASSUME NEW g \in Patches!Generations
               PROVE  Orderly(g, locks[g].owner, locks[g].waiters, pc, lockOf)
    BY DEF LockInv
  <2>1. locks[g].owner = {} /\ locks[g].waiters = <<>> /\ \A c \in Calls : pc[c] = "idle"
    BY DEF Patches!Init
  <2>2. Len(<<>>) = 0  OBVIOUS
  <2> QED  BY <2>1, <2>2 DEF Orderly, Opens, Queues
<1>3. \A c \in Calls : CallInv(c)
  BY DEF Patches!Init, CallInv, Locking, Opening, Queueing
<1>4. Crossed = {} /\ Depositing = {}
  BY DEF Patches!Init, Crossed, Depositing, Locking, Opening, Queueing
<1>5. CrossInv /\ MoneyInv
  <2>1. Cardinality({}) = 0  BY FS_EmptySet
  <2>2. TopUp \in Nat /\ balance = 0 /\ crossings = 0  BY BoundsAssumption DEF Patches!Init
  <2>3. TopUp * 0 = 0 /\ TopUp * (1 + 0) = TopUp  BY <2>2
  <2> QED  BY <1>4, <2>1, <2>2, <2>3 DEF CrossInv, MoneyInv
<1>6. FlagInv /\ HeadInv /\ Patches!PatchedWhileEnabled
  BY DEF Patches!Init, FlagInv, HeadInv, Patches!PatchedWhileEnabled, Locking, Opening, Queueing
<1> QED  BY <1>1, <1>2, <1>3, <1>5, <1>6 DEF PatchInv

-----------------------------------------------------------------------------
(* What a step of a call may do to the others, and to itself               *)

Others(c) == \A d \in Calls \ {c} :
  /\ lockOf'[d] = lockOf[d]
  /\ pc'[d] = pc[d] \/ (pc[d] \in Queues /\ pc'[d] \in Queues)

Popped(g, c) == queue[g] # <<>> /\ Head(queue[g]) = c /\ queue'[g] = Tail(queue[g])

Frame(c) ==
  /\ UNCHANGED Patches!switch
  /\ Others(c)
  /\ \A d \in Calls \ {c} : answer'[d] = answer[d] /\ mine'[d] = mine[d] /\ (d \in paid' <=> d \in paid)
  /\ gaveUp \subseteq gaveUp' /\ raised \subseteq raised' /\ ready \subseteq ready'
  /\ \A g \in Patches!Generations :
       queue'[g] = queue[g] \/ queue'[g] = Append(queue[g], c) \/ Popped(g, c)

\* It comes to the lock of the current middleware with the thread of its pool,
\* and stays there with it.
KeepsPlace(c) ==
  Locking(c)' =>
    /\ UNCHANGED queue
    /\ \/ Locking(c) /\ lockOf'[c] = lockOf[c]
       \/ Patches!Runs(c) /\ lockOf'[c] = middleware /\ middleware # 0

KeepsFlag(c) ==
  /\ crossings = 0 /\ pc'[c] \in {"balance", "deposit"} => middleware \in ready'
  /\ flagged' \subseteq flagged \cup {middleware}
  /\ flagged' # flagged => pc[c] \in {"balance", "deposit"}

KeepsMoney(c) ==
  \/ balance' <= balance /\ (pc'[c] = "deposit" => pc[c] = "deposit")
  \/ balance' = balance + TopUp /\ pc[c] = "deposit" /\ pc'[c] # "deposit"
  \/ balance' = 0 /\ pc[c] \in Opens /\ pc'[c] = "deposit"

Step(c) ==
  /\ Frame(c) /\ PatchTypes' /\ LockInv' /\ CallInv(c)'
  /\ KeepsPlace(c) /\ KeepsFlag(c) /\ KeepsMoney(c)

LEMMA CrossedCount ==
  PatchTypes => /\ IsFiniteSet(Crossed) /\ Cardinality(Crossed) \in Nat
                /\ IsFiniteSet(Depositing) /\ Cardinality(Depositing) \in Nat
  BY CallsAssumption, FS_Subset, FS_CardinalityType DEF Crossed, Depositing

\* At most one call more than have crossed is in an init.
LEMMA OpeningCount ==
  ASSUME PatchTypes, LockInv, CrossInv
  PROVE  LET S == {c \in Calls : pc[c] \in Opens}
         IN  IsFiniteSet(S) /\ Cardinality(S) \in Nat /\ Cardinality(S) <= crossings + 1
<1> DEFINE S == {c \in Calls : pc[c] \in Opens}
           T == {c \in Calls : pc[c] \in Opens /\ lockOf[c] = middleware}
<1>1. middleware \in Patches!Generations
  BY CurrentType
<1>2. Orderly(middleware, locks[middleware].owner, locks[middleware].waiters, pc, lockOf)
  BY <1>1 DEF LockInv
<1>3. \A c, d \in T : c = d
  BY <1>2 DEF Orderly
<1>4. Cardinality(T) <= 1
  <2> HIDE DEF T
  <2> QED  BY <1>3, AtMostOne
<1>5. S \subseteq Crossed \cup T
  BY DEF Crossed, Locking, Opening, Opens
<1>6. IsFiniteSet(S) /\ IsFiniteSet(T) /\ IsFiniteSet(Crossed)
  BY CallsAssumption, FS_Subset DEF Crossed
<1> HIDE DEF S, T
<1>7. IsFiniteSet(Crossed \cup T) /\ Cardinality(Crossed \cup T) <= Cardinality(Crossed) + Cardinality(T)
  <2>1. Cardinality(Crossed \cap T) \in Nat
    BY <1>6, FS_Intersection, FS_CardinalityType
  <2>2. /\ IsFiniteSet(Crossed \cup T)
        /\ Cardinality(Crossed \cup T)
             = Cardinality(Crossed) + Cardinality(T) - Cardinality(Crossed \cap T)
    BY <1>6, FS_Union
  <2>3. Cardinality(Crossed) \in Nat /\ Cardinality(T) \in Nat
    BY <1>6, FS_CardinalityType
  <2> QED  BY <2>1, <2>2, <2>3
<1>8. Cardinality(S) <= Cardinality(Crossed \cup T)
  BY <1>5, <1>7, FS_Subset
<1>9. Cardinality(S) \in Nat /\ Cardinality(T) \in Nat /\ Cardinality(Crossed) \in Nat
      /\ Cardinality(Crossed \cup T) \in Nat
  BY <1>6, <1>7, FS_CardinalityType
<1>10. Cardinality(S) <= crossings + 1
  BY <1>4, <1>7, <1>8, <1>9 DEF CrossInv, PatchTypes
<1> QED  BY <1>6, <1>9, <1>10 DEF S

LEMMA OthersPlaces ==
  ASSUME NEW c, Others(c), NEW d \in Calls, d # c
  PROVE  /\ Opening(d)' <=> Opening(d)
         /\ Locking(d)' <=> Locking(d)
         /\ \A p : p \notin Queues => (pc'[d] = p <=> pc[d] = p)
         /\ lockOf'[d] = lockOf[d]
  BY DEF Others, Opening, Locking, Queueing, Queues

LEMMA Below ==
  ASSUME NEW x \in Int, NEW y \in Int, NEW a \in Int, NEW b \in Int, NEW z \in Int,
         x + y <= z, a <= x, b <= y
  PROVE  a + b <= z
  OBVIOUS

LEMMA StepKeeps ==
  ASSUME PatchInv, NEW c \in Calls, Step(c)
  PROVE  PatchInv'
<1> USE DEF PatchInv, Step
<1>0. /\ UNCHANGED <<kind, depth, patched, middleware, made, crossings, failures, failed>>
      /\ Others(c)
  BY DEF Frame, Patches!switch
<1>1. \A d \in Calls \ {c} :
        /\ Opening(d)' <=> Opening(d)
        /\ Locking(d)' <=> Locking(d)
        /\ \A p : p \notin Queues => (pc'[d] = p <=> pc[d] = p)
        /\ lockOf'[d] = lockOf[d]
  BY <1>0, OthersPlaces
<1>2. \A d \in Calls : CallInv(d)'
  <2> SUFFICES ASSUME NEW d \in Calls, d # c PROVE CallInv(d)'
    OBVIOUS
  <2>1. CallInv(d)  OBVIOUS
  <2>2. \A p \in {"paid", "done", "init"} : pc'[d] = p <=> pc[d] = p
    BY <1>1 DEF Queues
  <2>3. answer'[d] = answer[d] /\ mine'[d] = mine[d] /\ (d \in paid' <=> d \in paid)
        /\ (d \in gaveUp => d \in gaveUp') /\ (d \in raised => d \in raised')
    BY DEF Frame
  <2> QED  BY <1>0, <1>1, <2>1, <2>2, <2>3 DEF CallInv
<1>3. CrossInv'
  <2>1. Crossed' \subseteq Crossed
    BY <1>0, <1>1 DEF Crossed, KeepsPlace
  <2>2. Cardinality(Crossed') <= Cardinality(Crossed)
    BY <2>1, CrossedCount, FS_Subset
  <2>3. Cardinality(Crossed') \in Nat
    BY <2>1, CrossedCount, FS_Subset, FS_CardinalityType
  <2>4. Cardinality(Crossed) \in Nat /\ crossings \in Nat /\ Cardinality(Crossed) <= crossings
    BY CrossedCount DEF CrossInv, PatchTypes
  <2>5. Cardinality(Crossed') <= crossings
    BY <2>2, <2>3, <2>4
  <2> QED  BY <1>0, <2>5 DEF CrossInv
<1>4. FlagInv'
  <2> SUFFICES ASSUME crossings = 0
               PROVE  /\ flagged' \subseteq ready'
                      /\ \A d \in Calls : pc'[d] \in {"balance", "deposit"} => middleware \in ready'
    BY <1>0 DEF FlagInv
  <2>1. flagged \subseteq ready /\ ready \subseteq ready'
    BY DEF FlagInv, Frame
  <2>2. flagged' \subseteq ready'
    BY <2>1 DEF FlagInv, KeepsFlag
  <2>3. \A d \in Calls \ {c} : \A p \in {"balance", "deposit"} : pc'[d] = p => pc[d] = p
    BY <1>1 DEF Queues
  <2> QED  BY <2>1, <2>2, <2>3 DEF FlagInv, KeepsFlag
<1>5. MoneyInv'
  <2>0. /\ TopUp \in Nat /\ balance \in Nat /\ balance' \in Nat /\ crossings \in Nat
        /\ Cardinality(Depositing) \in Nat /\ Cardinality(Depositing') \in Nat
        /\ IsFiniteSet(Depositing) /\ IsFiniteSet(Depositing')
    <3>1. IsFiniteSet(Depositing')
      BY CallsAssumption, FS_Subset DEF Depositing
    <3> QED  BY <3>1, BoundsAssumption, CrossedCount, FS_CardinalityType DEF PatchTypes
  <2>1. \A d \in Calls \ {c} : pc'[d] = "deposit" <=> pc[d] = "deposit"
    BY <1>1 DEF Queues
  <2> DEFINE m == Cardinality(Depositing)
             n == Cardinality(Depositing')
             k == crossings
  <2>2. m \in Nat /\ n \in Nat /\ k \in Nat /\ balance + TopUp * m <= TopUp * (1 + k)
    BY <2>0 DEF MoneyInv
  <2>3. CASE balance' <= balance /\ (pc'[c] = "deposit" => pc[c] = "deposit")
    <3>1. Depositing' \subseteq Depositing
      BY <2>1, <2>3 DEF Depositing
    <3>2. n <= m
      BY <2>0, <3>1, FS_Subset
    <3> HIDE DEF m, n, k, PatchInv, Step
    <3>3. TopUp * n <= TopUp * m
      BY <2>0, <2>2, <3>2
    <3>4. balance' + TopUp * n <= TopUp * (1 + k)
      <4> DEFINE low  == TopUp * n
                 high == TopUp * m
                 top  == TopUp * (1 + k)
      <4>1. low \in Int /\ high \in Int /\ top \in Int
        BY <2>0, <2>2
      <4>2. balance + high <= top /\ low <= high
        BY <2>2, <3>3
      <4> HIDE DEF low, high, top
      <4>3. balance' \in Int /\ balance \in Int /\ balance' <= balance
        BY <2>0, <2>3
      <4>4. balance' + low <= top
        BY <4>1, <4>2, <4>3, Below
      <4> QED  BY <4>4 DEF low, top
    <3> QED  BY <1>0, <3>4 DEF MoneyInv, n, k
  <2>4. CASE balance' = balance + TopUp /\ pc[c] = "deposit" /\ pc'[c] # "deposit"
    <3>1. Depositing' = Depositing \ {c} /\ c \in Depositing
      BY <2>1, <2>4 DEF Depositing
    <3>2. n = m - 1
      BY <2>0, <3>1, FS_RemoveElement
    <3> HIDE DEF m, n, k, PatchInv, Step
    <3>3. TopUp * n = TopUp * m - TopUp
      BY <2>0, <2>2, <3>2
    <3>4. balance' + TopUp * n <= TopUp * (1 + k)
      BY <2>0, <2>2, <2>4, <3>3
    <3> QED  BY <1>0, <3>4 DEF MoneyInv, n, k
  <2>5. CASE balance' = 0 /\ pc[c] \in Opens /\ pc'[c] = "deposit"
    <3> DEFINE S == {d \in Calls : pc[d] \in Opens}
    <3>1. Depositing' \subseteq S
      BY <2>1, <2>5 DEF Depositing, Opens
    <3>2. IsFiniteSet(S) /\ Cardinality(S) \in Nat /\ Cardinality(S) <= crossings + 1
      BY OpeningCount
    <3>3. n <= 1 + k
      <4>1. n <= Cardinality(S)  BY <3>1, <3>2, FS_Subset
      <4> QED  BY <2>2, <3>2, <4>1
    <3> HIDE DEF m, n, k
    <3>4. TopUp * n <= TopUp * (1 + k)
      BY <2>0, <2>2, <3>3
    <3>5. balance' + TopUp * n <= TopUp * (1 + k)
      BY <2>0, <2>2, <2>5, <3>4
    <3> QED  BY <1>0, <3>5 DEF MoneyInv, n, k
  <2> QED  BY <2>3, <2>4, <2>5 DEF KeepsMoney
<1>6. HeadInv'
  <2> SUFFICES ASSUME NEW d \in Calls, kind[d] = "blocking", Locking(d)'
               PROVE  Heads(d)'
    BY <1>0 DEF HeadInv
  <2>1. CASE d = c
    <3>1. Heads(d)
      <4>1. CASE Locking(d)  BY <4>1 DEF HeadInv
      <4>2. CASE Patches!Runs(d)  BY <4>2 DEF Patches!Runs, Heads
      <4> QED  BY <2>1, <4>1, <4>2 DEF KeepsPlace
    <3> QED  BY <2>1, <3>1 DEF KeepsPlace, Heads
  <2>2. CASE d # c
    <3>1. Heads(d)
      BY <1>1, <2>2 DEF HeadInv
    <3>2. PICK g \in Patches!Generations : queue[g] # <<>> /\ Head(queue[g]) = d
      BY <3>1 DEF Heads
    <3>3. queue[g] \in Seq(Calls)
      BY DEF PatchTypes
    <3>4. queue'[g] = queue[g] \/ queue'[g] = Append(queue[g], c)
      BY <2>2, <3>2 DEF Frame, Popped
    <3>5. queue'[g] # <<>> /\ Head(queue'[g]) = d
      BY <3>2, <3>3, <3>4
    <3> QED  BY <3>5 DEF Heads
  <2> QED  BY <2>1, <2>2
<1>7. Patches!PatchedWhileEnabled'
  BY <1>0 DEF Patches!PatchedWhileEnabled
<1> QED  BY <1>2, <1>3, <1>4, <1>5, <1>6, <1>7

-----------------------------------------------------------------------------
(* Every step of a call is one of these                                    *)

LEMMA OneMoves ==
  ASSUME PatchTypes, LockInv, NEW c \in Calls, NEW p,
         pc' = [pc EXCEPT ![c] = p], UNCHANGED <<locks, lockOf>>,
         \/ pc[c] \in Opens /\ p \in Opens
         \/ pc[c] \notin Opens \cup Queues /\ p \notin Opens \cup Queues
         \/ pc[c] = p
  PROVE  LockInv' /\ Others(c) /\ pc'[c] = p
<1>1. pc'[c] = p /\ \A d \in Calls \ {c} : pc'[d] = pc[d]
  BY DEF PatchTypes
<1>2. ASSUME NEW g \in Patches!Generations
      PROVE  Orderly(g, locks[g].owner, locks[g].waiters, pc', lockOf')
  <2>1. Orderly(g, locks[g].owner, locks[g].waiters, pc, lockOf)
    BY DEF LockInv
  <2>2. locks[g].waiters \in Seq(Calls)
    BY DEF PatchTypes, Lock
  <2>3. \A d \in Calls :
           \/ lockOf'[d] = lockOf[d] /\ pc'[d] = pc[d]
           \/ lockOf'[d] = lockOf[d] /\ pc[d] \in Opens /\ pc'[d] \in Opens
           \/ ~AtThe(g, d, pc, lockOf) /\ ~AtThe(g, d, pc', lockOf')
    BY <1>1 DEF AtThe
  <2> QED  BY <2>1, <2>2, <2>3, LockElsewhere
<1> QED  BY <1>1, <1>2 DEF LockInv, Others

\* The first of the waiters of a lock is not the call that leaves it.
LEMMA LeavesPlaces ==
  ASSUME PatchTypes, NEW c \in Calls, NEW p, NEW w \in Seq(Calls), Leaves(c, p, w),
         w # <<>> => w[1] # c
  PROVE  /\ pc'[c] = p
         /\ w # <<>> => w[1] \in Calls /\ pc'[w[1]] \in {"woken", "asleep"}
         /\ \A d \in Calls : d # c /\ (w # <<>> => d # w[1]) => pc'[d] = pc[d]
<1>1. CASE w = <<>>
  BY <1>1 DEF Leaves, PatchTypes
<1>2. CASE w # <<>>
  <2>1. Head(w) = w[1] /\ w[1] \in Calls  BY <1>2
  <2>2. PICK q \in {"woken", "asleep"} : pc' = [[pc EXCEPT ![c] = p] EXCEPT ![w[1]] = q]
    BY <1>2, <2>1 DEF Leaves
  <2> QED  BY <1>2, <2>1, <2>2 DEF PatchTypes
<1> QED  BY <1>1, <1>2

LEMMA UnlockMoves ==
  ASSUME PatchTypes, LockInv, NEW c \in Calls, NEW p, p \notin Opens \cup Queues,
         pc[c] \in Opens, Patches!Unlock(c, p), UNCHANGED lockOf
  PROVE  LockInv' /\ Others(c) /\ pc'[c] = p
<1> DEFINE g == lockOf[c]
           w == locks[g].waiters
<1>1. g \in Patches!Generations /\ w \in Seq(Calls) /\ locks[g] \in Lock
  BY DEF PatchTypes, Lock
<1>2. Orderly(g, locks[g].owner, w, pc, lockOf)
  BY <1>1 DEF LockInv
<1>3. w # <<>> => /\ w[1] \in Calls /\ w[1] # c
                  /\ lockOf[w[1]] = g /\ pc[w[1]] \in Queues
  BY <1>1, <1>2 DEF Orderly, Opens, Queues
<1>4. Leaves(c, p, w)
  BY WokenLeaves DEF Patches!Unlock
<1> HIDE DEF w
<1>5. /\ pc'[c] = p
      /\ w # <<>> => pc'[w[1]] \in {"woken", "asleep"}
      /\ \A d \in Calls : d # c /\ (w # <<>> => d # w[1]) => pc'[d] = pc[d]
  BY <1>1, <1>3, <1>4, LeavesPlaces
<1>6. Others(c)
  BY <1>3, <1>5 DEF Others, Queues
<1>7. locks' = [locks EXCEPT ![g] = [locks[g] EXCEPT !.owner = {}]]
  BY DEF Patches!Unlock
<1>8. ASSUME NEW h \in Patches!Generations
      PROVE  Orderly(h, locks'[h].owner, locks'[h].waiters, pc', lockOf')
  <2>1. CASE h = g
    <3>1. locks'[h].owner = {} /\ locks'[h].waiters = w
      BY <1>1, <1>7, <2>1 DEF PatchTypes, Lock, w
    <3>2. Orderly(g, {}, w, pc', lockOf)
      <4>1. pc[c] \in Opens /\ lockOf[c] = g /\ pc'[c] \notin Opens \cup Queues
        BY <1>5
      <4>2. pc \in [Calls -> Patches!Places]  BY DEF PatchTypes
      <4> DEFINE own == locks[g].owner
      <4>3. Orderly(g, own, w, pc, lockOf)  BY <1>2
      <4> HIDE DEF g, own
      <4> QED  BY <1>1, <1>5, <4>1, <4>3, LockReleased
    <3> QED  BY <2>1, <3>1, <3>2
  <2>2. CASE h # g
    <3>1. locks'[h] = locks[h] /\ locks[h].waiters \in Seq(Calls)
      BY <1>7, <2>2 DEF PatchTypes, Lock
    <3>2. Orderly(h, locks[h].owner, locks[h].waiters, pc, lockOf)
      BY DEF LockInv
    <3>3. \A d \in Calls :
             \/ lockOf'[d] = lockOf[d] /\ pc'[d] = pc[d]
             \/ ~AtThe(h, d, pc, lockOf) /\ ~AtThe(h, d, pc', lockOf')
      BY <1>3, <1>5, <2>2 DEF AtThe
    <3>4. Orderly(h, locks[h].owner, locks[h].waiters, pc', lockOf')
      BY <3>1, <3>2, <3>3, LockElsewhere
    <3> QED  BY <3>1, <3>4
  <2> QED  BY <2>1, <2>2
<1> QED  BY <1>5, <1>6, <1>8 DEF LockInv

\* The end of a call takes only its own place in a pool.
LEMMA EndedFrame ==
  ASSUME PatchTypes, NEW c \in Calls, NEW a \in {"unpaid", "served"}, Patches!Ended(c, a)
  PROVE  /\ answer'[c] = IF answer[c] = "none" THEN a ELSE answer[c]
         /\ \A d \in Calls \ {c} : answer'[d] = answer[d]
         /\ \A g \in Patches!Generations : queue'[g] = queue[g] \/ Popped(g, c)
  BY DEF Patches!Ended, PatchTypes, Popped

\* Payment handling raised.
LEMMA RaiseMoves ==
  ASSUME PatchTypes, LockInv, NEW c \in Calls, pc[c] \in Opens, CallInv(c),
         Patches!Raise(c), UNCHANGED <<lockOf, paid, gaveUp, raised>>
  PROVE  /\ LockInv' /\ Others(c) /\ pc'[c] = "done" /\ CallInv(c)'
         /\ \A d \in Calls \ {c} : answer'[d] = answer[d] /\ mine'[d] = mine[d]
         /\ \A g \in Patches!Generations : queue'[g] = queue[g] \/ Popped(g, c)
<1>1. LockInv' /\ Others(c) /\ pc'[c] = "done"
  BY UnlockMoves DEF Patches!Raise, Opens, Queues
<1>2. /\ answer'[c] = IF answer[c] = "none" THEN "unpaid" ELSE answer[c]
      /\ \A d \in Calls \ {c} : answer'[d] = answer[d]
      /\ \A g \in Patches!Generations : queue'[g] = queue[g] \/ Popped(g, c)
  BY EndedFrame DEF Patches!Raise
<1>3. CallInv(c)'
  BY <1>1, <1>2 DEF CallInv, Opens, Locking, Opening, Queueing
<1> QED  BY <1>1, <1>2, <1>3 DEF Patches!Raise

-----------------------------------------------------------------------------

LEMMA SendStep ==
  ASSUME PatchInv, PatchTypes', NEW c \in Calls, Patches!Send(c)
  PROVE  Step(c)
<1> USE DEF PatchInv
<1>1. PICK p \in {"sent", "done"} : /\ pc' = [pc EXCEPT ![c] = p]
                                    /\ p = "sent" => answer' = answer
                                    /\ p = "done" => answer' = [answer EXCEPT ![c] = "unpaid"]
  BY DEF Patches!Send
<1>2. pc[c] = "idle" /\ UNCHANGED <<Patches!switch, flagged, ready, balance, locks, queue, mine, lockOf, paid, gaveUp, raised>>
  BY DEF Patches!Send, Patches!wallets
<1>3. LockInv' /\ Others(c) /\ pc'[c] = p
  BY <1>1, <1>2, OneMoves DEF Opens, Queues
<1>4. CallInv(c)'
  BY <1>1, <1>2, <1>3 DEF CallInv, PatchTypes, Locking, Opening, Queueing
<1>5. Frame(c)
  BY <1>1, <1>2, <1>3 DEF Frame, PatchTypes
<1>6. KeepsPlace(c) /\ KeepsFlag(c) /\ KeepsMoney(c)
  BY <1>1, <1>2, <1>3 DEF KeepsPlace, KeepsFlag, KeepsMoney, Locking, Opening, Queueing, PatchTypes
<1> QED  BY <1>3, <1>4, <1>5, <1>6 DEF Step

LEMMA InterceptStep ==
  ASSUME PatchInv, PatchTypes', NEW c \in Calls, Patches!Intercept(c)
  PROVE  Step(c)
<1> USE DEF PatchInv
<1>1. PICK p \in {"start", "done"} :
         /\ pc' = [pc EXCEPT ![c] = p]
         /\ p = "done"  => Patches!Ended(c, "unpaid")
         /\ p = "start" => /\ answer' = answer
                           /\ \/ queue' = queue
                              \/ queue' = [queue EXCEPT ![middleware] = Append(@, c)]
  BY DEF Patches!Intercept
<1>2. pc[c] = "sent" /\ UNCHANGED <<Patches!switch, flagged, ready, balance, locks, mine, lockOf, paid, gaveUp, raised>>
  BY DEF Patches!Intercept, Patches!wallets
<1>3. LockInv' /\ Others(c) /\ pc'[c] = p
  BY <1>1, <1>2, OneMoves DEF Opens, Queues
<1>4. /\ \A d \in Calls \ {c} : answer'[d] = answer[d]
      /\ p = "done" => answer'[c] = IF answer[c] = "none" THEN "unpaid" ELSE answer[c]
      /\ p = "start" => answer'[c] = answer[c]
      /\ \A g \in Patches!Generations :
           queue'[g] = queue[g] \/ queue'[g] = Append(queue[g], c) \/ Popped(g, c)
  <2>1. CASE p = "done"  BY <1>1, <2>1, EndedFrame
  <2>2. CASE p = "start"
    <3>1. answer' = answer  BY <1>1, <2>2
    <3>2. queue' = queue \/ queue' = [queue EXCEPT ![middleware] = Append(@, c)]
      BY <1>1, <2>2
    <3>3. ASSUME NEW g \in Patches!Generations
          PROVE  queue'[g] = queue[g] \/ queue'[g] = Append(queue[g], c)
      <4>1. CASE g = middleware  BY <3>2, <4>1 DEF PatchTypes
      <4>2. CASE g # middleware  BY <3>2, <4>2 DEF PatchTypes
      <4> QED  BY <4>1, <4>2
    <3> QED  BY <2>2, <3>1, <3>3
  <2> QED  BY <2>1, <2>2
<1>5. CallInv(c)'
  BY <1>2, <1>3, <1>4 DEF CallInv, Locking, Opening, Queueing
<1>6. Frame(c)
  BY <1>2, <1>3, <1>4 DEF Frame
<1>7. KeepsPlace(c) /\ KeepsFlag(c) /\ KeepsMoney(c)
  BY <1>2, <1>3 DEF KeepsPlace, KeepsFlag, KeepsMoney, Locking, Opening, Queueing, PatchTypes
<1> QED  BY <1>3, <1>5, <1>6, <1>7 DEF Step

LEMMA PayStep ==
  ASSUME PatchInv, PatchTypes', NEW c \in Calls, Patches!Pay(c)
  PROVE  Step(c)
<1> USE DEF PatchInv
<1>1. PICK p \in {"paid", "done"} :
         /\ pc' = [pc EXCEPT ![c] = p]
         /\ p = "done" => Patches!Ended(c, "unpaid") /\ UNCHANGED <<balance, paid>>
         /\ p = "paid" => balance' = balance - 1 /\ paid' = paid \cup {c} /\ UNCHANGED <<answer, queue>>
  BY DEF Patches!Pay, Patches!Keeps
<1>2. pc[c] = "pay" /\ UNCHANGED <<Patches!switch, flagged, ready, locks, mine, lockOf, gaveUp, raised>>
  BY DEF Patches!Pay
<1>3. LockInv' /\ Others(c) /\ pc'[c] = p
  BY <1>1, <1>2, OneMoves DEF Opens, Queues
<1>4. /\ \A d \in Calls \ {c} : answer'[d] = answer[d]
      /\ p = "done" => answer'[c] = IF answer[c] = "none" THEN "unpaid" ELSE answer[c]
      /\ p = "paid" => answer'[c] = answer[c]
      /\ \A g \in Patches!Generations : queue'[g] = queue[g] \/ Popped(g, c)
  <2>1. CASE p = "done"  BY <1>1, <2>1, EndedFrame
  <2>2. CASE p = "paid"  BY <1>1, <2>2 DEF PatchTypes
  <2> QED  BY <2>1, <2>2
<1>5. CallInv(c)'
  BY <1>1, <1>2, <1>3, <1>4 DEF CallInv, Locking, Opening, Queueing
<1>6. Frame(c)
  BY <1>1, <1>2, <1>3, <1>4 DEF Frame
<1>7. KeepsPlace(c) /\ KeepsFlag(c)
  BY <1>2, <1>3 DEF KeepsPlace, KeepsFlag, Locking, Opening, Queueing
<1>8. KeepsMoney(c)
  <2>1. balance \in Nat  BY DEF PatchTypes
  <2>2. balance' <= balance  BY <1>1, <2>1
  <2> QED  BY <1>3, <2>2 DEF KeepsMoney
<1> QED  BY <1>3, <1>5, <1>6, <1>7, <1>8 DEF Step

LEMMA ReturnStep ==
  ASSUME PatchInv, PatchTypes', NEW c \in Calls, Patches!Return(c)
  PROVE  Step(c)
<1> USE DEF PatchInv
<1>1. PICK a \in {"served", "unpaid"} :
         /\ Patches!Ended(c, a)
         /\ a = "served" => raised' = raised
         /\ a = "unpaid" => raised' = raised \cup {c}
  BY DEF Patches!Return, Patches!Result
<1>0. /\ pc' = [pc EXCEPT ![c] = "done"] /\ pc[c] = "paid"
      /\ UNCHANGED <<Patches!switch, flagged, ready, balance, locks, mine, lockOf, paid, gaveUp>>
      /\ raised \subseteq raised'
  BY <1>1 DEF Patches!Return, Patches!wallets
<1>2. LockInv' /\ Others(c) /\ pc'[c] = "done"
  BY <1>0, OneMoves DEF Opens, Queues
<1>3. /\ \A d \in Calls \ {c} : answer'[d] = answer[d]
      /\ answer'[c] = IF answer[c] = "none" THEN a ELSE answer[c]
      /\ \A g \in Patches!Generations : queue'[g] = queue[g] \/ Popped(g, c)
  BY <1>1, EndedFrame
<1>4. CallInv(c)'
  BY <1>0, <1>1, <1>2, <1>3 DEF CallInv, Locking, Opening, Queueing
<1>5. Frame(c)
  BY <1>0, <1>1, <1>2, <1>3 DEF Frame
<1>6. KeepsPlace(c) /\ KeepsFlag(c) /\ KeepsMoney(c)
  BY <1>0, <1>2 DEF KeepsPlace, KeepsFlag, KeepsMoney, Locking, Opening, Queueing, PatchTypes
<1> QED  BY <1>2, <1>4, <1>5, <1>6 DEF Step

LEMMA PatchGiveUpStep ==
  ASSUME PatchInv, PatchTypes', NEW c \in Calls, Patches!GiveUp(c)
  PROVE  Step(c)
<1> USE DEF PatchInv
<1>1. /\ pc' = pc /\ answer' = [answer EXCEPT ![c] = "unpaid"] /\ gaveUp' = gaveUp \cup {c}
      /\ pc[c] # "done"
      /\ UNCHANGED <<Patches!switch, flagged, ready, balance, locks, queue, mine, lockOf, paid, raised>>
  BY DEF Patches!GiveUp, Patches!wallets
<1>2. pc' = [pc EXCEPT ![c] = pc[c]]
  BY <1>1 DEF PatchTypes
<1>3. LockInv' /\ Others(c) /\ pc'[c] = pc[c]
  BY <1>1, <1>2, OneMoves
<1>4. CallInv(c)'
  BY <1>1 DEF CallInv, Locking, Opening, Queueing, Patches!switch, PatchTypes
<1>5. Frame(c)
  BY <1>1, <1>3 DEF Frame, PatchTypes
<1>6. KeepsPlace(c)
  <2>1. (Locking(c)' <=> Locking(c)) /\ lockOf' = lockOf /\ queue' = queue
    BY <1>1 DEF Locking, Opening, Queueing
  <2> QED  BY <2>1 DEF KeepsPlace
<1>7. KeepsMoney(c)
  BY <1>1 DEF KeepsMoney, PatchTypes
<1>8. KeepsFlag(c)
  <2>1. crossings = 0 => (pc'[c] \in {"balance", "deposit"} => middleware \in ready')
    BY <1>1 DEF FlagInv
  <2> QED  BY <1>1, <2>1 DEF KeepsFlag
<1> QED  BY <1>3, <1>4, <1>5, <1>6, <1>7, <1>8 DEF Step


LEMMA NudgeStep ==
  ASSUME PatchInv, PatchTypes', NEW c \in Calls, Patches!Nudge(c)
  PROVE  Step(c)
<1> USE DEF PatchInv
<1>1. /\ pc' = [pc EXCEPT ![c] = "woken"] /\ pc[c] = "asleep"
      /\ UNCHANGED <<Patches!switch, flagged, ready, balance, locks, queue, mine, lockOf,
                     answer, paid, gaveUp, raised>>
  BY DEF Patches!Nudge, Patches!wallets
<1>2. pc'[c] = "woken" /\ \A d \in Calls \ {c} : pc'[d] = pc[d]
  BY <1>1 DEF PatchTypes
<1>3. ASSUME NEW g \in Patches!Generations
      PROVE  Orderly(g, locks[g].owner, locks[g].waiters, pc', lockOf)
  <2>1. /\ Orderly(g, locks[g].owner, locks[g].waiters, pc, lockOf)
        /\ locks[g].waiters \in Seq(Calls) /\ pc \in [Calls -> Patches!Places]
    BY DEF LockInv, PatchTypes, Lock
  <2>2. CASE lockOf[c] = g
    BY <1>1, <2>1, <2>2, LockNudged
  <2>3. CASE lockOf[c] # g
    <3>1. \A d \in Calls : \/ lockOf[d] = lockOf[d] /\ pc'[d] = pc[d]
                           \/ ~AtThe(g, d, pc, lockOf) /\ ~AtThe(g, d, pc', lockOf)
      BY <1>2, <2>3 DEF AtThe
    <3> QED  BY <2>1, <3>1, LockElsewhere
  <2> QED  BY <2>2, <2>3
<1>4. LockInv' /\ Others(c)
  BY <1>1, <1>2, <1>3 DEF LockInv, Others
<1>5. CallInv(c)'
  BY <1>1, <1>2 DEF CallInv, Locking, Opening, Queueing, Patches!switch
<1>6. Frame(c)
  BY <1>1, <1>4 DEF Frame
<1>7. KeepsPlace(c) /\ KeepsFlag(c) /\ KeepsMoney(c)
  <2>1. balance' <= balance  BY <1>1 DEF PatchTypes
  <2> QED  BY <1>1, <1>2, <2>1 DEF KeepsPlace, KeepsFlag, KeepsMoney, Locking, Opening, Queueing
<1> QED  BY <1>4, <1>5, <1>6, <1>7 DEF Step

\* The lock g alone changes, and only calls that are at no other lock move.
LEMMA OnlyLock ==
  ASSUME PatchTypes, LockInv, NEW g \in Patches!Generations, NEW l \in Lock,
         locks' = [locks EXCEPT ![g] = l],
         Orderly(g, l.owner, l.waiters, pc', lockOf'),
         \A d \in Calls :
           \/ lockOf'[d] = lockOf[d] /\ pc'[d] = pc[d]
           \/ /\ pc[d] \in Opens \cup Queues => lockOf[d] = g
              /\ pc'[d] \in Opens \cup Queues => lockOf'[d] = g
  PROVE  LockInv'
<1> SUFFICES ASSUME NEW h \in Patches!Generations
             PROVE  Orderly(h, locks'[h].owner, locks'[h].waiters, pc', lockOf')
  BY DEF LockInv
<1>1. CASE h = g
  <2>1. locks'[g] = l  BY DEF PatchTypes
  <2> QED  BY <1>1, <2>1
<1>2. CASE h # g
  <2>1. locks'[h] = locks[h] /\ locks[h].waiters \in Seq(Calls)
    BY <1>2 DEF PatchTypes, Lock
  <2>2. Orderly(h, locks[h].owner, locks[h].waiters, pc, lockOf)
    BY DEF LockInv
  <2>3. \A d \in Calls : \/ lockOf'[d] = lockOf[d] /\ pc'[d] = pc[d]
                         \/ ~AtThe(h, d, pc, lockOf) /\ ~AtThe(h, d, pc', lockOf')
    BY <1>2 DEF AtThe
  <2>4. Orderly(h, locks[h].owner, locks[h].waiters, pc', lockOf')
    BY <2>1, <2>2, <2>3, LockElsewhere
  <2> QED  BY <2>1, <2>4
<1> QED  BY <1>1, <1>2

\* A call that meets an init lock takes it, or queues for it,
LEMMA MeetsLock ==
  ASSUME PatchInv, PatchTypes', NEW c \in Calls, pc[c] = "start", Patches!Runs(c),
         middleware # 0, NEW p \in {"init", "waiting"}, NEW l \in Lock,
         pc' = [pc EXCEPT ![c] = p], lockOf' = [lockOf EXCEPT ![c] = middleware],
         locks' = [locks EXCEPT ![middleware] = l],
         Orderly(middleware, l.owner, l.waiters, pc', lockOf'),
         mine' = [mine EXCEPT ![c] = middleware] \/ (p = "waiting" /\ mine' = mine),
         UNCHANGED <<Patches!switch, flagged, ready, balance, answer, queue, paid, gaveUp, raised>>
  PROVE  Step(c)
<1> USE DEF PatchInv
<1>1. /\ pc'[c] = p /\ lockOf'[c] = middleware
      /\ \A d \in Calls \ {c} : pc'[d] = pc[d] /\ lockOf'[d] = lockOf[d] /\ mine'[d] = mine[d]
      /\ mine'[c] = middleware \/ p = "waiting"
  BY DEF PatchTypes
<1>2. middleware \in Patches!Generations /\ middleware = made
  BY CurrentType DEF PatchTypes
<1>3. LockInv'
  <2>1. \A d \in Calls :
           \/ lockOf'[d] = lockOf[d] /\ pc'[d] = pc[d]
           \/ /\ pc[d] \in Opens \cup Queues => lockOf[d] = middleware
              /\ pc'[d] \in Opens \cup Queues => lockOf'[d] = middleware
    BY <1>1 DEF Opens, Queues
  <2> QED  BY <1>2, <2>1, OnlyLock
<1>4. Others(c)
  BY <1>1 DEF Others
<1>5. CallInv(c)'
  <2>1. made' = made /\ made \in 1 .. made
    BY <1>2 DEF Patches!switch, PatchTypes, Patches!Generations
  <2> QED  BY <1>1, <1>2, <2>1 DEF CallInv
<1>6. Frame(c)
  BY <1>1, <1>4 DEF Frame
<1>7. KeepsPlace(c) /\ KeepsFlag(c)
  BY <1>1 DEF KeepsPlace, KeepsFlag
<1>8. KeepsMoney(c)
  <2>1. balance' <= balance  BY DEF PatchTypes
  <2> QED  BY <1>1, <2>1 DEF KeepsMoney
<1> QED  BY <1>3, <1>4, <1>5, <1>6, <1>7, <1>8 DEF Step

\* or has no need of one.
LEMMA GetMiddlewareStep ==
  ASSUME PatchInv, PatchTypes', NEW c \in Calls, Patches!GetMiddleware(c)
  PROVE  Step(c)
<1> USE DEF PatchInv
<1> DEFINE g == middleware
           w == locks[g].waiters
<1>0. /\ pc[c] = "start" /\ Patches!Runs(c)
      /\ UNCHANGED <<Patches!switch, ready, balance, paid, gaveUp, raised>>
  BY DEF Patches!GetMiddleware
<1>1. /\ g \in Patches!Generations /\ locks[g] \in Lock /\ w \in Seq(Calls)
      /\ pc \in [Calls -> Patches!Places] /\ lockOf \in [Calls -> Patches!Generations]
      /\ pc[c] \notin Opens \cup Queues
  BY <1>0, CurrentType DEF PatchTypes, Lock, Opens, Queues
<1>2. Orderly(g, locks[g].owner, w, pc, lockOf)
  BY <1>1 DEF LockInv
<1>3. CASE /\ pc' = [pc EXCEPT ![c] = "done"] /\ Patches!Ended(c, "unpaid")
           /\ UNCHANGED <<flagged, locks, mine, lockOf>>
  <2>1. LockInv' /\ Others(c) /\ pc'[c] = "done"
    BY <1>0, <1>3, OneMoves DEF Opens, Queues
  <2>2. /\ \A d \in Calls \ {c} : answer'[d] = answer[d]
        /\ answer'[c] = IF answer[c] = "none" THEN "unpaid" ELSE answer[c]
        /\ \A h \in Patches!Generations : queue'[h] = queue[h] \/ Popped(h, c)
    BY <1>3, EndedFrame
  <2>3. CallInv(c)'
    BY <1>0, <2>1, <2>2 DEF CallInv, Locking, Opening, Queueing
  <2>4. Frame(c)
    BY <1>0, <1>3, <2>1, <2>2 DEF Frame
  <2>5. KeepsPlace(c) /\ KeepsFlag(c) /\ KeepsMoney(c)
    BY <1>0, <1>3, <2>1 DEF KeepsPlace, KeepsFlag, KeepsMoney, Locking, Opening, Queueing, PatchTypes
  <2> QED  BY <2>1, <2>3, <2>4, <2>5 DEF Step
<1>4. CASE /\ pc' = [pc EXCEPT ![c] = "pay"] /\ mine' = [mine EXCEPT ![c] = middleware]
           /\ Patches!Keeps /\ UNCHANGED <<flagged, locks, lockOf>>
  <2>1. LockInv' /\ Others(c) /\ pc'[c] = "pay"
    BY <1>0, <1>4, OneMoves DEF Opens, Queues
  <2>2. answer' = answer /\ queue' = queue /\ \A d \in Calls \ {c} : mine'[d] = mine[d]
    BY <1>4 DEF Patches!Keeps, PatchTypes
  <2>3. CallInv(c)'
    BY <1>0, <2>1, <2>2 DEF CallInv, Locking, Opening, Queueing
  <2>4. Frame(c)
    BY <1>0, <2>1, <2>2 DEF Frame
  <2>5. KeepsPlace(c) /\ KeepsFlag(c) /\ KeepsMoney(c)
    BY <1>0, <1>4, <2>1 DEF KeepsPlace, KeepsFlag, KeepsMoney, Locking, Opening, Queueing, PatchTypes
  <2> QED  BY <2>1, <2>3, <2>4, <2>5 DEF Step
<1>5. CASE /\ middleware # 0 /\ Patches!Free(locks[g])
           /\ locks' = [locks EXCEPT ![middleware].owner = {c}]
           /\ lockOf' = [lockOf EXCEPT ![c] = middleware]
           /\ Patches!BeginInit(c)
  <2> DEFINE l == [locks[g] EXCEPT !.owner = {c}]
  <2>1. l \in Lock /\ locks' = [locks EXCEPT ![g] = l] /\ l.owner = {c} /\ l.waiters = w
    BY <1>1, <1>5 DEF Lock
  <2>2. locks[g].owner = {} /\ w = <<>>
    BY <1>5 DEF Patches!Free
  <2>3. Orderly(g, {c}, <<>>, [pc EXCEPT ![c] = "init"], [lockOf EXCEPT ![c] = g])
    <3>1. Orderly(g, {}, <<>>, pc, lockOf)  BY <1>2, <2>2
    <3> QED  BY <1>1, <3>1, LockTaken
  <2>4. /\ pc' = [pc EXCEPT ![c] = "init"] /\ mine' = [mine EXCEPT ![c] = middleware]
        /\ UNCHANGED <<flagged, answer, queue>>
    BY <1>5 DEF Patches!BeginInit, Patches!Keeps
  <2>5. Orderly(g, l.owner, l.waiters, pc', lockOf')
    BY <1>5, <2>1, <2>2, <2>3, <2>4
  <2> HIDE DEF l
  <2>6. UNCHANGED <<Patches!switch, flagged, ready, balance, answer, queue, paid, gaveUp, raised>>
    BY <1>0, <2>4
  <2> QED  BY <1>0, <1>5, <2>1, <2>4, <2>5, <2>6, MeetsLock
<1>6. CASE /\ middleware # 0 /\ ~Patches!Free(locks[g])
           /\ locks' = [locks EXCEPT ![middleware].waiters = Append(@, c),
                                     ![middleware].loop = {Patches!LoopOf(c)}]
           /\ lockOf' = [lockOf EXCEPT ![c] = middleware]
           /\ pc' = [pc EXCEPT ![c] = "waiting"]
           /\ Patches!Keeps /\ UNCHANGED <<flagged, mine>>
  <2> DEFINE l == [locks[g] EXCEPT !.waiters = Append(@, c), !.loop = {Patches!LoopOf(c)}]
             own == locks[g].owner
  <2>1. l \in Lock /\ l.owner = own /\ l.waiters = Append(w, c)
    <3>1. {Patches!LoopOf(c)} \in SUBSET SUBSET Calls  BY LoopType
    <3>2. Append(w, c) \in Seq(Calls)  BY <1>1
    <3> HIDE DEF Patches!LoopOf
    <3> QED  BY <1>1, <3>1, <3>2 DEF Lock
  <2>2. locks' = [locks EXCEPT ![g] = l]
    BY <1>1, <1>6 DEF PatchTypes
  <2>3. ~(own = {} /\ w = <<>>)
    BY <1>6 DEF Patches!Free
  <2>4. UNCHANGED <<Patches!switch, flagged, ready, balance, answer, queue, paid, gaveUp, raised>>
    BY <1>0, <1>6 DEF Patches!Keeps
  <2> HIDE DEF l
  <2>5. Orderly(g, own, Append(w, c), [pc EXCEPT ![c] = "waiting"], [lockOf EXCEPT ![c] = g])
    <3> HIDE DEF w, own
    <3>1. Orderly(g, own, w, pc, lockOf)  BY <1>2 DEF own
    <3> QED  BY <1>1, <2>3, <3>1, LockJoined
  <2>6. Orderly(g, l.owner, l.waiters, pc', lockOf')
    BY <1>6, <2>1, <2>5
  <2> QED  BY <1>0, <1>6, <2>1, <2>2, <2>4, <2>6, MeetsLock
<1> QED  BY <1>3, <1>4, <1>5, <1>6 DEF Patches!GetMiddleware

LEMMA EnterStep ==
  ASSUME PatchInv, PatchTypes', NEW c \in Calls, Patches!Enter(c)
  PROVE  Step(c)
<1> USE DEF PatchInv
<1> DEFINE g == lockOf[c]
           w == locks[g].waiters
           own == locks[g].owner
           others == Tail(w)
<1>0. /\ pc[c] = "woken" /\ Patches!Runs(c)
      /\ UNCHANGED <<Patches!switch, ready, balance, lockOf, paid, gaveUp, raised>>
  BY DEF Patches!Enter
<1>1. /\ g \in Patches!Generations /\ locks[g] \in Lock /\ w \in Seq(Calls)
      /\ pc \in [Calls -> Patches!Places] /\ own \in SUBSET Calls
  BY DEF PatchTypes, Lock
<1>2. Orderly(g, own, w, pc, lockOf)
  BY <1>1 DEF LockInv
<1>3. w # <<>> /\ w[1] = c /\ own = {} /\ others \in Seq(Calls)
  <2>1. pc[c] \in {"woken", "asleep"} /\ lockOf[c] = g  BY <1>0
  <2> HIDE DEF w, own, g
  <2>2. w # <<>> /\ w[1] = c /\ own = {}
    BY <1>1, <1>2, <2>1, WokenIsFirst
  <2> QED  BY <1>1, <2>2, TailFacts
<1>4. g \in 1 .. made /\ c \notin paid /\ (answer[c] = "unpaid" => c \in gaveUp)
  BY <1>0 DEF CallInv, Locking, Queueing
<1>5. CASE middleware = 0 \/ middleware \in flagged
  <2>1. PICK p \in {"done", "pay"} :
           /\ pc' \in Patches!Woken(c, p, others)
           /\ p = "done" => Patches!Ended(c, "unpaid")
           /\ p = "pay"  => Patches!Keeps
    BY <1>5 DEF Patches!Enter
  <2>2. /\ locks' = [locks EXCEPT ![g].waiters = others]
        /\ mine' = [mine EXCEPT ![c] = middleware] /\ flagged' = flagged
    BY <1>5 DEF Patches!Enter
  <2>3. others # <<>> => /\ others[1] \in Calls /\ others[1] # c
                         /\ lockOf[others[1]] = g /\ pc[others[1]] \in Queues
    <3> HIDE DEF w, g
    <3> SUFFICES ASSUME others # <<>>
                 PROVE  /\ others[1] \in Calls /\ others[1] # c
                        /\ lockOf[others[1]] = g /\ pc[others[1]] \in Queues
      OBVIOUS
    <3>1. /\ others[1] = w[1 + 1] /\ 1 + 1 \in 1 .. Len(w) /\ 1 \in 1 .. Len(w) /\ 1 + 1 # 1
          /\ w[1 + 1] \in Calls
      BY <1>1, <1>3, TailFacts
    <3> QED  BY <1>2, <1>3, <3>1 DEF Orderly
  <2>4. Leaves(c, p, others)
    <3> HIDE DEF others
    <3> QED  BY <2>1, WokenLeaves
  <2>5. /\ pc'[c] = p
        /\ others # <<>> => pc'[others[1]] \in {"woken", "asleep"}
        /\ \A d \in Calls : d # c /\ (others # <<>> => d # others[1]) => pc'[d] = pc[d]
    <3> HIDE DEF others
    <3> QED  BY <1>3, <2>3, <2>4, LeavesPlaces
  <2> DEFINE l == [locks[g] EXCEPT !.waiters = others]
  <2>6. l \in Lock /\ locks' = [locks EXCEPT ![g] = l] /\ l.owner = own /\ l.waiters = others
    BY <1>1, <1>3, <2>2 DEF Lock
  <2>7. Orderly(g, {}, others, pc', lockOf)
    <3>1. lockOf[c] = g /\ pc'[c] \notin Opens \cup Queues
      BY <2>5 DEF Opens, Queues
    <3> HIDE DEF w, own, g, l
    <3> QED  BY <1>0, <1>1, <1>2, <2>5, <3>1, LockSkipped
  <2>8. \A d \in Calls :
           \/ lockOf'[d] = lockOf[d] /\ pc'[d] = pc[d]
           \/ /\ pc[d] \in Opens \cup Queues => lockOf[d] = g
              /\ pc'[d] \in Opens \cup Queues => lockOf'[d] = g
    <3> HIDE DEF others
    <3> QED  BY <1>0, <2>3, <2>5
  <2>9. LockInv'
    <3>1. Orderly(g, l.owner, l.waiters, pc', lockOf')
      BY <1>0, <1>3, <2>6, <2>7
    <3> HIDE DEF l, g
    <3> QED  BY <1>1, <2>6, <2>8, <3>1, OnlyLock
  <2>10. Others(c)
    <3> HIDE DEF others
    <3> QED  BY <1>0, <2>3, <2>5 DEF Others, Queues
  <2>11. /\ \A d \in Calls \ {c} : answer'[d] = answer[d] /\ mine'[d] = mine[d]
         /\ p = "done" => answer'[c] = IF answer[c] = "none" THEN "unpaid" ELSE answer[c]
         /\ p = "pay"  => answer'[c] = answer[c]
         /\ \A h \in Patches!Generations : queue'[h] = queue[h] \/ Popped(h, c)
    <3>1. \A d \in Calls \ {c} : mine'[d] = mine[d]
      BY <2>2 DEF PatchTypes
    <3>2. CASE p = "done"  BY <2>1, <3>1, <3>2, EndedFrame
    <3>3. CASE p = "pay"
      <4>1. answer' = answer /\ queue' = queue  BY <2>1, <3>3 DEF Patches!Keeps
      <4> QED  BY <3>1, <3>3, <4>1
    <3> QED  BY <3>2, <3>3
  <2>12. CallInv(c)'
    BY <1>0, <1>4, <2>5, <2>11 DEF CallInv, Locking, Opening, Queueing
  <2>13. Frame(c)
    BY <1>0, <2>10, <2>11 DEF Frame
  <2>14. KeepsPlace(c) /\ KeepsFlag(c) /\ KeepsMoney(c)
    <3>1. balance' <= balance  BY <1>0 DEF PatchTypes
    <3> QED  BY <2>2, <2>5, <3>1 DEF KeepsPlace, KeepsFlag, KeepsMoney, Locking, Opening, Queueing
  <2> QED  BY <2>9, <2>12, <2>13, <2>14 DEF Step
<1>6. CASE ~(middleware = 0 \/ middleware \in flagged)
  <2>1. /\ locks' = [locks EXCEPT ![g] = [@ EXCEPT !.owner = {c}, !.waiters = others]]
        /\ pc' = [pc EXCEPT ![c] = "init"] /\ mine' = [mine EXCEPT ![c] = middleware]
        /\ UNCHANGED <<flagged, answer, queue>>
    BY <1>6 DEF Patches!Enter, Patches!BeginInit, Patches!Keeps
  <2> DEFINE l == [locks[g] EXCEPT !.owner = {c}, !.waiters = others]
  <2>2. l \in Lock /\ locks' = [locks EXCEPT ![g] = l] /\ l.owner = {c} /\ l.waiters = others
    BY <1>1, <1>3, <2>1 DEF Lock
  <2>3. Orderly(g, {c}, others, [pc EXCEPT ![c] = "init"], lockOf)
    <3>1. lockOf[c] = g  OBVIOUS
    <3> HIDE DEF w, own, g, l
    <3> QED  BY <1>0, <1>1, <1>2, <3>1, LockEntered
  <2>4. pc'[c] = "init" /\ \A d \in Calls \ {c} : pc'[d] = pc[d] /\ mine'[d] = mine[d]
    BY <2>1 DEF PatchTypes
  <2>5. LockInv'
    <3>1. Orderly(g, l.owner, l.waiters, pc', lockOf')
      BY <1>0, <2>1, <2>2, <2>3
    <3>2. \A d \in Calls :
             \/ lockOf'[d] = lockOf[d] /\ pc'[d] = pc[d]
             \/ /\ pc[d] \in Opens \cup Queues => lockOf[d] = g
                /\ pc'[d] \in Opens \cup Queues => lockOf'[d] = g
      BY <1>0, <2>4
    <3> HIDE DEF l, g
    <3> QED  BY <1>1, <2>2, <3>1, <3>2, OnlyLock
  <2>6. Others(c)
    BY <1>0, <2>4 DEF Others
  <2>7. CallInv(c)'
    <3>1. mine'[c] # 0  BY <1>6, <2>1 DEF PatchTypes
    <3>2. made' = made  BY <1>0 DEF Patches!switch
    <3> QED  BY <1>0, <1>4, <2>1, <2>4, <3>1, <3>2 DEF CallInv
  <2>8. Frame(c)
    BY <1>0, <2>1, <2>4, <2>6 DEF Frame
  <2>9. KeepsPlace(c) /\ KeepsFlag(c) /\ KeepsMoney(c)
    <3>1. balance' <= balance  BY <1>0 DEF PatchTypes
    <3> QED  BY <1>0, <2>1, <2>4, <3>1 DEF KeepsPlace, KeepsFlag, KeepsMoney, Locking, Opening, Queueing
  <2> QED  BY <2>5, <2>7, <2>8, <2>9 DEF Step
<1> QED  BY <1>5, <1>6

-----------------------------------------------------------------------------
(* The steps inside an init, which end it or stay in it                    *)

\* What such a step leaves to be said of the pool, of the flag and of money.
InitStep(c) ==
  /\ LockInv' /\ Others(c) /\ CallInv(c)' /\ KeepsPlace(c)
  /\ \A d \in Calls \ {c} : answer'[d] = answer[d] /\ mine'[d] = mine[d]
  /\ \A g \in Patches!Generations : queue'[g] = queue[g] \/ Popped(g, c)

LEMMA RaiseStep ==
  ASSUME PatchTypes, LockInv, NEW c \in Calls, pc[c] \in Opens, CallInv(c),
         Patches!Raise(c), UNCHANGED <<lockOf, paid, gaveUp, raised>>
  PROVE  InitStep(c) /\ pc'[c] = "done"
<1>1. /\ LockInv' /\ Others(c) /\ pc'[c] = "done" /\ CallInv(c)'
      /\ \A d \in Calls \ {c} : answer'[d] = answer[d] /\ mine'[d] = mine[d]
      /\ \A g \in Patches!Generations : queue'[g] = queue[g] \/ Popped(g, c)
  BY RaiseMoves
<1>2. KeepsPlace(c)
  BY <1>1 DEF KeepsPlace, Locking, Opening, Queueing
<1> QED  BY <1>1, <1>2 DEF InitStep

LEMMA FlagStep ==
  ASSUME PatchTypes, LockInv, NEW c \in Calls, pc[c] \in Opens, CallInv(c),
         Patches!Flag(c), UNCHANGED <<lockOf, paid, gaveUp, raised>>
  PROVE  /\ InitStep(c) /\ pc'[c] \in {"done", "pay"}
         /\ flagged' \subseteq flagged \cup {middleware}
<1>1. CASE middleware = 0
  BY <1>1, RaiseStep DEF Patches!Flag
<1>2. CASE middleware # 0
  <2>1. /\ flagged' = flagged \cup {middleware} /\ mine' = [mine EXCEPT ![c] = middleware]
        /\ Patches!Unlock(c, "pay") /\ answer' = answer /\ queue' = queue
    BY <1>2 DEF Patches!Flag, Patches!Keeps
  <2>2. LockInv' /\ Others(c) /\ pc'[c] = "pay"
    BY <2>1, UnlockMoves DEF Opens, Queues
  <2>3. CallInv(c)'
    BY <2>1, <2>2 DEF CallInv, Opens, Locking, Opening, Queueing
  <2>4. KeepsPlace(c)
    BY <2>2 DEF KeepsPlace, Locking, Opening, Queueing
  <2>5. \A d \in Calls \ {c} : answer'[d] = answer[d] /\ mine'[d] = mine[d]
    BY <2>1 DEF PatchTypes
  <2> QED  BY <2>1, <2>2, <2>3, <2>4, <2>5 DEF InitStep
<1> QED  BY <1>1, <1>2

LEMMA UseWalletStep ==
  ASSUME PatchTypes, LockInv, NEW c \in Calls, pc[c] \in Opens, CallInv(c),
         NEW p \in {"balance", "deposit"}, Patches!UseWallet(c, p),
         UNCHANGED <<lockOf, paid, gaveUp, raised, made>>
  PROVE  /\ InitStep(c)
         /\ pc'[c] = "done" \/ (pc'[c] = p /\ middleware \in ready')
<1>1. CASE middleware \notin ready'
  BY <1>1, RaiseStep DEF Patches!UseWallet
<1>2. CASE middleware \in ready'
  <2>1. /\ pc' = [pc EXCEPT ![c] = p] /\ mine' = [mine EXCEPT ![c] = middleware]
        /\ UNCHANGED <<answer, queue, locks>>
    BY <1>2 DEF Patches!UseWallet, Patches!Keeps
  <2>2. LockInv' /\ Others(c) /\ pc'[c] = p
    BY <2>1, OneMoves DEF Opens
  <2>3. Locking(c) /\ Locking(c)'
    BY <2>2 DEF Locking, Opening, Opens
  <2>4. CallInv(c)'
    <3>1. /\ CallInv(c) /\ c \notin paid
      BY DEF CallInv, Opens
    <3> QED  BY <2>1, <2>2, <2>3, <3>1 DEF CallInv, Opens
  <2>5. KeepsPlace(c)
    BY <2>1, <2>3 DEF KeepsPlace
  <2>6. \A d \in Calls \ {c} : answer'[d] = answer[d] /\ mine'[d] = mine[d]
    BY <2>1 DEF PatchTypes
  <2> QED  BY <1>2, <2>1, <2>2, <2>4, <2>5, <2>6 DEF InitStep
<1> QED  BY <1>1, <1>2

LEMMA InitStepIsStep ==
  ASSUME PatchTypes, PatchTypes', NEW c \in Calls, InitStep(c), KeepsFlag(c), KeepsMoney(c),
         UNCHANGED Patches!switch, UNCHANGED <<paid, gaveUp, raised>>, ready \subseteq ready'
  PROVE  Step(c)
<1>1. Frame(c)
  BY DEF InitStep, Frame
<1> QED  BY <1>1 DEF InitStep, Step

LEMMA InitDbStep ==
  ASSUME PatchInv, PatchTypes', NEW c \in Calls, Patches!InitDb(c)
  PROVE  Step(c)
<1> USE DEF PatchInv
<1>1. /\ pc[c] = "init" /\ ready \subseteq ready' /\ Patches!UseWallet(c, "balance")
      /\ UNCHANGED <<Patches!switch, flagged, balance, lockOf, paid, gaveUp, raised>>
  BY DEF Patches!InitDb, Patches!Opens
<1>2. pc[c] \in Opens /\ made' = made
  BY <1>1 DEF Opens, Patches!switch
<1>3. InitStep(c) /\ (pc'[c] = "done" \/ (pc'[c] = "balance" /\ middleware \in ready'))
  BY <1>1, <1>2, UseWalletStep
<1>4. KeepsFlag(c)
  BY <1>1, <1>3 DEF KeepsFlag
<1>5. KeepsMoney(c)
  <2>1. balance' <= balance  BY <1>1 DEF PatchTypes
  <2> QED  BY <1>3, <2>1 DEF KeepsMoney
<1> QED  BY <1>1, <1>3, <1>4, <1>5, InitStepIsStep

LEMMA ReadBalanceStep ==
  ASSUME PatchInv, PatchTypes', NEW c \in Calls, Patches!ReadBalance(c)
  PROVE  Step(c)
<1> USE DEF PatchInv
<1>1. /\ pc[c] = "balance" /\ ready' = ready
      /\ UNCHANGED <<Patches!switch, balance, lockOf, paid, gaveUp, raised>>
  BY DEF Patches!ReadBalance
<1>2. pc[c] \in Opens /\ made' = made
  BY <1>1 DEF Opens, Patches!switch
<1>3. CASE balance = 0
  <2>1. Patches!UseWallet(c, "deposit") /\ flagged' = flagged
    BY <1>3 DEF Patches!ReadBalance
  <2>2. InitStep(c) /\ (pc'[c] = "done" \/ (pc'[c] = "deposit" /\ middleware \in ready'))
    BY <1>1, <1>2, <2>1, UseWalletStep
  <2>3. KeepsFlag(c)
    BY <2>1, <2>2 DEF KeepsFlag
  <2>4. KeepsMoney(c)
    BY <1>1, <1>2, <1>3, <2>2 DEF KeepsMoney
  <2> QED  BY <1>1, <2>2, <2>3, <2>4, InitStepIsStep
<1>4. CASE balance # 0
  <2>1. Patches!Flag(c)
    BY <1>4 DEF Patches!ReadBalance
  <2>2. /\ InitStep(c) /\ pc'[c] \in {"done", "pay"}
        /\ flagged' \subseteq flagged \cup {middleware}
    BY <1>1, <1>2, <2>1, FlagStep
  <2>3. KeepsFlag(c)
    BY <1>1, <2>2 DEF KeepsFlag
  <2>4. KeepsMoney(c)
    <3>1. balance' <= balance  BY <1>1 DEF PatchTypes
    <3> QED  BY <2>2, <3>1 DEF KeepsMoney
  <2> QED  BY <1>1, <2>2, <2>3, <2>4, InitStepIsStep
<1> QED  BY <1>3, <1>4

LEMMA DepositStep ==
  ASSUME PatchInv, PatchTypes', NEW c \in Calls, Patches!Deposit(c)
  PROVE  Step(c)
<1> USE DEF PatchInv
<1>1. /\ pc[c] = "deposit" /\ ready' = ready /\ balance' = balance + TopUp /\ Patches!Flag(c)
      /\ UNCHANGED <<Patches!switch, lockOf, paid, gaveUp, raised>>
  BY DEF Patches!Deposit
<1>2. pc[c] \in Opens
  BY <1>1 DEF Opens
<1>3. /\ InitStep(c) /\ pc'[c] \in {"done", "pay"}
      /\ flagged' \subseteq flagged \cup {middleware}
  BY <1>1, <1>2, FlagStep
<1>4. KeepsFlag(c) /\ KeepsMoney(c)
  BY <1>1, <1>3 DEF KeepsFlag, KeepsMoney
<1> QED  BY <1>1, <1>3, <1>4, InitStepIsStep

LEMMA CallKeeps ==
  ASSUME PatchInv, NEW c \in Calls,
         Patches!Send(c) \/ Patches!Work(c) \/ Patches!GiveUp(c) \/ Patches!Nudge(c)
  PROVE  PatchInv'
<1>1. PatchTypes'
  <2>1. PatchTypes /\ CallInv(c)  BY DEF PatchInv
  <2>2. pc[c] = "woken" => locks[lockOf[c]].waiters # <<>>
    <3> SUFFICES ASSUME pc[c] = "woken" PROVE locks[lockOf[c]].waiters # <<>>
      OBVIOUS
    <3> DEFINE g == lockOf[c]
               own == locks[g].owner
               w == locks[g].waiters
    <3>1. g \in Patches!Generations /\ w \in Seq(Calls) /\ lockOf[c] = g
      BY <2>1 DEF PatchTypes, Lock
    <3>2. Orderly(g, own, w, pc, lockOf)
      BY <3>1 DEF PatchInv, LockInv
    <3>3. pc[c] \in {"woken", "asleep"}
      OBVIOUS
    <3> HIDE DEF g, own, w
    <3>4. w # <<>>
      BY <3>1, <3>2, <3>3, WokenIsFirst
    <3> QED  BY <3>4 DEF w, g
  <2>3. pc[c] = "init" => mine[c] # 0  BY <2>1 DEF CallInv
  <2> QED  BY <2>1, <2>2, <2>3, CallTypes
<1>2. Step(c)
  <2>1. CASE Patches!Send(c)    BY <1>1, <2>1, SendStep
  <2>2. CASE Patches!GiveUp(c)  BY <1>1, <2>2, PatchGiveUpStep
  <2>3. CASE Patches!Nudge(c)   BY <1>1, <2>3, NudgeStep
  <2>4. CASE Patches!Work(c)
    BY <1>1, <2>4, InterceptStep, GetMiddlewareStep, EnterStep, InitDbStep, ReadBalanceStep,
       DepositStep, PayStep, ReturnStep DEF Patches!Work
  <2> QED  BY <2>1, <2>2, <2>3, <2>4
<1> QED  BY <1>2, StepKeeps

-----------------------------------------------------------------------------
(* enable and disable                                                      *)

AtLocks == {c \in Calls : Locking(c)}

LEMMA LocksCount ==
  /\ IsFiniteSet(AtLocks) /\ Cardinality(AtLocks) \in Nat
  /\ Patches!Cardinality({c \in Calls : Patches!AtLock(c)}) = Cardinality(AtLocks)
<1>1. {c \in Calls : Patches!AtLock(c)} = AtLocks
  BY DEF Patches!AtLock, Patches!Initializing, AtLocks, Locking, Opening, Queueing
<1>2. IsFiniteSet(AtLocks) /\ Cardinality(AtLocks) \in Nat
  BY CallsAssumption, FS_Subset, FS_CardinalityType DEF AtLocks
<1> QED  BY <1>1, <1>2, PatchCardinality

\* An enable or a disable moves no call and no money; the calls it strands are
\* among those it counts.
LEMMA SwitchKeeps ==
  ASSUME PatchInv, PatchTypes',
         UNCHANGED <<flagged, ready, kind, pc, mine, lockOf, answer, paid, gaveUp, raised, balance,
                     locks, queue>>,
         made <= made', crossings <= crossings',
         NEW S \in SUBSET AtLocks, Crossed' \subseteq S, Cardinality(S) <= crossings',
         crossings' = 0 => AtLocks = {} \/ middleware' = middleware,
         Patches!PatchedWhileEnabled'
  PROVE  PatchInv'
<1> USE DEF PatchInv
<1>1. LockInv'
  BY DEF LockInv
<1>2. \A c \in Calls : CallInv(c)'
  <2> SUFFICES ASSUME NEW c \in Calls PROVE CallInv(c)'
    OBVIOUS
  <2>1. CallInv(c)  OBVIOUS
  <2>2. Locking(c)' => lockOf[c] \in 1 .. made  BY <2>1 DEF CallInv, Locking, Opening, Queueing
  <2>3. 1 .. made \subseteq 1 .. made'  BY DEF PatchTypes, Patches!Generations
  <2> QED  BY <2>1, <2>2, <2>3 DEF CallInv
<1>3. CrossInv'
  <2>1. IsFiniteSet(S)  BY LocksCount, FS_Subset
  <2>2. Cardinality(Crossed') <= Cardinality(S) /\ IsFiniteSet(Crossed')  BY <2>1, FS_Subset
  <2>3. Cardinality(Crossed') \in Nat /\ Cardinality(S) \in Nat /\ crossings' \in Nat
    BY <2>1, <2>2, FS_CardinalityType DEF PatchTypes
  <2>4. Cardinality(Crossed') <= crossings'
    BY <2>2, <2>3
  <2> QED  BY <2>4 DEF CrossInv
<1>4. FlagInv'
  <2> SUFFICES ASSUME crossings' = 0
               PROVE  /\ flagged \subseteq ready
                      /\ \A c \in Calls : pc[c] \in {"balance", "deposit"} => middleware' \in ready
    BY DEF FlagInv
  <2>1. crossings = 0  BY DEF PatchTypes
  <2>2. /\ flagged \subseteq ready
        /\ \A c \in Calls : pc[c] \in {"balance", "deposit"} => middleware \in ready
    BY <2>1 DEF FlagInv
  <2>3. \A c \in Calls : pc[c] \in {"balance", "deposit"} => c \in AtLocks
    BY DEF AtLocks, Locking, Opening
  <2> QED  BY <2>2, <2>3
<1>5. MoneyInv'
  <2> DEFINE m == Cardinality(Depositing)
             k == crossings
             l == crossings'
  <2>1. /\ TopUp \in Nat /\ balance \in Nat /\ m \in Nat /\ k \in Nat /\ l \in Nat /\ k <= l
        /\ balance + TopUp * m <= TopUp * (1 + k)
    BY BoundsAssumption, CrossedCount DEF PatchTypes, MoneyInv
  <2>2. Depositing' = Depositing
    BY DEF Depositing
  <2> HIDE DEF m, k, l
  <2>3. TopUp * (1 + k) <= TopUp * (1 + l)
    BY <2>1
  <2>4. TopUp * m \in Int /\ TopUp * (1 + k) \in Int /\ TopUp * (1 + l) \in Int
    BY <2>1
  <2>5. balance + TopUp * m <= TopUp * (1 + l)
    BY <2>1, <2>3, <2>4
  <2> QED  BY <2>2, <2>5 DEF MoneyInv, m, l
<1>6. HeadInv'
  BY DEF HeadInv, Heads, Locking, Opening, Queueing
<1> QED  BY <1>1, <1>2, <1>3, <1>4, <1>5, <1>6

LEMMA NobodyCrossed == PatchInv /\ crossings = 0 => Crossed = {}
  BY CrossedCount, FS_EmptySet DEF PatchInv, CrossInv

LEMMA EnableKeeps == ASSUME PatchInv, Patches!Enable PROVE PatchInv'
<1> USE DEF PatchInv
<1>1. PatchTypes'
  BY SwitchTypes
<1>2. /\ UNCHANGED <<flagged, ready, kind, pc, mine, lockOf, answer, paid, gaveUp, raised, balance,
                     locks, queue, crossings, failed>>
      /\ depth' = depth + 1
      /\ depth > 0 => UNCHANGED <<patched, middleware, made>>
      /\ ~(depth > 0) => made' = made + 1 /\ middleware' = made + 1 /\ patched' = TRUE
  BY DEF Patches!Enable, Patches!wallets
<1>3. /\ IsFiniteSet(Crossed) /\ Cardinality(Crossed) <= crossings /\ Crossed \in SUBSET AtLocks
      /\ crossings \in Nat /\ made \in Nat /\ depth \in Nat
  BY CrossedCount DEF CrossInv, PatchTypes, Patches!Generations, Crossed, AtLocks
<1>4. CASE depth > 0
  <2>1. Crossed' = Crossed
    BY <1>2, <1>4 DEF Crossed, Locking, Opening, Queueing
  <2>2. Patches!PatchedWhileEnabled'
    BY <1>2, <1>4 DEF Patches!PatchedWhileEnabled
  <2> QED  BY <1>1, <1>2, <1>3, <1>4, <2>1, <2>2, SwitchKeeps
<1>5. CASE ~(depth > 0)
  <2>1. middleware = 0
    <3>1. depth = 0  BY <1>3, <1>5
    <3> QED  BY <3>1, Zenon DEF PatchTypes
  <2>2. Crossed = AtLocks
    <3>1. \A c \in Calls : Locking(c) => lockOf[c] # 0
      BY <1>3 DEF CallInv
    <3> QED  BY <2>1, <3>1 DEF Crossed, AtLocks
  <2>3. Crossed' \subseteq AtLocks
    BY <1>2 DEF Crossed, AtLocks, Locking, Opening, Queueing
  <2>4. crossings' = 0 => AtLocks = {}
    BY <1>2, <2>2, NobodyCrossed
  <2>5. Patches!PatchedWhileEnabled'
    BY <1>2, <1>5 DEF Patches!PatchedWhileEnabled
  <2>6. made <= made' /\ crossings <= crossings' /\ Cardinality(AtLocks) <= crossings'
    BY <1>2, <1>3, <1>5, <2>2
  <2>7. /\ AtLocks \in SUBSET AtLocks /\ Crossed' \subseteq AtLocks
        /\ crossings' = 0 => AtLocks = {} \/ middleware' = middleware
    BY <2>3, <2>4
  <2> QED  BY <1>1, <1>2, <2>5, <2>6, <2>7, SwitchKeeps
<1> QED  BY <1>4, <1>5

LEMMA EnableFailsKeeps == ASSUME PatchInv, Patches!EnableFails PROVE PatchInv'
<1> USE DEF PatchInv
<1>1. PatchTypes'
  BY SwitchTypes
<1>2. /\ UNCHANGED <<flagged, ready, kind, pc, mine, lockOf, answer, paid, gaveUp, raised, balance,
                     locks, queue, crossings, middleware, made>>
      /\ failed' = TRUE
  BY DEF Patches!EnableFails, Patches!wallets
<1>3. /\ IsFiniteSet(Crossed) /\ Cardinality(Crossed) <= crossings /\ Crossed \in SUBSET AtLocks
      /\ crossings \in Nat /\ made \in Nat
  BY CrossedCount DEF CrossInv, PatchTypes, Patches!Generations, Crossed, AtLocks
<1>4. Crossed' = Crossed
  BY <1>2 DEF Crossed, Locking, Opening, Queueing
<1>5. Patches!PatchedWhileEnabled'
  BY <1>2 DEF Patches!PatchedWhileEnabled
<1> QED  BY <1>1, <1>2, <1>3, <1>4, <1>5, SwitchKeeps

LEMMA DisableKeeps == ASSUME PatchInv, Patches!Disable PROVE PatchInv'
<1> USE DEF PatchInv
<1>1. PatchTypes'
  BY SwitchTypes
<1> DEFINE n == Patches!Cardinality({c \in Calls : Patches!AtLock(c)})
<1>2. /\ UNCHANGED <<flagged, ready, kind, pc, mine, lockOf, answer, paid, gaveUp, raised, balance,
                     locks, queue, made>>
      /\ depth > 0 /\ depth' = depth - 1
      /\ depth = 1 => middleware' = 0 /\ crossings' = crossings + n
      /\ depth # 1 => UNCHANGED <<patched, middleware, crossings, failed>>
  BY DEF Patches!Disable, Patches!LastOne, Patches!wallets
<1>3. n = Cardinality(AtLocks) /\ n \in Nat /\ IsFiniteSet(AtLocks)
  BY LocksCount
<1> HIDE DEF n
<1>4. /\ IsFiniteSet(Crossed) /\ Cardinality(Crossed) <= crossings /\ Crossed \in SUBSET AtLocks
      /\ crossings \in Nat /\ made \in Nat /\ depth \in Nat
  BY CrossedCount DEF CrossInv, PatchTypes, Patches!Generations, Crossed, AtLocks
<1>5. CASE depth # 1
  <2>1. Crossed' = Crossed
    BY <1>2, <1>5 DEF Crossed, Locking, Opening, Queueing
  <2>2. Patches!PatchedWhileEnabled'
    BY <1>2, <1>5 DEF Patches!PatchedWhileEnabled
  <2> QED  BY <1>1, <1>2, <1>4, <1>5, <2>1, <2>2, SwitchKeeps
<1>6. CASE depth = 1
  <2>1. Crossed' \subseteq AtLocks
    BY <1>2 DEF Crossed, AtLocks, Locking, Opening, Queueing
  <2>2. Patches!PatchedWhileEnabled'
    BY <1>2, <1>6 DEF Patches!PatchedWhileEnabled
  <2>3. made <= made' /\ crossings <= crossings' /\ Cardinality(AtLocks) <= crossings'
    BY <1>2, <1>3, <1>4, <1>6
  <2>4. crossings' = 0 => AtLocks = {}
    <3>1. crossings' = 0 => n = 0  BY <1>2, <1>3, <1>4, <1>6
    <3> QED  BY <1>3, <3>1, FS_EmptySet
  <2> QED  BY <1>1, <1>2, <2>1, <2>2, <2>3, <2>4, SwitchKeeps
<1> QED  BY <1>5, <1>6

LEMMA PatchStep == PatchInv /\ Patches!Next => PatchInv'
  BY CallKeeps, EnableKeeps, EnableFailsKeeps, DisableKeeps DEF Patches!Next

LEMMA PatchStutter == PatchInv /\ UNCHANGED Patches!vars => PatchInv'
<1> SUFFICES ASSUME PatchInv, UNCHANGED Patches!vars PROVE PatchInv'
  OBVIOUS
<1>1. UNCHANGED <<depth, patched, middleware, made, flagged, ready, locks, queue, kind, pc, mine,
                  lockOf, answer, paid, balance, gaveUp, raised, crossings, failures, failed>>
  BY DEF Patches!vars
<1>2. PatchTypes' /\ LockInv' /\ FlagInv' /\ Patches!PatchedWhileEnabled'
  BY <1>1 DEF PatchInv, PatchTypes, LockInv, FlagInv, Patches!PatchedWhileEnabled
<1>3. (\A c \in Calls : CallInv(c)') /\ HeadInv'
  BY <1>1 DEF PatchInv, CallInv, HeadInv, Heads, Locking, Opening, Queueing
<1>4. Crossed' = Crossed /\ Depositing' = Depositing
  BY <1>1 DEF Crossed, Depositing, Locking, Opening, Queueing
<1>5. CrossInv' /\ MoneyInv'
  BY <1>1, <1>4 DEF PatchInv, CrossInv, MoneyInv
<1> QED  BY <1>2, <1>3, <1>5 DEF PatchInv

-----------------------------------------------------------------------------
(* What the invariant says of the patches                                  *)

LEMMA PatchState ==
  PatchInv => Patches!TypeOK /\ Patches!PatchedWhileEnabled /\ Patches!FlagIsTrue /\ Patches!OneTopUp
<1> SUFFICES ASSUME PatchInv
             PROVE  Patches!TypeOK /\ Patches!PatchedWhileEnabled /\ Patches!FlagIsTrue /\ Patches!OneTopUp
  OBVIOUS
<1> USE DEF PatchInv
<1>1. \A g \in Patches!Generations :
        locks[g].owner = {c \in Calls : pc[c] \in Patches!Initializing /\ lockOf[c] = g}
  BY DEF LockInv, Orderly, Opens, Patches!Initializing
<1>2. {middleware, made} \subseteq Patches!Generations
  BY CurrentType DEF PatchTypes
<1>3. Patches!TypeOK
  BY <1>1, <1>2 DEF PatchTypes, Patches!TypeOK
<1>4. Patches!FlagIsTrue
  BY DEF FlagInv, Patches!FlagIsTrue
<1>5. balance <= TopUp * (1 + crossings)
  <2> DEFINE m == Cardinality(Depositing)
  <2>1. /\ TopUp \in Nat /\ balance \in Nat /\ m \in Nat /\ crossings \in Nat
        /\ balance + TopUp * m <= TopUp * (1 + crossings)
    BY BoundsAssumption, CrossedCount DEF PatchTypes, MoneyInv
  <2> HIDE DEF m
  <2>2. TopUp * m \in Nat /\ TopUp * (1 + crossings) \in Int
    BY <2>1
  <2> QED  BY <2>1, <2>2
<1> QED  BY <1>3, <1>4, <1>5 DEF Patches!OneTopUp

LEMMA PatchPaid == PatchInv => Patches!PaidIsReturned
  BY DEF PatchInv, PatchTypes, CallInv, Patches!PaidIsReturned

\* The call that a waiting one can be followed to over its init lock.
LEMMA AheadAtLock ==
  ASSUME PatchInv, NEW c \in Calls, pc[c] = "waiting"
  PROVE  \E o \in Calls \ {c} : /\ lockOf[o] = lockOf[c]
                                /\ pc[o] \in Opens \cup {"woken", "asleep"}
<1> DEFINE g == lockOf[c]
           w == locks[g].waiters
           own == locks[g].owner
<1>1. g \in Patches!Generations /\ w \in Seq(Calls)
  BY DEF PatchInv, PatchTypes, Lock
<1>2. Orderly(g, own, w, pc, lockOf)
  BY <1>1 DEF PatchInv, LockInv
<1>3. PICK i \in 1 .. Len(w) : w[i] = c
  BY <1>2 DEF Orderly, Queues
<1>4. w # <<>> /\ 1 \in 1 .. Len(w) /\ w[1] \in Calls
  BY <1>1, <1>3
<1>5. CASE own = {}
  <2>1. lockOf[w[1]] = g /\ pc[w[1]] \in Queues /\ pc[w[1]] # "waiting"
    BY <1>2, <1>4, <1>5 DEF Orderly
  <2>2. w[1] # c
    BY <2>1
  <2> QED  BY <1>4, <2>1, <2>2 DEF Queues
<1>6. CASE own # {}
  <2>1. PICK o \in own : TRUE
    BY <1>6
  <2>2. o \in Calls /\ pc[o] \in Opens /\ lockOf[o] = g
    BY <1>2, <2>1 DEF Orderly
  <2>3. o # c
    BY <2>2 DEF Opens
  <2> QED  BY <2>2, <2>3
<1> QED  BY <1>5, <1>6

\* A call that waits for no lock goes on, or waits for a blocking one.
LEMMA GoesOnOrBlocked ==
  ASSUME PatchInv, NEW c \in Calls, Patches!Pending(c), pc[c] # "waiting",
         answer[c] = "none" \/ Locking(c)
  PROVE  \/ Patches!GoesOn(c)
         \/ \E q \in Patches!WaitsFor(c) : Patches!Pending(q) /\ Patches!GoesOn(q)
<1>1. kind[c] \in {"coroutine", "blocking", "thread"}
  BY DEF PatchInv, PatchTypes
<1>2. CASE kind[c] = "thread"
  <2>1. Patches!Runs(c)  BY <1>2 DEF Patches!Runs
  <2> QED  BY <2>1 DEF Patches!GoesOn
<1>3. CASE kind[c] = "blocking"
  <2>1. CASE Locking(c)
    <3>1. Patches!Runs(c)
      BY <1>3, <2>1 DEF PatchInv, HeadInv, Heads, Patches!Runs
    <3> QED  BY <3>1 DEF Patches!GoesOn
  <2>2. CASE answer[c] = "none"
    BY <1>3, <2>2 DEF Patches!GoesOn, Patches!HasTimeout
  <2> QED  BY <2>1, <2>2
<1>4. CASE kind[c] = "coroutine"
  <2>1. CASE ~Patches!LoopBlocked
    <3>1. Patches!Runs(c)  BY <1>4, <2>1 DEF Patches!Runs
    <3> QED  BY <3>1 DEF Patches!GoesOn
  <2>2. CASE Patches!LoopBlocked
    <3>1. PICK q \in Calls : kind[q] = "blocking" /\ pc[q] # "idle" /\ answer[q] = "none"
      BY <2>2 DEF Patches!LoopBlocked
    <3>2. pc[q] # "done"
      BY <3>1 DEF PatchInv, CallInv
    <3>3. Patches!Pending(q) /\ Patches!GoesOn(q)
      BY <3>1, <3>2 DEF Patches!GoesOn, Patches!HasTimeout, Patches!Pending
    <3>4. q \in Patches!WaitsFor(c)
      BY <1>4, <3>1 DEF Patches!WaitsFor
    <3> QED  BY <3>3, <3>4
  <2> QED  BY <2>1, <2>2
<1> QED  BY <1>1, <1>2, <1>3, <1>4

LEMMA PatchWaits == PatchInv => Patches!EveryWaitEnds
<1> SUFFICES ASSUME PatchInv, NEW c \in Calls, Patches!Pending(c), answer[c] = "none"
             PROVE  \/ Patches!GoesOn(c)
                    \/ \E o \in Patches!WaitsFor(c) :
                         Patches!Pending(o) /\ (Patches!GoesOn(o) \/ \E q \in Patches!WaitsFor(o) : Patches!GoesOn(q))
  BY DEF Patches!EveryWaitEnds
<1>1. CASE pc[c] # "waiting"
  BY <1>1, GoesOnOrBlocked
<1>2. CASE pc[c] = "waiting"
  <2>1. PICK o \in Calls \ {c} : /\ lockOf[o] = lockOf[c]
                                 /\ pc[o] \in Opens \cup {"woken", "asleep"}
    BY <1>2, AheadAtLock
  <2>2. o \in Patches!WaitsFor(c)
    BY <1>2, <2>1 DEF Patches!WaitsFor, Patches!Initializing, Opens
  <2>3. Patches!Pending(o) /\ pc[o] # "waiting" /\ Locking(o)
    BY <2>1 DEF Patches!Pending, Opens, Locking, Opening, Queueing
  <2> QED  BY <2>1, <2>2, <2>3, GoesOnOrBlocked
<1> QED  BY <1>1, <1>2

-----------------------------------------------------------------------------
(* Either front end                                                        *)

FrontInv ==
  /\ front \in {"patches", "proxy"}
  /\ front = "patches" => PatchInv
  /\ front = "proxy" => ProxyInv

\* The invariant of the front end that runs is kept by every step.
THEOREM FrontInvariant == FrontSpec => []FrontInv
<1>1. FrontInit => FrontInv
  BY PatchInitInv, ProxyInitInv DEF FrontInit, FrontInv
<1>2. ASSUME FrontInv, [FrontNext]_frontVars PROVE FrontInv'
  <2>1. front' = front
    BY <1>2 DEF FrontNext, frontVars
  <2>2. CASE front = "patches"
    <3>1. PatchInv  BY <1>2, <2>2 DEF FrontInv
    <3>2. Patches!Next \/ UNCHANGED Patches!vars
      BY <1>2, <2>2 DEF FrontNext, frontVars
    <3>3. PatchInv'  BY <3>1, <3>2, PatchStep, PatchStutter
    <3> QED  BY <2>1, <2>2, <3>3 DEF FrontInv
  <2>3. CASE front = "proxy"
    <3>1. ProxyInv  BY <1>2, <2>3 DEF FrontInv
    <3>2. Proxy!Next \/ UNCHANGED Proxy!vars
      BY <1>2, <2>3 DEF FrontNext, frontVars
    <3>3. ProxyInv'  BY <3>1, <3>2, ProxyStep, ProxyStutter
    <3> QED  BY <2>1, <2>3, <3>3 DEF FrontInv
  <2> QED  BY <1>2, <2>2, <2>3 DEF FrontInv
<1> QED  BY <1>1, <1>2, PTL DEF FrontSpec

\* Enabled is patched, a wallet taken for initialised is open, an empty wallet
\* is given its money once, and a proxy that says it runs can serve, but for
\* the enable that raised, the disables into an init and the overlapping
\* starts and stops that the properties name (enable, disable,
\* _get_initialized_middleware, X402ForwardProxy.start and stop).
THEOREM StateAlwaysTrue == FrontSpec => []StateIsTrue
<1>1. FrontInv => StateIsTrue
  BY PatchState, ProxyProperties DEF FrontInv, StateIsTrue, Patching
<1> QED  BY <1>1, FrontInvariant, PTL

\* Nobody whose call was paid for is left with a refusal, but the caller that
\* did not wait any longer (_patched_send, _handle_request, stop).
THEOREM PaidAlwaysAnswered == FrontSpec => []PaidIsAnswered
<1>1. FrontInv => PaidIsAnswered
  BY PatchPaid, ProxyProperties DEF FrontInv, PaidIsAnswered, Patching
<1> QED  BY <1>1, FrontInvariant, PTL

\* A patched call that waits is never behind a call that can neither go on nor
\* give up, with any number of calls of any kinds (_get_initialized_middleware,
\* _run_async_payment).
THEOREM WaitsAlwaysEnd == FrontSpec => []EveryWaitEnds
<1>1. FrontInv => EveryWaitEnds
  BY PatchWaits DEF FrontInv, EveryWaitEnds, Patching
<1> QED  BY <1>1, FrontInvariant, PTL
=============================================================================
