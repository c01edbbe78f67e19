-------------------------- MODULE SolanaPay_proofs --------------------------
(***************************************************************************)
(* For any number of payments, retries and balance queries over one        *)
(* adapter: a payment lands once at most, what its caller and its seller   *)
(* are told of it is honest, and none is given up while an attempt is due. *)
(***************************************************************************)
EXTENDS SolanaPay, SumTheorems

Signing == {"idle", "ata", "blockhash", "blockhash_backup"}

\* A payment signs when it has its blockhash, once; only that transaction is
\* ever known to the cluster.
SignsOnce(p) ==
  /\ signed[p] \in {0, 1}
  /\ pc[p] \in Signing => signed[p] = 0
  /\ pc[p] \notin Signing \cup {"failed"} => signed[p] = 1
  /\ pc[p] \notin Loops \cup Finals => calling[p] = 0
  /\ \A n \in 1..MaxSigns : n # signed[p] => chain[<<p, n>>] = "none"

Honest(p) ==
  /\ pc[p] \in {"confirm", "unconfirmed"} => chain[Tx(p)] # "none"
  /\ pc[p] = "confirmed" => chain[Tx(p)] \in {"landed", "rejected"}
  /\ pc[p] = "rejected"  => chain[Tx(p)] = "rejected"
  /\ pc[p] = "failed" /\ signed[p] > 0 /\ chain[Tx(p)] # "none" => p \in lost
  /\ verdict[p] # "none" => pc[p] \in {"confirmed", "unconfirmed"}
  /\ verdict[p] = "paid" => chain[Tx(p)] = "landed"

SendsOf(p) == SumFunctionOnSet(tried[p], 0..LastIndex)
Calling(p) == IF calling[p] = 0 THEN 0 ELSE 1

\* The history of a payment's attempts keeps up with its loop; its call in
\* flight is at the endpoint the client is on, or another failover was between.
Attempts(p) ==
  /\ pc[p] = "send" => SendsOf(p) >= tries[p] + Calling(p)
  /\ pc[p] = "send_backup" => SendsOf(p) >= MaxRetries + 1
  /\ pc[p] = "send_backup" /\ p \notin overtaken => client.endpoint = LastIndex
  /\ Sending(p) /\ calling[p] # 0 /\ p \notin overtaken => tried[p][client.endpoint] > 0
  /\ pc[p] = "failed" /\ signed[p] > 0 =>
       /\ SendsOf(p) >= MaxRetries + 1
       /\ tried[p][LastIndex] > 0 \/ p \in overtaken

IInv ==
  /\ TypeOK
  /\ IndexIsBehind
  /\ \A p \in Pays : SignsOnce(p) /\ Honest(p) /\ Attempts(p)

LEMMA Bounds ==
  /\ LastIndex \in {0, 1} /\ MaxRetries \in Nat /\ MaxQueries \in Nat
  /\ MaxSigns \in Nat \ {0} /\ 1 \in 1..MaxSigns
  BY BoundAssumption, IndexAssumption

-----------------------------------------------------------------------------
(* Type correctness.                                                       *)

LEMMA InitType == Init => TypeOK
  BY Bounds DEF Init, TypeOK, Places, Results

LEMMA FailoverType ==
  ASSUME TypeOK, NEW users \in SUBSET Pays, Failover(users)
  PROVE  /\ index' \in 0..LastIndex
         /\ client' \in [number : Nat \ {0}, endpoint : 0..LastIndex]
         /\ client'.number = client.number + 1 /\ client'.endpoint = index'
         /\ \A c \in 0..client.number : c \in 0..client'.number
         /\ overtaken' = overtaken \cup users /\ overtaken' \subseteq Pays
         /\ index' = LastIndex
<1>1. client.number \in Nat \ {0} /\ index \in 0..LastIndex
  BY DEF TypeOK
<1>2. client' = [number |-> client.number + 1, endpoint |-> index + 1]
      /\ index' = index + 1 /\ index < LastIndex
  BY DEF Failover, Reconnect, CanFailover
<1>. QED  BY <1>1, <1>2, Bounds DEF TypeOK, Failover

LEMMA StepType ==
  ASSUME IInv, [Next]_vars
  PROVE  TypeOK'
<1>. USE DEF IInv, link, told
<1>0. TypeOK
  OBVIOUS
<1>1. ASSUME NEW p \in Pays, Start(p) \/ CheckAta(p) \/ Confirm(p) PROVE TypeOK'
  BY <1>1 DEF Start, CheckAta, Confirm, Goto, TypeOK, Places, Loops, Finals, Results
<1>2. ASSUME NEW p \in Pays, Call(p) PROVE TypeOK'
  <2>1. calling' \in [Pays -> 0..client.number]
    BY <1>2 DEF Call, TypeOK
  <2>2. tried' \in [Pays -> [0..LastIndex -> Nat]]
    <3>. DEFINE e == client.endpoint
                S == 0..LastIndex
    <3>1. e \in S /\ tried \in [Pays -> [S -> Nat]]
      BY DEF TypeOK
    <3>2. tried' = IF Sending(p) THEN [tried EXCEPT ![p] = [tried[p] EXCEPT ![e] = @ + 1]]
                                 ELSE tried
      BY <1>2 DEF Call
    <3>. HIDE DEF e, S
    <3>3. tried[p] \in [S -> Nat] /\ tried[p][e] \in Nat
      BY <3>1
    <3>4. [tried[p] EXCEPT ![e] = @ + 1] \in [S -> Nat]
      BY <3>1, <3>3
    <3>5. tried' \in [Pays -> [S -> Nat]]
      BY <3>1, <3>2, <3>4
    <3>. QED  BY <3>5 DEF S
  <2>. QED  BY <1>2, <2>1, <2>2 DEF Call, TypeOK
<1>3. ASSUME NEW p \in Pays, GotBlockhash(p) PROVE TypeOK'
  <2>1. signed[p] = 0
    BY <1>3 DEF GotBlockhash, SignsOnce, Signing
  <2>2. signed' \in [Pays -> 0..MaxSigns]
    BY <1>3, <2>1, Bounds DEF GotBlockhash, TypeOK
  <2>3. tries' \in [Pays -> 0..MaxRetries] /\ calling' \in [Pays -> 0..client.number]
    BY <1>3, Bounds DEF GotBlockhash, TypeOK
  <2>. QED  BY <1>3, <2>2, <2>3 DEF GotBlockhash, Goto, TypeOK, Places, Loops
<1>4. ASSUME NEW p \in Pays, Sent(p) PROVE TypeOK'
  <2>1. calling' \in [Pays -> 0..client.number] /\ index' \in 0..LastIndex
    BY <1>4, Bounds DEF Sent, TypeOK
  <2>. QED  BY <1>4, <2>1 DEF Sent, Goto, TypeOK, Places
<1>5. ASSUME NEW p \in Pays, AttemptFails(p) PROVE TypeOK'
  <2>1. calling' \in [Pays -> 0..client.number] /\ lost' \subseteq Pays
    BY <1>5 DEF AttemptFails, CallLost, TypeOK
  <2>2. tries' \in [Pays -> 0..MaxRetries]
    BY <1>5, Bounds DEF AttemptFails, TypeOK
  <2>. QED  BY <1>5, <2>1, <2>2 DEF AttemptFails, TypeOK
<1>6. ASSUME NEW p \in Pays, LoopFails(p) PROVE TypeOK'
  <2>1. Failover(Users \ {p}) /\ Users \ {p} \in SUBSET Pays
    BY <1>6 DEF LoopFails, Users
  <2>2. /\ index' \in 0..LastIndex
        /\ client' \in [number : Nat \ {0}, endpoint : 0..LastIndex]
        /\ \A c \in 0..client.number : c \in 0..client'.number
        /\ overtaken' \subseteq Pays
    BY <2>1, <1>0, FailoverType
  <2>3. calling' \in [Pays -> 0..client'.number] /\ lost' \subseteq Pays
    <3>1. calling' \in [Pays -> 0..client.number]
      BY <1>6 DEF LoopFails, CallLost, TypeOK
    <3>. QED  BY <1>6, <2>2, <3>1 DEF LoopFails, CallLost, TypeOK
  <2>4. pc' \in [Pays -> Places]
    BY <1>6 DEF LoopFails, Goto, Final, TypeOK, Places, Finals
  <2>. QED  BY <1>6, <2>2, <2>3, <2>4 DEF LoopFails, TypeOK
<1>7. ASSUME NEW p \in Pays, GivesUp(p) PROVE TypeOK'
  <2>1. calling' \in [Pays -> 0..client.number] /\ lost' \subseteq Pays
    BY <1>7 DEF GivesUp, CallLost, TypeOK
  <2>. QED  BY <1>7, <2>1 DEF GivesUp, Goto, TypeOK, Places, Results
<1>8. ASSUME NEW p \in Pays, Accept(p) \/ VerifyPayment(p) PROVE TypeOK'
  BY <1>8 DEF Accept, VerifyPayment, TypeOK
<1>9. ASSUME NEW t \in Txs, Execute(t) PROVE TypeOK'
  BY <1>9 DEF Execute, TypeOK
<1>10. CASE CheckBalance
  <2>1. Failover(Users) /\ Users \in SUBSET Pays
    BY <1>10 DEF CheckBalance, Users
  <2>2. /\ index' \in 0..LastIndex
        /\ client' \in [number : Nat \ {0}, endpoint : 0..LastIndex]
        /\ \A c \in 0..client.number : c \in 0..client'.number
        /\ overtaken' \subseteq Pays
    BY <2>1, <1>0, FailoverType
  <2>3. calling' \in [Pays -> 0..client'.number] /\ queries' \in 0..MaxQueries
    BY <1>10, <2>2, Bounds DEF CheckBalance, TypeOK
  <2>. QED  BY <1>10, <2>2, <2>3 DEF CheckBalance, TypeOK
<1>11. CASE UNCHANGED vars
  BY <1>11 DEF vars, TypeOK
<1>. QED
  BY <1>1, <1>2, <1>3, <1>4, <1>5, <1>6, <1>7, <1>8, <1>9, <1>10, <1>11 DEF Next, Step

-----------------------------------------------------------------------------
(* One signature, and what is reported of it.                              *)

LEMMA StepSigns ==
  ASSUME IInv, [Next]_vars, NEW q \in Pays
  PROVE  SignsOnce(q)'
<1>. USE DEF IInv, link, told
<1>0. TypeOK /\ SignsOnce(q) /\ \A p \in Pays : SignsOnce(p)
  OBVIOUS
<1>1. ASSUME NEW p \in Pays,
             Start(p) \/ CheckAta(p) \/ Confirm(p) \/ Call(p) \/ GotBlockhash(p) \/ Sent(p)
      PROVE  SignsOnce(q)'
  <2>. USE <1>0, Bounds DEF SignsOnce, Signing, TypeOK, Goto, Loops, Finals, Results
  <2>1. CASE Start(p)
    BY <2>1 DEF Start
  <2>5. CASE CheckAta(p)
    BY <2>5 DEF CheckAta
  <2>6. CASE Confirm(p)
    BY <2>6 DEF Confirm
  <2>2. CASE Call(p)
    BY <2>2 DEF Call
  <2>3. CASE GotBlockhash(p)
    BY <2>3 DEF GotBlockhash
  <2>4. CASE Sent(p)
    BY <2>4 DEF Sent, Sending
  <2>. QED  BY <1>1, <2>1, <2>2, <2>3, <2>4, <2>5, <2>6
<1>2. ASSUME NEW p \in Pays, AttemptFails(p) \/ LoopFails(p) \/ GivesUp(p)
      PROVE  SignsOnce(q)'
  BY <1>0, <1>2 DEF SignsOnce, Signing, TypeOK, Goto, Loops, Finals, AttemptFails,
     LoopFails, GivesUp, CallLost, Final
<1>3. ASSUME NEW p \in Pays, Accept(p)
      PROVE  SignsOnce(q)'
  <2>1. signed[p] = 1
    BY <1>0, <1>3 DEF Accept, Sending, SignsOnce, Signing
  <2>. QED  BY <1>0, <1>3, <2>1 DEF Accept, Tx, Txs, SignsOnce, TypeOK
<1>4. ASSUME NEW t \in Txs, Execute(t)
      PROVE  SignsOnce(q)'
  BY <1>0, <1>4 DEF Execute, Txs, SignsOnce, TypeOK
<1>5. ASSUME NEW p \in Pays, VerifyPayment(p)
      PROVE  SignsOnce(q)'
  BY <1>0, <1>5 DEF VerifyPayment, SignsOnce
<1>6. CASE CheckBalance \/ UNCHANGED vars
  BY <1>0, <1>6 DEF CheckBalance, vars, SignsOnce
<1>. QED  BY <1>1, <1>2, <1>3, <1>4, <1>5, <1>6 DEF Next, Step

\* What is reported of a payment does not change with the steps of others.
LEMMA HonestKept ==
  ASSUME NEW q \in Pays, SignsOnce(q), Honest(q), pc'[q] = pc[q], signed'[q] = signed[q],
         signed[q] = 1 => chain'[Tx(q)] = chain[Tx(q)], verdict'[q] = verdict[q], q \in lost => q \in lost'
  PROVE  Honest(q)'
<1>1. pc[q] \in {"confirm", "confirmed", "unconfirmed", "rejected"}
        \/ (pc[q] = "failed" /\ signed[q] > 0) => signed[q] = 1
  BY DEF SignsOnce, Signing
<1>2. Tx(q)' = Tx(q)
  BY DEF Tx
<1>. QED  BY <1>1, <1>2 DEF Honest

LEMMA TxIsTx ==
  ASSUME NEW q \in Pays, signed[q] = 1
  PROVE  Tx(q) \in Txs
  BY Bounds DEF Tx, Txs

LEMMA StepHonest ==
  ASSUME IInv, [Next]_vars, NEW q \in Pays
  PROVE  Honest(q)'
<1>. USE DEF link, told
<1>0. TypeOK /\ SignsOnce(q) /\ Honest(q)
  BY DEF IInv
<1>1. ASSUME NEW p \in Pays, Step(p) \/ Accept(p) \/ VerifyPayment(p), p # q
      PROVE  Honest(q)'
  <2>1. pc'[q] = pc[q] /\ signed'[q] = signed[q] /\ verdict'[q] = verdict[q]
        /\ (q \in lost => q \in lost')
    BY <1>0, <1>1 DEF Step, Start, CheckAta, Call, GotBlockhash, Sent, AttemptFails,
       LoopFails, GivesUp, Confirm, Accept, VerifyPayment, CallLost, Goto, TypeOK
  <2>2. chain' = chain \/ chain' = [chain EXCEPT ![Tx(p)] = "accepted"]
    BY <1>1 DEF Step, Start, CheckAta, Call, GotBlockhash, Sent, AttemptFails,
       LoopFails, GivesUp, Confirm, Accept, VerifyPayment
  <2>3. signed[q] = 1 => chain'[Tx(q)] = chain[Tx(q)]
    <3>1. Tx(p) # Tx(q)
      BY <1>1 DEF Tx
    <3>. QED  BY <1>0, <2>2, <3>1, TxIsTx DEF TypeOK
  <2>. QED  BY <1>0, <2>1, <2>3, HonestKept
<1>2. CASE Start(q) \/ CheckAta(q) \/ Confirm(q)
  <2>1. chain' = chain /\ signed' = signed /\ lost' = lost /\ verdict' = verdict
    BY <1>2 DEF Start, CheckAta, Confirm
  <2>2. \/ pc[q] \in {"idle", "ata"} /\ pc'[q] \in {"ata", "blockhash"}
        \/ /\ pc[q] = "confirm"
           /\ \/ pc'[q] = "confirmed" /\ chain[Tx(q)] \in {"landed", "rejected"}
              \/ pc'[q] = "rejected" /\ chain[Tx(q)] = "rejected"
              \/ pc'[q] = "unconfirmed"
    BY <1>0, <1>2 DEF Start, CheckAta, Confirm, Goto, TypeOK
  <2>. QED  BY <1>0, <2>1, <2>2 DEF Honest, Tx
<1>3. CASE Call(q)
  <2>1. /\ chain' = chain /\ signed' = signed /\ lost' = lost /\ verdict' = verdict
        /\ pc' = pc
    BY <1>3 DEF Call
  <2>. QED  BY <1>0, <2>1, HonestKept DEF Tx
<1>4. CASE GotBlockhash(q) \/ Sent(q)
  <2>1. chain' = chain /\ lost' = lost /\ verdict' = verdict
    BY <1>4 DEF GotBlockhash, Sent
  <2>2. \/ pc[q] \in {"blockhash", "blockhash_backup"} /\ pc'[q] = "send"
        \/ /\ pc[q] \in {"send", "send_backup"} /\ pc'[q] = "confirm"
           /\ signed' = signed /\ chain[Tx(q)] # "none"
    BY <1>0, <1>4 DEF GotBlockhash, Sent, Sending, Goto, TypeOK
  <2>. QED  BY <1>0, <2>1, <2>2 DEF Honest, Tx
<1>5. CASE AttemptFails(q) \/ LoopFails(q)
  <2>1. chain' = chain /\ signed' = signed /\ verdict' = verdict
    BY <1>5 DEF AttemptFails, LoopFails
  <2>2. pc[q] \in Loops /\ pc'[q] \in Loops \cup Finals
    BY <1>0, <1>5 DEF AttemptFails, LoopFails, Goto, Final, TypeOK, Loops, Finals
  <2>. QED  BY <1>0, <2>1, <2>2 DEF Honest, Tx, Loops, Finals
<1>6. CASE GivesUp(q)
  <2>1. chain' = chain /\ signed' = signed /\ verdict' = verdict
    BY <1>6 DEF GivesUp
  <2>2. pc[q] \in Loops \cup Finals /\ pc'[q] = "failed"
    BY <1>0, <1>6 DEF GivesUp, Goto, TypeOK
  <2>3. signed[q] > 0 /\ chain[Tx(q)] # "none" => q \in lost'
    BY <1>0, <1>6, <2>2 DEF GivesUp, CallLost, Sending, SignsOnce, Signing, Loops, Finals
  <2>. QED  BY <1>0, <2>1, <2>2, <2>3 DEF Honest, Tx, Loops, Finals
<1>7. CASE Accept(q)
  BY <1>0, <1>7 DEF Accept, Sending, Honest, Tx, TypeOK
<1>8. ASSUME NEW t \in Txs, Execute(t)
      PROVE  Honest(q)'
  <2>1. /\ pc' = pc /\ signed' = signed /\ lost' = lost /\ verdict' = verdict
        /\ Tx(q)' = Tx(q)
    BY <1>8 DEF Execute, Tx
  <2>2. signed[q] = 1 =>
          \/ chain'[Tx(q)] = chain[Tx(q)]
          \/ chain[Tx(q)] = "accepted" /\ chain'[Tx(q)] \in {"landed", "rejected"}
    BY <1>0, <1>8, TxIsTx DEF Execute, TypeOK
  <2>3. pc[q] \in {"confirm", "confirmed", "unconfirmed", "rejected"}
          \/ (pc[q] = "failed" /\ signed[q] > 0) => signed[q] = 1
    BY <1>0 DEF SignsOnce, Signing
  <2>. QED  BY <1>0, <2>1, <2>2, <2>3 DEF Honest
<1>9. CASE VerifyPayment(q)
  BY <1>0, <1>9 DEF VerifyPayment, ShowsTransfer, Honest, Tx, TypeOK
<1>10. CASE CheckBalance \/ UNCHANGED vars
  BY <1>0, <1>10 DEF CheckBalance, vars, Honest, Tx
<1>. QED
  BY <1>1, <1>2, <1>3, <1>4, <1>5, <1>6, <1>7, <1>8, <1>9, <1>10 DEF Next, Step

-----------------------------------------------------------------------------
(* The history of the attempts.                                            *)

LEMMA AttemptsType ==
  ASSUME TypeOK, NEW q \in Pays
  PROVE  /\ SendsOf(q) \in Nat /\ Calling(q) \in {0, 1} /\ tries[q] \in 0..MaxRetries
         /\ client.endpoint \in 0..LastIndex /\ index \in 0..LastIndex
         /\ \A e \in 0..LastIndex : tried[q][e] \in Nat
<1>1. tried[q] \in [0..LastIndex -> Nat]
  BY DEF TypeOK
<1>2. \A e \in 0..LastIndex : tried[q][e] \in Nat
  BY <1>1
<1>3. IsFiniteSet(0..LastIndex)
  BY Bounds, FS_Interval
<1>. DEFINE f == tried[q]
            S == 0..LastIndex
<1>4. SumFunctionOnSet(f, S) \in Nat
  <2>. HIDE DEF f, S
  <2>1. IsFiniteSet(S) /\ \A x \in S : f[x] \in Nat
    BY <1>2, <1>3 DEF f, S
  <2>. QED  BY <2>1, SumNat
<1>. QED  BY <1>2, <1>4 DEF SendsOf, Calling, TypeOK

\* An attempt to send is counted at one endpoint.
LEMMA CallIsCounted ==
  ASSUME TypeOK, NEW q \in Pays, Sending(q), Call(q)
  PROVE  /\ SendsOf(q)' = SendsOf(q) + 1
         /\ tried'[q][client.endpoint] > 0
<1>. DEFINE e == client.endpoint
            f == tried[q]
            g == tried'[q]
            S == 0..LastIndex
<1>1. e \in S /\ IsFiniteSet(S) /\ \A x \in S : f[x] \in Nat
  <2>1. IsFiniteSet(S)
    BY Bounds, FS_Interval
  <2>2. e \in S /\ \A x \in S : f[x] \in Nat
    BY AttemptsType
  <2>. QED  BY <2>1, <2>2
<1>2. g = [f EXCEPT ![e] = f[e] + 1] /\ f \in [S -> Nat]
  BY DEF Call, TypeOK
<1>. HIDE DEF e, f, g, S
<1>3. g[e] = f[e] + 1 /\ \A x \in S \ {e} : f[x] = g[x]
  BY <1>1, <1>2
<1>4. \A x \in S : f[x] \in Int /\ g[x] \in Int
  BY <1>1, <1>3
<1>5. SumFunctionOnSet(g, S) = SumFunctionOnSet(f, S) - f[e] + g[e]
  BY <1>1, <1>3, <1>4, SumChange
<1>6. SumFunctionOnSet(f, S) \in Int /\ f[e] \in Nat
  BY <1>1, <1>4, SumInt
<1>7. SumFunctionOnSet(g, S) = SumFunctionOnSet(f, S) + 1 /\ g[e] > 0
  BY <1>3, <1>5, <1>6
<1>. QED  BY <1>7 DEF SendsOf, e, f, g, S

LEMMA AttemptsKept ==
  ASSUME NEW q \in Pays, SignsOnce(q), Attempts(q), pc'[q] = pc[q], tries'[q] = tries[q],
         calling'[q] = calling[q], signed'[q] = signed[q], tried'[q] = tried[q],
         \/ client' = client /\ overtaken' = overtaken
         \/ q \in overtaken'
         \/ pc[q] \in Results \cup {"idle"} /\ (q \in overtaken => q \in overtaken')
  PROVE  Attempts(q)'
  BY DEF Attempts, SendsOf, Calling, Sending, Results, Loops, Finals

LEMMA StepAttempts ==
  ASSUME IInv, [Next]_vars, NEW q \in Pays
  PROVE  Attempts(q)' /\ IndexIsBehind'
<1>. USE DEF link, told
<1>0. TypeOK /\ SignsOnce(q) /\ Attempts(q) /\ IndexIsBehind
  BY DEF IInv
<1>1. ASSUME NEW p \in Pays,
             Start(p) \/ CheckAta(p) \/ Call(p) \/ GotBlockhash(p) \/ Sent(p)
               \/ AttemptFails(p) \/ GivesUp(p) \/ Confirm(p), p # q
      PROVE  Attempts(q)' /\ IndexIsBehind'
  <2>1. /\ pc'[q] = pc[q] /\ tries'[q] = tries[q] /\ calling'[q] = calling[q]
        /\ signed'[q] = signed[q] /\ tried'[q] = tried[q]
        /\ client' = client /\ overtaken' = overtaken /\ index' \in {index, 0}
    BY <1>0, <1>1 DEF Start, CheckAta, Call, GotBlockhash, Sent, AttemptFails,
       GivesUp, Confirm, CallLost, Goto, TypeOK
  <2>. QED  BY <1>0, <2>1, AttemptsKept DEF IndexIsBehind
<1>2. ASSUME NEW users \in SUBSET Pays, Failover(users)
      PROVE  IndexIsBehind' /\ client'.endpoint = LastIndex
             /\ overtaken' = overtaken \cup users
  BY <1>0, <1>2, FailoverType DEF IndexIsBehind
<1>3. ASSUME NEW p \in Pays, LoopFails(p), p # q
      PROVE  Attempts(q)' /\ IndexIsBehind'
  <2>1. /\ pc'[q] = pc[q] /\ tries'[q] = tries[q] /\ calling'[q] = calling[q]
        /\ signed'[q] = signed[q] /\ tried'[q] = tried[q]
    BY <1>0, <1>3 DEF LoopFails, CallLost, Goto, TypeOK
  <2>2. Failover(Users \ {p}) /\ Users \ {p} \in SUBSET Pays
    BY <1>3 DEF LoopFails, Users
  <2>3. q \in Users \ {p} \/ pc[q] \in Results \cup {"idle"}
    BY <1>3 DEF Users
  <2>. QED  BY <1>0, <1>2, <2>1, <2>2, <2>3, AttemptsKept
<1>4. CASE CheckBalance
  <2>1. Failover(Users) /\ Users \in SUBSET Pays
    BY <1>4 DEF CheckBalance, Users
  <2>2. q \in Users \/ pc[q] \in Results \cup {"idle"}
    BY DEF Users
  <2>. QED  BY <1>0, <1>2, <1>4, <2>1, <2>2, AttemptsKept DEF CheckBalance
<1>5. CASE Start(q) \/ CheckAta(q) \/ Confirm(q) \/ GotBlockhash(q)
  <2>1. /\ client' = client /\ overtaken' = overtaken /\ index' = index /\ tried' = tried
        /\ pc'[q] \in {"ata", "blockhash", "send", "confirmed", "rejected", "unconfirmed"}
        /\ pc'[q] = "send" => tries'[q] = 0 /\ calling'[q] = 0
    BY <1>0, <1>5 DEF Start, CheckAta, Confirm, GotBlockhash, Goto, TypeOK
  <2>2. SendsOf(q)' = SendsOf(q) /\ SendsOf(q) \in Nat
    BY <1>0, <2>1, AttemptsType DEF SendsOf
  <2>. QED
    BY <1>0, <2>1, <2>2, Bounds DEF Attempts, Calling, Sending, IndexIsBehind
<1>6. CASE Call(q)
  <2>1. /\ client' = client /\ overtaken' = overtaken /\ index' = index
        /\ pc' = pc /\ tries' = tries /\ signed' = signed
        /\ calling[q] = 0 /\ calling'[q] # 0
    BY <1>0, <1>6 DEF Call, TypeOK
  <2>2. CASE Sending(q)
    <3>1. SendsOf(q)' = SendsOf(q) + 1 /\ tried'[q][client.endpoint] > 0
      BY <1>0, <1>6, <2>2, CallIsCounted
    <3>. QED
      BY <1>0, <2>1, <2>2, <3>1, AttemptsType, Bounds
         DEF Attempts, Calling, Sending, IndexIsBehind
  <2>3. CASE ~Sending(q)
    <3>1. tried' = tried /\ pc[q] # "failed"
      BY <1>6, <2>3 DEF Call, Loops, Finals
    <3>. QED  BY <1>0, <2>1, <2>3, <3>1 DEF Attempts, Sending, IndexIsBehind
  <2>. QED  BY <2>2, <2>3
<1>7. CASE Sent(q)
  <2>1. /\ client' = client /\ overtaken' = overtaken /\ index' = 0
        /\ pc'[q] = "confirm"
    BY <1>0, <1>7 DEF Sent, Goto, TypeOK
  <2>. QED  BY <2>1 DEF Attempts, Sending, IndexIsBehind
<1>8. CASE AttemptFails(q)
  <2>1. /\ client' = client /\ overtaken' = overtaken /\ index' = index /\ pc' = pc
        /\ tried' = tried /\ signed' = signed /\ pc[q] \in Loops
        /\ calling[q] # 0 /\ calling'[q] = 0 /\ tries'[q] = tries[q] + 1
    BY <1>0, <1>8 DEF AttemptFails, CallLost, TypeOK
  <2>2. SendsOf(q)' = SendsOf(q) /\ SendsOf(q) \in Nat
    BY <1>0, <2>1, AttemptsType DEF SendsOf
  <2>. QED
    BY <1>0, <2>1, <2>2, AttemptsType, Bounds
       DEF Attempts, Calling, Sending, Loops, IndexIsBehind
<1>9. CASE LoopFails(q)
  <2>1. Failover(Users \ {q}) /\ Users \ {q} \in SUBSET Pays
    BY <1>9 DEF LoopFails, Users
  <2>2. /\ tried' = tried /\ signed' = signed /\ tries[q] = MaxRetries
        /\ calling[q] # 0 /\ calling'[q] = 0
        /\ \/ pc[q] = "blockhash" /\ pc'[q] = "blockhash_backup"
           \/ pc[q] = "send" /\ pc'[q] = "send_backup"
    BY <1>0, <1>9 DEF LoopFails, CallLost, Goto, Final, Loops, TypeOK
  <2>3. SendsOf(q)' = SendsOf(q) /\ SendsOf(q) \in Nat
    BY <1>0, <2>2, AttemptsType DEF SendsOf
  <2>. QED
    BY <1>0, <1>2, <2>1, <2>2, <2>3, AttemptsType, Bounds DEF Attempts, Calling, Sending
<1>10. CASE GivesUp(q)
  <2>1. /\ tried' = tried /\ signed' = signed /\ client' = client /\ index' = index
        /\ overtaken' = overtaken /\ pc'[q] = "failed" /\ calling[q] # 0
        /\ \/ pc[q] \in Loops /\ tries[q] = MaxRetries /\ index >= LastIndex
           \/ pc[q] \in Finals
    BY <1>0, <1>10, AttemptsType, Bounds
       DEF GivesUp, CallLost, Goto, CanFailover, TypeOK
  <2>2. SendsOf(q)' = SendsOf(q) /\ SendsOf(q) \in Nat
    BY <1>0, <2>1, AttemptsType DEF SendsOf
  <2>3. CASE signed[q] = 0
    BY <1>0, <2>1, <2>3 DEF Attempts, Sending, IndexIsBehind
  <2>4. CASE signed[q] # 0
    <3>1. pc[q] \in {"send", "send_backup"}
      BY <1>0, <2>1, <2>4 DEF SignsOnce, Signing, Loops, Finals
    <3>2. pc[q] = "send" => client.endpoint = LastIndex
      BY <1>0, <2>1, AttemptsType, Bounds DEF IndexIsBehind, Finals
    <3>3. SendsOf(q) >= MaxRetries + 1
      BY <1>0, <2>1, <2>2, <3>1, Bounds DEF Attempts, Calling, Finals
    <3>4. tried[q][LastIndex] > 0 \/ q \in overtaken
      BY <1>0, <2>1, <3>1, <3>2 DEF Attempts, Sending
    <3>. QED
      BY <1>0, <2>1, <2>2, <3>3, <3>4 DEF Attempts, Sending, IndexIsBehind
  <2>. QED  BY <2>3, <2>4
<1>11. CASE \/ \E p \in Pays : Accept(p) \/ VerifyPayment(p)
            \/ \E t \in Txs : Execute(t)
            \/ UNCHANGED vars
  <2>1. UNCHANGED <<pc, tries, calling, signed, index, client, tried, overtaken>>
    BY <1>11 DEF Accept, VerifyPayment, Execute, vars
  <2>. QED  BY <1>0, <2>1, AttemptsKept DEF IndexIsBehind
<1>. QED
  BY <1>1, <1>3, <1>4, <1>5, <1>6, <1>7, <1>8, <1>9, <1>10, <1>11 DEF Next, Step

-----------------------------------------------------------------------------
(* The inductive invariant, and what it says.                              *)

LEMMA InitIInv == Init => IInv
<1>. SUFFICES ASSUME Init PROVE IInv
  OBVIOUS
<1>1. TypeOK
  BY InitType
<1>2. IndexIsBehind
  BY DEF Init, IndexIsBehind
<1>3. ASSUME NEW p \in Pays PROVE SignsOnce(p) /\ Honest(p) /\ Attempts(p)
  BY <1>3 DEF Init, SignsOnce, Honest, Attempts, Sending, Signing, Loops, Finals, Txs
<1>. QED  BY <1>1, <1>2, <1>3 DEF IInv

LEMMA StepIInv == IInv /\ [Next]_vars => IInv'
<1>. SUFFICES ASSUME IInv, [Next]_vars PROVE IInv'
  OBVIOUS
<1>1. TypeOK'
  BY StepType
<1>2. IndexIsBehind'
  <2>1. CASE Pays = {}
    <3>1. CheckBalance \/ UNCHANGED vars
      BY <2>1 DEF Next, Txs
    <3>. QED
      BY <3>1, FailoverType DEF IInv, CheckBalance, vars, link, Users, IndexIsBehind
  <2>2. CASE Pays # {}
    BY <2>2, StepAttempts
  <2>. QED  BY <2>1, <2>2
<1>3. \A p \in Pays : SignsOnce(p)' /\ Honest(p)' /\ Attempts(p)'
  BY StepSigns, StepHonest, StepAttempts
<1>. QED  BY <1>1, <1>2, <1>3 DEF IInv

\* The inductive invariant holds in every behaviour.
THEOREM SpecIInv == Spec => []IInv
<1>. QED  BY InitIInv, StepIInv, PTL DEF Spec

\* At most one transaction of a payment is ever taken by the cluster, however often
\* and over whatever endpoints it is sent, and what pay reports of it and what the
\* seller finds is as true as the answers allow (solana_adapter.py:266-390).
THEOREM PayIsHonest == Spec => []PaymentIsHonest
<1>1. ASSUME IInv PROVE LandsAtMostOnce
  <2>1. ASSUME NEW p \in Pays
        PROVE  Cardinality({t \in Txs : t[1] = p /\ chain[t] \in {"accepted", "landed"}}) <= 1
    <3>. DEFINE taken == {t \in Txs : t[1] = p /\ chain[t] \in {"accepted", "landed"}}
    <3>1. taken \in SUBSET {<<p, 1>>}
      BY <1>1 DEF IInv, SignsOnce, Txs
    <3>. HIDE DEF taken
    <3>2. IsFiniteSet({<<p, 1>>}) /\ Cardinality({<<p, 1>>}) = 1
      BY FS_Singleton
    <3>3. Cardinality(taken) <= Cardinality({<<p, 1>>})
      BY <3>1, <3>2, FS_Subset
    <3>. QED  BY <3>2, <3>3 DEF taken
  <2>. QED  BY <2>1 DEF LandsAtMostOnce
<1>2. IInv => ReportIsHonest
  BY DEF IInv, Honest, ReportIsHonest
<1>. QED  BY <1>1, <1>2, SpecIInv, PTL DEF PaymentIsHonest

\* A signed payment is given up only after every attempt of its loop and one on the
\* backup, or after another's failover took the client from under it, and the
\* endpoint index never names a stranger (solana_adapter.py:318-330).
THEOREM NothingGivenUpEarly == Spec => []EndpointsAreTried
<1>1. IInv => EndpointsAreTried
  BY DEF IInv, Attempts, SendsOf, EndpointsAreTried, GivesUpExhausted
<1>. QED  BY <1>1, SpecIInv, PTL
=============================================================================
