--------------------------- MODULE TsFetch_proofs ---------------------------
(***************************************************************************)
(* For any number of calls, instances, offers and deposits: what the       *)
(* wallet is short of is what its instances account for, overlapping calls *)
(* overspend by no more than their own prices, and the wallet and the      *)
(* cluster disagree about a payment only for a named reason.               *)
(***************************************************************************)
EXTENDS TsFetch, SumTheorems

\* What a call's place implies for its transaction, its provider and its transfer.
CallInv(c) ==
  /\ pc[c] \in {"idle", "requesting"} => /\ tx[c] = "none" /\ job[c] = "none"
                                         /\ chain[c] = "absent"
  /\ pc[c] = "paying" => /\ tx[c] = "open" /\ job[c] \notin {"none", "resolved", "thrown"}
                         /\ \E o \in Offers : offer[c] = {o} /\ o.price <= MaxAmountPerCall
  /\ pc[c] = "retrying" => tx[c] = "open"
  /\ tx[c] = "open" /\ pc[c] # "paying" => job[c] = "resolved"
  /\ job[c] = "resolved" /\ InstanceOf[c] \in Solana => chain[c] = "landed"
  /\ job[c] = "mock" => InstanceOf[c] \notin Solana
  /\ job[c] \in {"mock", "invalid"} => pc[c] = "paying"
  /\ job[c] \in {"none", "mock", "invalid", "preparing", "sending"} => chain[c] = "absent"

\* A rollback has a cause, and the transfer cannot land after some of them.
CauseInv(c) ==
  /\ tx[c] = "undone" => cause[c] # "none"
  /\ cause[c] \in {"refused", "unprepared"} => job[c] = "thrown" /\ chain[c] = "absent"
  /\ cause[c] = "failed_on_chain" => chain[c] = "failed"

IInv ==
  /\ TypeOK
  /\ \A c \in Calls : CallInv(c) /\ CauseInv(c)
  /\ WalletMatchesSpending
  /\ OverspendIsBounded

-----------------------------------------------------------------------------
(* Amounts.                                                                *)

LEMMA MicroNat ==
  ASSUME NEW p \in Nat
  PROVE  Micro(p) \in Nat
  BY DEF Micro

LEMMA MicroMonotone ==
  ASSUME NEW p \in Nat, NEW q \in Nat, p <= q
  PROVE  Micro(p) <= Micro(q)
  BY DEF Micro

\* More payments in flight, no less to overspend by.
LEMMA TimesMonotone ==
  ASSUME NEW a \in Nat, NEW b \in Nat, NEW m \in Nat, a <= b
  PROVE  a * m \in Nat /\ b * m \in Nat /\ a * m <= b * m
  OBVIOUS

\* The provider's stages by name.
LEMMA StageNames ==
  /\ Jobs = {"none", "mock", "invalid", "resolved", "thrown", "preparing", "sending",
             "confirming"}
  /\ Stages[1] = "preparing" /\ Stages[2] = "sending" /\ Stages[3] = "confirming"
  /\ 1 .. Len(Stages) - 1 = {1, 2}
<1>1. {Stages[s] : s \in DOMAIN Stages} = {"preparing", "sending", "confirming"}
  BY DEF Stages
<1>. QED  BY <1>1 DEF Stages, Jobs

LEMMA AdvanceByName ==
  ASSUME NEW c \in Calls, Advance(c)
  PROVE  \/ /\ job[c] = "preparing" /\ job' = [job EXCEPT ![c] = "sending"]
            /\ chain' = [chain EXCEPT ![c] = chain[c]]
         \/ /\ job[c] = "sending" /\ job' = [job EXCEPT ![c] = "confirming"]
            /\ chain' = [chain EXCEPT ![c] = "pending"]
<1>1. PICK s \in {1, 2} :
        /\ job[c] = Stages[s]
        /\ job' = [job EXCEPT ![c] = Stages[s + 1]]
        /\ chain' = [chain EXCEPT ![c] = IF Stages[s] = "sending" THEN "pending" ELSE chain[c]]
  BY StageNames DEF Advance
<1>2. CASE s = 1
  <2>1. s + 1 = 2
    BY <1>2
  <2>. QED  BY <1>1, <1>2, <2>1, StageNames
<1>3. CASE s = 2
  <2>1. s + 1 = 3
    BY <1>3
  <2>. QED  BY <1>1, <1>3, <2>1, StageNames
<1>. QED  BY <1>2, <1>3

LEMMA CostType ==
  ASSUME TypeOK, NEW c \in Calls
  PROVE  Price(c) \in Nat /\ Cost(c) \in Nat
<1>1. Price(c) \in Nat
  <2>1. CASE offer[c] = {}
    BY <2>1 DEF Price
  <2>2. CASE offer[c] # {}
    <3>1. (CHOOSE o \in offer[c] : TRUE) \in offer[c]
      BY <2>2
    <3>. QED  BY <2>2, <3>1, OffersAssumption DEF TypeOK, Price
  <2>. QED  BY <2>1, <2>2
<1>. QED  BY <1>1, MicroNat DEF Cost

\* The same after a step.
LEMMA CostTypeNext ==
  ASSUME TypeOK', NEW c \in Calls
  PROVE  Cost(c)' \in Nat
<1>1. Price(c)' \in Nat
  <2>1. CASE offer'[c] = {}
    BY <2>1 DEF Price
  <2>2. CASE offer'[c] # {}
    <3>1. (CHOOSE o \in offer'[c] : TRUE) \in offer'[c]
      BY <2>2
    <3>. QED  BY <2>2, <3>1, OffersAssumption DEF TypeOK, Price
  <2>. QED  BY <2>1, <2>2
<1>. QED  BY <1>1, MicroNat DEF Cost

LEMMA OfferPrice ==
  ASSUME NEW c \in Calls, NEW o, offer[c] = {o}
  PROVE  Price(c) = o.price /\ Cost(c) = Micro(o.price)
<1>1. (CHOOSE x \in {o} : TRUE) = o
  OBVIOUS
<1>. QED  BY <1>1 DEF Price, Cost

LEMMA CostIsBounded ==
  ASSUME IInv, NEW c \in Calls, pc[c] = "paying"
  PROVE  Cost(c) <= Micro(MaxAmountPerCall)
<1>1. PICK o \in Offers : offer[c] = {o} /\ o.price <= MaxAmountPerCall
  BY DEF IInv, CallInv
<1>. QED  BY <1>1, OfferPrice, MicroMonotone, OffersAssumption, ConfigAssumption

-----------------------------------------------------------------------------
(* Type correctness.                                                       *)

LEMMA FlightIsFinite ==
  ASSUME NEW i
  PROVE  /\ InFlight(i) \in SUBSET Calls /\ IsFiniteSet(InFlight(i))
         /\ Cardinality(InFlight(i)) \in Nat
<1>1. InFlight(i) \in SUBSET Calls
  BY DEF InFlight
<1>2. IsFiniteSet(InFlight(i))
  BY <1>1, CallsAssumption, FS_Subset
<1>. QED  BY <1>1, <1>2, FS_CardinalityType

\* The greatest number in flight, after a payment begins.
LEMMA PeakGrows ==
  ASSUME NEW a \in Nat, NEW b \in Nat
  PROVE  /\ Max({a, b}) \in {a, b}
         /\ a <= Max({a, b}) /\ b <= Max({a, b})
<1>1. \E x \in {a, b} : \A y \in {a, b} : x >= y
  OBVIOUS
<1>2. /\ Max({a, b}) \in {a, b}
      /\ \A y \in {a, b} : Max({a, b}) >= y
  BY <1>1 DEF Max
<1>. QED  BY <1>2

LEMMA InitType == Init => TypeOK
<1>. SUFFICES ASSUME Init PROVE TypeOK
  OBVIOUS
<1>1. \A c \in Calls : Cardinality(offer[c]) <= 1
  BY FS_EmptySet DEF Init
<1>2. 1 \in 1 .. Cardinality(Calls)
  BY CallsAssumption, FS_EmptySet, FS_CardinalityType
<1>3. job \in [Calls -> Jobs]
  BY StageNames DEF Init
<1>. QED  BY <1>1, <1>2, <1>3, ConfigAssumption DEF Init, TypeOK

LEMMA PayType ==
  ASSUME IInv, NEW c \in Calls, NEW o \in Offers, Pay(c, o)
  PROVE  TypeOK'
<1>. DEFINE i == InstanceOf[c]
            n == Cardinality(InFlight(i))
<1>0. TypeOK /\ i \in Instances
  BY CallsAssumption DEF IInv
<1>1. balance' \in Nat
  BY <1>0, MicroNat, OffersAssumption DEF TypeOK, Pay, CanDeduct
<1>2. ASSUME NEW d \in Calls
      PROVE  Cardinality(offer'[d]) <= 1
  <2>1. Cardinality({o}) = 1
    BY FS_Singleton
  <2>2. offer'[d] \in {offer[d], {o}}
    BY <1>0 DEF TypeOK, Pay
  <2>3. Cardinality(offer[d]) <= 1
    BY <1>0 DEF TypeOK
  <2>4. CASE offer'[d] = offer[d]
    BY <2>3, <2>4
  <2>5. CASE offer'[d] = {o}
    BY <2>1, <2>5
  <2>. QED  BY <2>2, <2>4, <2>5
<1>3. n \in Nat /\ n + 1 <= Cardinality(Calls)
  <2>1. InFlight(i) \in SUBSET (Calls \ {c})
    BY DEF InFlight, Pay
  <2>2. IsFiniteSet(Calls \ {c}) /\ Cardinality(Calls \ {c}) = Cardinality(Calls) - 1
    BY CallsAssumption, FS_RemoveElement
  <2>3. n <= Cardinality(Calls \ {c}) /\ n \in Nat
    BY <2>1, <2>2, FS_Subset, FlightIsFinite
  <2>4. Cardinality(Calls) \in Nat
    BY CallsAssumption, FS_CardinalityType
  <2>. QED  BY <2>2, <2>3, <2>4
<1>4. peak' \in [Instances -> 1 .. Cardinality(Calls)]
  <2>1. peak[i] \in 1 .. Cardinality(Calls) /\ Cardinality(Calls) \in Nat
    BY <1>0, CallsAssumption, FS_CardinalityType DEF TypeOK
  <2>2. peak' = [peak EXCEPT ![i] = Max({peak[i], 1 + n})]
    BY DEF Pay
  <2>. HIDE DEF n, i
  <2>3. Max({peak[i], 1 + n}) \in 1 .. Cardinality(Calls)
    BY <1>3, <2>1, PeakGrows
  <2>. QED  BY <1>0, <2>2, <2>3 DEF TypeOK
<1>5. job' \in [Calls -> Jobs]
  <2>1. FirstStage(c, o) \in Jobs
    BY StageNames DEF FirstStage
  <2>. QED  BY <1>0, <2>1 DEF Pay, TypeOK
<1>6. offer' \in [Calls -> SUBSET Offers]
  BY <1>0 DEF Pay, TypeOK
<1>. QED  BY <1>0, <1>1, <1>2, <1>4, <1>5, <1>6 DEF TypeOK, Pay

LEMMA ThrownType ==
  ASSUME TypeOK, NEW c \in Calls, NEW why \in {"refused", "unprepared", "send_lost",
                          "confirm_lost", "failed_on_chain", "timeout"}, Thrown(c, why)
  PROVE  /\ balance' \in Nat
         /\ tx' \in [Calls -> {"none", "open", "undone"}]
         /\ pc' \in [Calls -> {"idle", "requesting", "paying", "retrying", "done"}]
         /\ meta' \in [Calls -> {"none", "passed", "raised", "blocked",
                         "failed", "served", "paid_unserved"}]
         /\ cause' \in [Calls -> {"none", "refused", "unprepared", "send_lost",
                          "confirm_lost", "failed_on_chain", "timeout"}]
<1>1. Cost(c) \in Nat
  BY CostType
<1>. QED  BY <1>1 DEF TypeOK, Thrown, Rollback, Tell

LEMMA StepType ==
  IInv /\ [Next]_vars => TypeOK'
<1>. SUFFICES ASSUME IInv, [Next]_vars PROVE TypeOK'
  OBVIOUS
<1>0. TypeOK
  BY DEF IInv
<1>1. ASSUME NEW c \in Calls, Request(c) \/ PassThrough(c) \/ Retry(c)
                                \/ (\E o \in Offers : Block(c, o))
      PROVE  TypeOK'
  BY <1>0, <1>1 DEF Request, PassThrough, Retry, Block, Tell, TypeOK
<1>2. ASSUME NEW c \in Calls, NEW o \in Offers, Pay(c, o) PROVE TypeOK'
  BY <1>2, PayType
<1>3. ASSUME NEW c \in Calls, Resolve(c) PROVE TypeOK'
  <2>1. InstanceOf[c] \in Instances /\ Cost(c) \in Nat
    BY <1>0, CallsAssumption, CostType
  <2>2. spent' \in [Instances -> Nat]
    BY <1>0, <1>3, <2>1 DEF Resolve, Settled, TypeOK
  <2>. QED  BY <1>0, <1>3, <2>2, StageNames DEF Resolve, Settled, TypeOK
<1>4. ASSUME NEW c \in Calls, Advance(c) \/ Execute(c) PROVE TypeOK'
  <2>1. CASE Execute(c)
    BY <1>0, <2>1 DEF Execute, TypeOK
  <2>2. CASE Advance(c)
    <3>1. UNCHANGED <<balance, tx, spent, pc, offer, meta, cause, deposited, peak>>
      BY <2>2 DEF Advance
    <3>2. job' \in [Calls -> Jobs]
      <4>1. "sending" \in Jobs /\ "confirming" \in Jobs
        BY StageNames
      <4>2. job \in [Calls -> Jobs]
        BY <1>0 DEF TypeOK
      <4>3. \E j \in Jobs : job' = [job EXCEPT ![c] = j]
        BY <2>2, <4>1, AdvanceByName
      <4>. QED  BY <4>2, <4>3
    <3>3. chain' \in [Calls -> {"absent", "pending", "landed", "failed", "expired"}]
      BY <1>0, <2>2, AdvanceByName DEF TypeOK
    <3>. QED  BY <1>0, <3>1, <3>2, <3>3 DEF TypeOK
  <2>. QED  BY <1>4, <2>1, <2>2
<1>5. ASSUME NEW c \in Calls,
             Refuse(c) \/ PrepareFails(c) \/ SendFails(c) \/ ConfirmThrows(c) \/ Timeout(c)
      PROVE  TypeOK'
  <2>1. PICK why \in {"refused", "unprepared", "send_lost", "confirm_lost",
                      "failed_on_chain", "timeout"} :
          /\ Thrown(c, why)
          /\ job' \in {job, [job EXCEPT ![c] = "thrown"]}
          /\ UNCHANGED <<spent, offer, deposited, peak>>
          /\ chain' = chain \/ \E s \in {"absent", "pending"} : chain' = [chain EXCEPT ![c] = s]
    BY <1>5 DEF Refuse, PrepareFails, SendFails, ConfirmThrows, Timeout, Throw
  <2>2. job' \in [Calls -> Jobs]
    BY <1>0, <2>1, StageNames DEF TypeOK
  <2>3. chain' \in [Calls -> {"absent", "pending", "landed", "failed", "expired"}]
    BY <1>0, <2>1 DEF TypeOK
  <2>4. /\ spent' \in [Instances -> Nat] /\ deposited' \subseteq Deposits
        /\ peak' \in [Instances -> 1 .. Cardinality(Calls)]
        /\ offer' \in [Calls -> SUBSET Offers]
        /\ \A d \in Calls : Cardinality(offer'[d]) <= 1
    BY <1>0, <2>1 DEF TypeOK
  <2>5. /\ balance' \in Nat
        /\ tx' \in [Calls -> {"none", "open", "undone"}]
        /\ pc' \in [Calls -> {"idle", "requesting", "paying", "retrying", "done"}]
        /\ meta' \in [Calls -> {"none", "passed", "raised", "blocked",
                        "failed", "served", "paid_unserved"}]
        /\ cause' \in [Calls -> {"none", "refused", "unprepared", "send_lost",
                         "confirm_lost", "failed_on_chain", "timeout"}]
    BY <1>0, <2>1, ThrownType
  <2>. QED  BY <2>2, <2>3, <2>4, <2>5 DEF TypeOK
<1>6. ASSUME NEW n \in Deposits, Deposit(n) PROVE TypeOK'
  BY <1>0, <1>6, ConfigAssumption DEF Deposit, TypeOK
<1>7. CASE UNCHANGED vars
  BY <1>0, <1>7 DEF vars, TypeOK
<1>. QED
  BY <1>1, <1>2, <1>3, <1>4, <1>5, <1>6, <1>7 DEF Next

-----------------------------------------------------------------------------
(* One call at a time.                                                     *)

\* A step of another call, or of nobody, leaves a call as it is.
LEMMA CallKept ==
  ASSUME NEW q \in Calls, CallInv(q) /\ CauseInv(q), pc'[q] = pc[q], tx'[q] = tx[q],
         job'[q] = job[q], chain'[q] = chain[q], cause'[q] = cause[q], offer'[q] = offer[q]
  PROVE  CallInv(q)' /\ CauseInv(q)'
  BY DEF CallInv, CauseInv

\* Why a job that throws rolls back, as far as the transfer is concerned.
LEMMA ThrownCall ==
  ASSUME TypeOK, NEW c \in Calls, CallInv(c), CauseInv(c),
         NEW why \in {"refused", "unprepared", "send_lost", "confirm_lost",
                      "failed_on_chain", "timeout"},
         Thrown(c, why), job[c] \notin {"none", "mock", "resolved", "thrown"},
         offer' = offer,
         \/ job'[c] = "thrown"
         \/ job'[c] = job[c] /\ job[c] # "invalid" /\ why = "timeout",
         \/ chain'[c] = chain[c]
         \/ chain[c] = "absent" /\ why = "send_lost",
         why \in {"refused", "unprepared"} => job'[c] = "thrown" /\ chain'[c] = "absent",
         why = "failed_on_chain" => chain'[c] = "failed"
  PROVE  CallInv(c)' /\ CauseInv(c)'
<1>1. CASE pc[c] = "paying"
  <2>1. /\ pc'[c] = "done" /\ tx'[c] = "undone" /\ cause'[c] = why
    BY <1>1 DEF Thrown, Rollback, Tell, TypeOK, CallInv
  <2>. QED  BY <2>1 DEF CallInv, CauseInv
<1>2. CASE pc[c] # "paying"
  <2>1. pc' = pc /\ tx' = tx /\ cause' = cause
    BY <1>2 DEF Thrown
  <2>2. CASE job[c] = "invalid"
    BY <1>2, <2>2 DEF CallInv
  <2>3. CASE job[c] # "invalid"
    BY <1>2, <2>1, <2>3 DEF CallInv, CauseInv
  <2>. QED  BY <2>2, <2>3
<1>. QED  BY <1>1, <1>2

LEMMA StepCall ==
  ASSUME IInv, [Next]_vars, NEW q \in Calls
  PROVE  CallInv(q)' /\ CauseInv(q)'
<1>0. TypeOK /\ CallInv(q) /\ CauseInv(q) /\ job[q] \in Jobs
  BY DEF IInv, TypeOK
<1>1. ASSUME NEW c \in Calls, c # q,
             \/ Request(c) \/ PassThrough(c) \/ Resolve(c) \/ Advance(c) \/ Execute(c)
             \/ Retry(c)
             \/ \E o \in Offers : Block(c, o) \/ Pay(c, o)
      PROVE  CallInv(q)' /\ CauseInv(q)'
  <2>1. /\ pc'[q] = pc[q] /\ tx'[q] = tx[q] /\ job'[q] = job[q] /\ chain'[q] = chain[q]
        /\ cause'[q] = cause[q] /\ offer'[q] = offer[q]
    BY <1>0, <1>1 DEF Request, PassThrough, Resolve, Advance, Execute, Retry, Block, Pay,
       Settled, Tell, TypeOK
  <2>. QED  BY <1>0, <2>1, CallKept
<1>2. ASSUME NEW c \in Calls, c # q,
             Refuse(c) \/ PrepareFails(c) \/ SendFails(c) \/ ConfirmThrows(c) \/ Timeout(c)
      PROVE  CallInv(q)' /\ CauseInv(q)'
  <2>1. PICK why \in {"refused", "unprepared", "send_lost", "confirm_lost",
                      "failed_on_chain", "timeout"} :
          /\ Thrown(c, why)
          /\ job' \in {job, [job EXCEPT ![c] = "thrown"]}
          /\ offer' = offer
          /\ chain' = chain \/ \E s \in {"absent", "pending"} : chain' = [chain EXCEPT ![c] = s]
    BY <1>2 DEF Refuse, PrepareFails, SendFails, ConfirmThrows, Timeout, Throw
  <2>2. job'[q] = job[q] /\ chain'[q] = chain[q] /\ offer'[q] = offer[q]
    BY <1>0, <1>2, <2>1 DEF TypeOK
  <2>3. pc'[q] = pc[q] /\ tx'[q] = tx[q] /\ cause'[q] = cause[q]
    BY <1>0, <1>2, <2>1 DEF Thrown, Rollback, Tell, TypeOK
  <2>. QED  BY <1>0, <2>2, <2>3, CallKept
<1>3. CASE Request(q) \/ PassThrough(q) \/ Retry(q) \/ \E o \in Offers : Block(q, o)
  <2>1. /\ tx' = tx /\ job' = job /\ chain' = chain /\ cause' = cause /\ offer' = offer
        /\ \/ pc[q] = "idle" /\ pc'[q] = "requesting"
           \/ pc[q] = "requesting" /\ pc'[q] = "done"
           \/ pc[q] = "retrying" /\ pc'[q] = "done"
    BY <1>0, <1>3 DEF Request, PassThrough, Retry, Block, Tell, TypeOK
  <2>. QED  BY <1>0, <2>1 DEF CallInv, CauseInv
<1>4. ASSUME NEW o \in Offers, Pay(q, o) PROVE CallInv(q)' /\ CauseInv(q)'
  <2>1. /\ pc[q] = "requesting" /\ pc'[q] = "paying" /\ tx'[q] = "open"
        /\ job'[q] = FirstStage(q, o) /\ offer'[q] = {o} /\ chain' = chain /\ cause' = cause
        /\ o.price <= MaxAmountPerCall
    BY <1>0, <1>4 DEF Pay, Accepted, TypeOK
  <2>2. \/ FirstStage(q, o) = "mock" /\ InstanceOf[q] \notin Solana
        \/ FirstStage(q, o) \in {"preparing", "invalid"}
    BY StageNames DEF FirstStage
  <2>. QED  BY <1>0, <2>1, <2>2 DEF CallInv, CauseInv
<1>5. CASE Resolve(q)
  <2>1. /\ tx' = tx /\ chain' = chain /\ cause' = cause /\ offer' = offer
        /\ job'[q] = "resolved"
        /\ \/ job[q] = "mock"
           \/ job[q] = "confirming" /\ chain[q] = "landed"
        /\ \/ pc[q] = "paying" /\ pc'[q] = "retrying"
           \/ pc[q] # "paying" /\ pc' = pc
    BY <1>0, <1>5 DEF Resolve, Settled, TypeOK
  <2>. QED  BY <1>0, <2>1 DEF CallInv, CauseInv
<1>6. CASE Advance(q)
  <2>1. tx' = tx /\ cause' = cause /\ offer' = offer /\ pc' = pc
    BY <1>6 DEF Advance
  <2>2. q \in DOMAIN job /\ q \in DOMAIN chain
    BY <1>0 DEF TypeOK
  <2>3. \/ job[q] = "preparing" /\ job'[q] = "sending" /\ chain'[q] = chain[q]
        \/ job[q] = "sending" /\ job'[q] = "confirming" /\ chain'[q] = "pending"
    BY <1>6, <2>2, AdvanceByName
  <2>. QED  BY <1>0, <2>1, <2>3 DEF CallInv, CauseInv
<1>7. CASE Execute(q)
  <2>1. /\ tx' = tx /\ cause' = cause /\ offer' = offer /\ pc' = pc /\ job' = job
        /\ chain[q] = "pending" /\ chain'[q] \in {"landed", "failed", "expired"}
    BY <1>0, <1>7 DEF Execute, TypeOK
  <2>. QED  BY <1>0, <2>1 DEF CallInv, CauseInv
<1>8. CASE Refuse(q) \/ PrepareFails(q) \/ SendFails(q) \/ ConfirmThrows(q)
  <2>1. /\ job[q] \in {"invalid", "preparing", "sending", "confirming"}
        /\ job'[q] = "thrown" /\ offer' = offer
    BY <1>0, <1>8
       DEF Refuse, PrepareFails, SendFails, ConfirmThrows, Throw, TypeOK
  <2>2. PICK why \in {"refused", "unprepared", "send_lost", "confirm_lost", "failed_on_chain"} :
          /\ Thrown(q, why)
          /\ \/ chain'[q] = chain[q]
             \/ chain[q] = "absent" /\ why = "send_lost"
          /\ why \in {"refused", "unprepared"} => chain'[q] = "absent"
          /\ why = "failed_on_chain" => chain'[q] = "failed"
    <3>1. CASE Refuse(q)
      BY <1>0, <3>1 DEF Refuse, Throw, CallInv
    <3>2. CASE PrepareFails(q)
      BY <1>0, <3>2 DEF PrepareFails, Throw, CallInv
    <3>3. CASE SendFails(q)
      BY <1>0, <3>3 DEF SendFails, Throw, CallInv
    <3>4. CASE ConfirmThrows(q)
      BY <1>0, <3>4 DEF ConfirmThrows, Throw
    <3>. QED  BY <1>8, <3>1, <3>2, <3>3, <3>4
  <2>. QED  BY <1>0, <2>1, <2>2, ThrownCall
<1>9. CASE Timeout(q)
  <2>1. job[q] \notin {"none", "mock", "invalid", "resolved", "thrown"}
    BY <1>0, <1>9 DEF Timeout, CallInv
  <2>. QED  BY <1>0, <1>9, <2>1, ThrownCall DEF Timeout
<1>10. CASE (\E n \in Deposits : Deposit(n)) \/ UNCHANGED vars
  BY <1>0, <1>10, CallKept DEF Deposit, vars
<1>. QED
  BY <1>1, <1>2, <1>3, <1>4, <1>5, <1>6, <1>7, <1>8, <1>9, <1>10 DEF Next

-----------------------------------------------------------------------------
(* Money.                                                                  *)

\* What an instance accounts for: spent, or deducted by a payment in flight.
Out(i) == spent[i] + Total(InFlight(i))

LEMMA TotalIsNat ==
  ASSUME TypeOK, NEW i \in Instances
  PROVE  Total(InFlight(i)) \in Nat /\ Out(i) \in Nat
<1>. DEFINE f == [c \in Calls |-> Cost(c)]
            S == InFlight(i)
<1>1. S \in SUBSET Calls /\ IsFiniteSet(S)
  BY FlightIsFinite
<1>2. \A c \in S : f[c] \in Nat
  BY <1>1, CostType
<1>. HIDE DEF f, S
<1>3. SumFunctionOnSet(f, S) \in Nat
  BY <1>1, <1>2, SumNat
<1>4. Total(InFlight(i)) \in Nat
  BY <1>3 DEF Total, f, S
<1>. QED  BY <1>4 DEF Out, TypeOK

\* The payments in flight stay the same.
LEMMA FlightKept ==
  ASSUME TypeOK, NEW i \in Instances, InFlight(i)' = InFlight(i),
         \A c \in InFlight(i) : offer'[c] = offer[c]
  PROVE  Total(InFlight(i))' = Total(InFlight(i))
<1>. DEFINE f == [c \in Calls |-> Cost(c)]
            g == [c \in Calls |-> Cost(c)']
            S == InFlight(i)
<1>1. S \in SUBSET Calls /\ IsFiniteSet(S)
  BY FlightIsFinite
<1>2. \A c \in S : f[c] = g[c]
  BY <1>1 DEF Cost, Price
<1>. HIDE DEF f, g, S
<1>3. SumFunctionOnSet(f, S) = SumFunctionOnSet(g, S)
  BY <1>1, <1>2, SumSame
<1>. QED  BY <1>3 DEF Total, f, g, S

\* A payment begins.
LEMMA FlightGrows ==
  ASSUME TypeOK, TypeOK', NEW i \in Instances, NEW c \in Calls, c \notin InFlight(i),
         InFlight(i)' = InFlight(i) \cup {c},
         \A d \in InFlight(i) : offer'[d] = offer[d]
  PROVE  Total(InFlight(i))' = Total(InFlight(i)) + Cost(c)'
<1>. DEFINE f == [d \in Calls |-> Cost(d)]
            g == [d \in Calls |-> Cost(d)']
            S == InFlight(i)
<1>1. S \in SUBSET Calls /\ IsFiniteSet(S) /\ c \notin S
  BY FlightIsFinite
<1>2. \A d \in S : f[d] = g[d]
  BY <1>1 DEF Cost, Price
<1>3. \A d \in Calls : Cost(d)' \in Nat
  BY CostTypeNext
<1>4. \A d \in S \cup {c} : g[d] \in Int
  BY <1>1, <1>3
<1>5. \A d \in S : f[d] \in Int
  BY <1>1, CostType
<1>6. g[c] = Cost(c)'
  OBVIOUS
<1>. HIDE DEF f, g, S
<1>7. SumFunctionOnSet(f, S) = SumFunctionOnSet(g, S)
  BY <1>1, <1>2, SumSame
<1>8. SumFunctionOnSet(g, S \cup {c}) = g[c] + SumFunctionOnSet(g, S)
  BY <1>1, <1>4, SumAdd
<1>9. SumFunctionOnSet(f, S) \in Int /\ g[c] \in Int
  BY <1>1, <1>4, <1>5, SumInt
<1>10. SumFunctionOnSet(g, S \cup {c}) = SumFunctionOnSet(f, S) + g[c]
  BY <1>7, <1>8, <1>9
<1>. QED  BY <1>6, <1>10 DEF Total, f, g, S

\* A payment ends.
LEMMA FlightShrinks ==
  ASSUME TypeOK, NEW i \in Instances, NEW c \in InFlight(i),
         InFlight(i)' = InFlight(i) \ {c}, offer' = offer
  PROVE  Total(InFlight(i))' = Total(InFlight(i)) - Cost(c)
<1>. DEFINE f == [d \in Calls |-> Cost(d)]
            S == InFlight(i)
<1>1. S \in SUBSET Calls /\ IsFiniteSet(S) /\ c \in S
  BY FlightIsFinite
<1>2. \A d \in S : f[d] \in Int
  BY <1>1, CostType
<1>3. f[c] = Cost(c)
  BY <1>1
<1>4. Total(InFlight(i))' = SumFunctionOnSet(f, S \ {c})
  BY DEF Total, Cost, Price
<1>. HIDE DEF f, S
<1>5. SumFunctionOnSet(f, S) = f[c] + SumFunctionOnSet(f, S \ {c})
  BY <1>1, <1>2, SumTake
<1>6. SumFunctionOnSet(f, S) \in Int /\ f[c] \in Int
  BY <1>1, <1>2, SumInt
<1>7. SumFunctionOnSet(f, S \ {c}) \in Int
  <2>1. IsFiniteSet(S \ {c})
    BY <1>1, FS_RemoveElement
  <2>. QED  BY <1>2, <2>1, SumInt
<1>8. SumFunctionOnSet(f, S \ {c}) = SumFunctionOnSet(f, S) - f[c]
  BY <1>5, <1>6, <1>7
<1>. QED  BY <1>3, <1>4, <1>8 DEF Total, f, S

\* What a step does to the money: nothing; a payment begins; a payment in flight
\* is given back, or becomes spent; or a deposit.
LEMMA StepMoney ==
  ASSUME IInv, [Next]_vars, TypeOK'
  PROVE  \/ /\ balance' = balance /\ deposited' = deposited /\ peak' = peak
            /\ \A i \in Instances : Out(i)' = Out(i)
         \/ \E c \in Calls, o \in Offers : Pay(c, o)
         \/ \E c \in Calls :
              /\ balance' = balance + Cost(c) /\ deposited' = deposited /\ peak' = peak
              /\ Out(InstanceOf[c])' = Out(InstanceOf[c]) - Cost(c)
              /\ \A i \in Instances \ {InstanceOf[c]} : Out(i)' = Out(i)
         \/ /\ \E n \in Deposits : Deposit(n)
            /\ \A i \in Instances : Out(i)' = Out(i)
<1>0. TypeOK /\ \A c \in Calls : CallInv(c)
  BY DEF IInv
<1>1. ASSUME offer' = offer, spent' = spent,
             \A c \in Calls : pc'[c] = "paying" <=> pc[c] = "paying"
      PROVE  \A i \in Instances : Out(i)' = Out(i)
  <2>1. ASSUME NEW i \in Instances PROVE Out(i)' = Out(i)
    <3>1. InFlight(i)' = InFlight(i)
      BY <1>1 DEF InFlight
    <3>. QED  BY <1>0, <1>1, <3>1, FlightKept DEF Out
  <2>. QED  BY <2>1
<1>2. ASSUME NEW c \in Calls, Request(c) \/ PassThrough(c) \/ Retry(c) \/ Advance(c)
                                \/ Execute(c) \/ (\E o \in Offers : Block(c, o))
      PROVE  /\ balance' = balance /\ deposited' = deposited /\ peak' = peak
             /\ \A i \in Instances : Out(i)' = Out(i)
  <2>1. /\ balance' = balance /\ deposited' = deposited /\ peak' = peak
        /\ offer' = offer /\ spent' = spent
    BY <1>2 DEF Request, PassThrough, Retry, Advance, Execute, Block
  <2>2. pc' = pc \/ \E p \in {"requesting", "done"} : pc[c] # "paying" /\ pc' = [pc EXCEPT ![c] = p]
    BY <1>2 DEF Request, PassThrough, Retry, Advance, Execute, Block, Tell
  <2>3. \A d \in Calls : pc'[d] = "paying" <=> pc[d] = "paying"
    BY <1>0, <2>2 DEF TypeOK
  <2>. QED  BY <1>1, <2>1, <2>3
<1>3. ASSUME NEW c \in Calls, Resolve(c)
      PROVE  /\ balance' = balance /\ deposited' = deposited /\ peak' = peak
             /\ \A i \in Instances : Out(i)' = Out(i)
  <2>1. balance' = balance /\ deposited' = deposited /\ peak' = peak /\ offer' = offer
    BY <1>3 DEF Resolve
  <2>2. CASE pc[c] # "paying"
    BY <1>1, <1>3, <2>1, <2>2 DEF Resolve, Settled
  <2>3. CASE pc[c] = "paying"
    <3>1. /\ spent' = [spent EXCEPT ![InstanceOf[c]] = spent[InstanceOf[c]] + Cost(c)]
          /\ pc' = [pc EXCEPT ![c] = "retrying"]
      BY <1>3, <2>3 DEF Resolve, Settled
    <3>2. ASSUME NEW i \in Instances, i # InstanceOf[c] PROVE Out(i)' = Out(i)
      <4>1. InFlight(i)' = InFlight(i)
        BY <1>0, <3>1, <3>2 DEF InFlight, TypeOK
      <4>2. spent'[i] = spent[i]
        BY <1>0, <3>1, <3>2 DEF TypeOK
      <4>. QED  BY <1>0, <2>1, <4>1, <4>2, FlightKept DEF Out
    <3>3. ASSUME NEW i \in Instances, i = InstanceOf[c] PROVE Out(i)' = Out(i)
      <4>1. InFlight(i)' = InFlight(i) \ {c} /\ c \in InFlight(i)
        BY <1>0, <2>3, <3>1, <3>3 DEF InFlight, TypeOK
      <4>2. spent'[i] = spent[i] + Cost(c)
        BY <1>0, <3>1, <3>3 DEF TypeOK
      <4>3. Total(InFlight(i))' = Total(InFlight(i)) - Cost(c)
        BY <1>0, <2>1, <4>1, FlightShrinks
      <4>4. Total(InFlight(i)) \in Nat /\ Cost(c) \in Nat /\ spent[i] \in Nat
        BY <1>0, TotalIsNat, CostType DEF TypeOK
      <4>. QED  BY <4>2, <4>3, <4>4 DEF Out
    <3>. QED  BY <2>1, <3>2, <3>3
  <2>. QED  BY <2>2, <2>3
<1>4. ASSUME NEW c \in Calls,
             Refuse(c) \/ PrepareFails(c) \/ SendFails(c) \/ ConfirmThrows(c) \/ Timeout(c)
      PROVE  \/ /\ balance' = balance /\ deposited' = deposited /\ peak' = peak
                /\ \A i \in Instances : Out(i)' = Out(i)
             \/ /\ balance' = balance + Cost(c) /\ deposited' = deposited /\ peak' = peak
                /\ Out(InstanceOf[c])' = Out(InstanceOf[c]) - Cost(c)
                /\ \A i \in Instances \ {InstanceOf[c]} : Out(i)' = Out(i)
  <2>1. /\ \E why : Thrown(c, why)
        /\ deposited' = deposited /\ peak' = peak /\ offer' = offer /\ spent' = spent
    BY <1>4 DEF Refuse, PrepareFails, SendFails, ConfirmThrows, Timeout, Throw
  <2>2. CASE pc[c] # "paying"
    BY <1>1, <2>1, <2>2 DEF Thrown
  <2>3. CASE pc[c] = "paying"
    <3>1. tx[c] = "open" /\ InstanceOf[c] \in Instances
      BY <1>0, <2>3, CallsAssumption DEF CallInv
    <3>2. balance' = balance + Cost(c) /\ pc' = [pc EXCEPT ![c] = "done"]
      BY <2>1, <2>3, <3>1 DEF Thrown, Rollback, Tell
    <3>3. ASSUME NEW i \in Instances, i # InstanceOf[c] PROVE Out(i)' = Out(i)
      <4>1. InFlight(i)' = InFlight(i)
        BY <1>0, <3>2, <3>3 DEF InFlight, TypeOK
      <4>. QED  BY <1>0, <2>1, <4>1, FlightKept DEF Out
    <3>4. ASSUME NEW i \in Instances, i = InstanceOf[c] PROVE Out(i)' = Out(i) - Cost(c)
      <4>1. InFlight(i)' = InFlight(i) \ {c} /\ c \in InFlight(i)
        BY <1>0, <2>3, <3>2, <3>4 DEF InFlight, TypeOK
      <4>2. Total(InFlight(i))' = Total(InFlight(i)) - Cost(c)
        BY <1>0, <2>1, <4>1, FlightShrinks
      <4>3. Total(InFlight(i)) \in Nat /\ Cost(c) \in Nat /\ spent[i] \in Nat
        BY <1>0, TotalIsNat, CostType DEF TypeOK
      <4>. QED  BY <2>1, <4>2, <4>3 DEF Out
    <3>. QED  BY <2>1, <3>1, <3>2, <3>3, <3>4
  <2>. QED  BY <2>2, <2>3
<1>5. ASSUME NEW n \in Deposits, Deposit(n)
      PROVE  \A i \in Instances : Out(i)' = Out(i)
  BY <1>1, <1>5 DEF Deposit
<1>6. CASE UNCHANGED vars
  BY <1>1, <1>6 DEF vars
<1>. QED
  BY <1>2, <1>3, <1>4, <1>5, <1>6 DEF Next

LEMMA PayMoney ==
  ASSUME IInv, NEW c \in Calls, NEW o \in Offers, Pay(c, o), TypeOK'
  PROVE  /\ balance' = balance - Micro(o.price) /\ deposited' = deposited
         /\ Out(InstanceOf[c])' = Out(InstanceOf[c]) + Micro(o.price)
         /\ spent' = spent
         /\ Total(InFlight(InstanceOf[c]))' = Total(InFlight(InstanceOf[c])) + Micro(o.price)
         /\ \A i \in Instances \ {InstanceOf[c]} : Out(i)' = Out(i) /\ peak'[i] = peak[i]
         /\ peak'[InstanceOf[c]] >= 1 + Cardinality(InFlight(InstanceOf[c]))
<1>0. TypeOK /\ InstanceOf[c] \in Instances /\ Micro(o.price) \in Nat
  BY CallsAssumption, OffersAssumption, MicroNat DEF IInv
<1>1. /\ balance' = balance - Micro(o.price) /\ deposited' = deposited /\ spent' = spent
      /\ pc[c] = "requesting" /\ pc' = [pc EXCEPT ![c] = "paying"]
      /\ offer' = [offer EXCEPT ![c] = {o}]
  BY DEF Pay
<1>2. Cost(c)' = Micro(o.price)
  <2>1. offer'[c] = {o}
    BY <1>0, <1>1 DEF TypeOK
  <2>2. (CHOOSE x \in {o} : TRUE) = o
    OBVIOUS
  <2>. QED  BY <2>1, <2>2 DEF Cost, Price
<1>3. ASSUME NEW i \in Instances, i # InstanceOf[c] PROVE Out(i)' = Out(i) /\ peak'[i] = peak[i]
  <2>1. InFlight(i)' = InFlight(i)
    BY <1>0, <1>1, <1>3 DEF InFlight, TypeOK
  <2>2. \A d \in InFlight(i) : offer'[d] = offer[d]
    BY <1>0, <1>1 DEF InFlight, TypeOK
  <2>3. peak'[i] = peak[i]
    BY <1>0, <1>3 DEF Pay, TypeOK
  <2>. QED  BY <1>0, <1>1, <2>1, <2>2, <2>3, FlightKept DEF Out
<1>. DEFINE i == InstanceOf[c]
<1>4. Total(InFlight(i))' = Total(InFlight(i)) + Micro(o.price)
  <2>1. InFlight(i)' = InFlight(i) \cup {c} /\ c \notin InFlight(i)
    BY <1>0, <1>1 DEF InFlight, TypeOK
  <2>2. \A d \in InFlight(i) : offer'[d] = offer[d]
    BY <1>0, <1>1, <2>1 DEF InFlight, TypeOK
  <2>. HIDE DEF i
  <2>3. i \in Instances
    BY <1>0 DEF i
  <2>. QED  BY <1>0, <1>2, <2>1, <2>2, <2>3, FlightGrows
<1>5. Out(i)' = Out(i) + Micro(o.price)
  BY <1>0, <1>1, <1>4, TotalIsNat DEF Out, TypeOK
<1>6. peak'[i] >= 1 + Cardinality(InFlight(i))
  <2>1. peak[i] \in Nat /\ 1 + Cardinality(InFlight(i)) \in Nat
    <3>1. peak[i] \in 1 .. Cardinality(Calls) /\ Cardinality(Calls) \in Nat
      BY <1>0, CallsAssumption, FS_CardinalityType DEF TypeOK
    <3>. QED  BY <3>1, FlightIsFinite
  <2>. DEFINE m == Max({peak[i], 1 + Cardinality(InFlight(i))})
  <2>3. peak' = [peak EXCEPT ![i] = m] /\ i \in DOMAIN peak
    BY <1>0 DEF Pay, TypeOK
  <2>. HIDE DEF i, m
  <2>4. peak'[i] = m
    BY <2>3
  <2>2. peak'[i] = Max({peak[i], 1 + Cardinality(InFlight(i))})
    BY <2>4 DEF m
  <2>. QED  BY <2>1, <2>2, PeakGrows
<1>. QED  BY <1>1, <1>3, <1>4, <1>5, <1>6

\* The sum over the instances, when one of them changes and when none does.
LEMMA OutsChange ==
  ASSUME TypeOK, TypeOK', NEW i \in Instances,
         \A j \in Instances \ {i} : Out(j)' = Out(j)
  PROVE  /\ SumFunctionOnSet([j \in Instances |-> Out(j)], Instances) \in Int
         /\ Out(i) \in Nat /\ Out(i)' \in Int
         /\ SumFunctionOnSet([j \in Instances |-> Out(j)], Instances)'
              = SumFunctionOnSet([j \in Instances |-> Out(j)], Instances) - Out(i) + Out(i)'
<1>. DEFINE f == [j \in Instances |-> Out(j)]
            g == [j \in Instances |-> Out(j)']
<1>1. \A j \in Instances : f[j] \in Nat
  BY TotalIsNat
<1>2. \A j \in Instances : g[j] \in Int
  <2>1. ASSUME NEW j \in Instances PROVE Total(InFlight(j))' \in Int
    <3>. DEFINE h == [c \in Calls |-> Cost(c)']
                S == InFlight(j)'
    <3>1. S \in SUBSET Calls
      BY DEF InFlight
    <3>2. IsFiniteSet(S)
      BY <3>1, CallsAssumption, FS_Subset
    <3>3. \A c \in S : h[c] \in Int
      BY <3>1, CostTypeNext
    <3>. HIDE DEF h, S
    <3>4. SumFunctionOnSet(h, S) \in Int
      BY <3>2, <3>3, SumInt
    <3>. QED  BY <3>4 DEF Total, h, S
  <2>. QED  BY <2>1 DEF Out, TypeOK
<1>3. \A j \in Instances \ {i} : f[j] = g[j]
  OBVIOUS
<1>4. f[i] = Out(i) /\ g[i] = Out(i)'
  OBVIOUS
<1>. HIDE DEF f, g
<1>5. SumFunctionOnSet(g, Instances) = SumFunctionOnSet(f, Instances) - f[i] + g[i]
  BY <1>1, <1>2, <1>3, CallsAssumption, SumChange
<1>6. SumFunctionOnSet(f, Instances) \in Int
  BY <1>1, CallsAssumption, SumInt
<1>7. f[i] \in Nat /\ g[i] \in Int
  BY <1>1, <1>2
<1>. QED  BY <1>4, <1>5, <1>6, <1>7 DEF f, g

LEMMA OutsKept ==
  ASSUME \A j \in Instances : Out(j)' = Out(j)
  PROVE  SumFunctionOnSet([j \in Instances |-> Out(j)], Instances)'
           = SumFunctionOnSet([j \in Instances |-> Out(j)], Instances)
<1>1. [j \in Instances |-> Out(j)'] = [j \in Instances |-> Out(j)]
  OBVIOUS
<1>. QED  BY <1>1

Deposited == SumFunctionOnSet([n \in Deposits |-> n], deposited)

LEMMA DepositAdds ==
  ASSUME TypeOK
  PROVE  /\ Deposited \in Int
         /\ \A n \in Deposits : Deposit(n) => Deposited' = Deposited + n
<1>. DEFINE f == [n \in Deposits |-> n]
<1>1. deposited \in SUBSET Deposits /\ IsFiniteSet(deposited)
  BY ConfigAssumption, FS_Subset DEF TypeOK
<1>2. \A n \in Deposits : f[n] = n /\ f[n] \in Int
  BY ConfigAssumption
<1>. HIDE DEF f
<1>3. SumFunctionOnSet(f, deposited) \in Int
  BY <1>1, <1>2, SumInt
<1>4. ASSUME NEW n \in Deposits, Deposit(n)
      PROVE  SumFunctionOnSet(f, deposited') = SumFunctionOnSet(f, deposited) + n
  <2>1. n \notin deposited /\ deposited' = deposited \cup {n}
    BY <1>4 DEF Deposit
  <2>2. \A x \in deposited \cup {n} : f[x] \in Int
    BY <1>1, <1>2
  <2>3. SumFunctionOnSet(f, deposited \cup {n}) = f[n] + SumFunctionOnSet(f, deposited)
    BY <1>1, <2>1, <2>2, SumAdd
  <2>. QED  BY <1>2, <1>3, <2>1, <2>3
<1>. QED  BY <1>3, <1>4 DEF Deposited, f

Outs == SumFunctionOnSet([j \in Instances |-> Out(j)], Instances)

LEMMA WalletByParts ==
  /\ WalletMatchesSpending <=> Funds + Deposited - balance = Outs
  /\ WalletMatchesSpending' <=> Funds + Deposited' - balance' = Outs'
  BY DEF WalletMatchesSpending, Deposited, Outs, Out

LEMMA StepWallet ==
  ASSUME IInv, [Next]_vars
  PROVE  WalletMatchesSpending'
<1>0. /\ TypeOK /\ TypeOK' /\ balance \in Nat /\ Funds \in Nat
      /\ Funds + Deposited - balance = Outs /\ Deposited \in Int
  BY StepType, WalletByParts, DepositAdds, ConfigAssumption DEF IInv, TypeOK
<1>1. CASE /\ balance' = balance /\ deposited' = deposited
           /\ \A i \in Instances : Out(i)' = Out(i)
  <2>1. Outs' = Outs /\ Deposited' = Deposited
    BY <1>1, OutsKept DEF Outs, Deposited
  <2>. QED  BY <1>0, <1>1, <2>1, WalletByParts
<1>2. ASSUME NEW c \in Calls, NEW o \in Offers, Pay(c, o)
      PROVE  WalletMatchesSpending'
  <2>. DEFINE i == InstanceOf[c]
              n == Micro(o.price)
  <2>1. i \in Instances /\ n \in Nat
    BY CallsAssumption, OffersAssumption, MicroNat
  <2>2. /\ balance' = balance - n /\ deposited' = deposited
        /\ Out(i)' = Out(i) + n
        /\ \A j \in Instances \ {i} : Out(j)' = Out(j)
    BY <1>0, <1>2, PayMoney
  <2>. HIDE DEF n, i
  <2>3. Outs' = Outs - Out(i) + Out(i)' /\ Outs \in Int /\ Out(i) \in Nat
    BY <1>0, <2>1, <2>2, OutsChange DEF Outs
  <2>4. Deposited' = Deposited
    BY <2>2 DEF Deposited
  <2>. QED  BY <1>0, <2>1, <2>2, <2>3, <2>4, WalletByParts
<1>3. ASSUME NEW c \in Calls,
             balance' = balance + Cost(c), deposited' = deposited,
             Out(InstanceOf[c])' = Out(InstanceOf[c]) - Cost(c),
             \A i \in Instances \ {InstanceOf[c]} : Out(i)' = Out(i)
      PROVE  WalletMatchesSpending'
  <2>. DEFINE i == InstanceOf[c]
  <2>1. i \in Instances /\ Cost(c) \in Nat
    BY <1>0, CallsAssumption, CostType
  <2>2. Out(i)' = Out(i) - Cost(c) /\ \A j \in Instances \ {i} : Out(j)' = Out(j)
    BY <1>3
  <2>. HIDE DEF i
  <2>3. Outs' = Outs - Out(i) + Out(i)' /\ Outs \in Int /\ Out(i) \in Nat
    BY <1>0, <2>1, <2>2, OutsChange DEF Outs
  <2>4. Deposited' = Deposited
    BY <1>3 DEF Deposited
  <2>. QED  BY <1>0, <1>3, <2>1, <2>2, <2>3, <2>4, WalletByParts
<1>4. ASSUME NEW n \in Deposits, Deposit(n), \A i \in Instances : Out(i)' = Out(i)
      PROVE  WalletMatchesSpending'
  <2>1. Outs' = Outs
    BY <1>4, OutsKept DEF Outs
  <2>2. Deposited' = Deposited + n /\ balance' = balance + n /\ n \in Nat
    BY <1>0, <1>4, DepositAdds, ConfigAssumption DEF Deposit
  <2>. QED  BY <1>0, <2>1, <2>2, WalletByParts
<1>. QED  BY <1>0, <1>1, <1>2, <1>3, <1>4, StepMoney

LEMMA FlightIsBounded ==
  ASSUME IInv, NEW i \in Instances
  PROVE  Total(InFlight(i)) <= Micro(MaxAmountPerCall) * Cardinality(InFlight(i))
<1>. DEFINE f == [c \in Calls |-> Cost(c)]
            S == InFlight(i)
            m == Micro(MaxAmountPerCall)
<1>1. IsFiniteSet(S) /\ m \in Int
  BY FlightIsFinite, ConfigAssumption, MicroNat
<1>2. \A c \in S : f[c] \in Int /\ f[c] <= m
  BY CostType, CostIsBounded DEF IInv, InFlight
<1>. HIDE DEF f, S, m
<1>3. SumFunctionOnSet(f, S) <= m * Cardinality(S)
  BY <1>1, <1>2, SumBound
<1>. QED  BY <1>3 DEF Total, f, S, m

LEMMA StepOverspend ==
  ASSUME IInv, [Next]_vars
  PROVE  OverspendIsBounded'
<1>. DEFINE lim == Micro(MaxTotalSpend)
            m   == Micro(MaxAmountPerCall)
<1>0. /\ TypeOK /\ TypeOK' /\ lim \in Nat /\ m \in Nat
      /\ \A i \in Instances : Out(i) <= lim + (peak[i] - 1) * m
      /\ \A i \in Instances : Out(i) \in Nat
  BY StepType, ConfigAssumption, MicroNat, TotalIsNat DEF IInv, OverspendIsBounded, Out
<1>1. \A i \in Instances : peak[i] \in Nat /\ peak'[i] \in Nat
  <2>1. Cardinality(Calls) \in Nat
    BY CallsAssumption, FS_CardinalityType
  <2>. QED  BY <1>0, <2>1 DEF TypeOK
<1>. HIDE DEF lim, m
<1>2. SUFFICES ASSUME NEW i \in Instances
               PROVE  Out(i)' <= lim + (peak'[i] - 1) * m
  BY <1>2 DEF OverspendIsBounded, Out, lim, m
<1>3. CASE Out(i)' = Out(i) /\ peak'[i] = peak[i]
  BY <1>0, <1>3
<1>4. ASSUME NEW c \in Calls, NEW o \in Offers, Pay(c, o)
      PROVE  Out(i)' <= lim + (peak'[i] - 1) * m
  <2>. DEFINE n == Micro(o.price)
              k == Cardinality(InFlight(i))
  <2>1. CASE i = InstanceOf[c]
    <3>1. /\ spent'[i] = spent[i] /\ Total(InFlight(i))' = Total(InFlight(i)) + n
          /\ peak'[i] >= 1 + k
      BY <1>0, <1>4, <2>1, PayMoney
    <3>2. spent[i] + n <= lim
      BY <1>4, <2>1 DEF Pay, Accepted, lim
    <3>3. Total(InFlight(i)) <= m * k
      BY FlightIsBounded DEF m
    <3>4. /\ n \in Nat /\ k \in Nat /\ spent[i] \in Nat /\ Total(InFlight(i)) \in Nat
      BY <1>0, MicroNat, OffersAssumption, FlightIsFinite, TotalIsNat DEF TypeOK
    <3>5. Out(i)' = spent[i] + (Total(InFlight(i)) + n)
      BY <3>1 DEF Out
    <3>. DEFINE p == peak'[i] - 1
    <3>. HIDE DEF n, k
    <3>6. p \in Nat /\ k <= p
      BY <1>1, <3>1, <3>4
    <3>7. k * m \in Nat /\ p * m \in Nat /\ k * m <= p * m
      <4>. HIDE DEF p
      <4>. QED  BY <1>0, <3>4, <3>6, TimesMonotone
    <3>8. m * k = k * m
      BY <1>0, <3>4
    <3>. HIDE DEF p
    <3>9. Out(i)' <= lim + p * m
      BY <1>0, <3>2, <3>3, <3>4, <3>5, <3>7, <3>8
    <3>. QED  BY <3>9 DEF p
  <2>2. CASE i # InstanceOf[c]
    BY <1>0, <1>3, <1>4, <2>2, PayMoney
  <2>. QED  BY <2>1, <2>2
<1>5. ASSUME NEW c \in Calls, peak' = peak,
             Out(InstanceOf[c])' = Out(InstanceOf[c]) - Cost(c),
             \A j \in Instances \ {InstanceOf[c]} : Out(j)' = Out(j)
      PROVE  Out(i)' <= lim + (peak'[i] - 1) * m
  <2>1. CASE i = InstanceOf[c]
    <3>1. Cost(c) \in Nat /\ Out(i) \in Nat /\ Out(i)' = Out(i) - Cost(c)
      BY <1>0, <1>5, <2>1, CostType
    <3>. DEFINE b == lim + (peak[i] - 1) * m
    <3>2. b \in Int /\ Out(i) <= b
      BY <1>0, <1>1
    <3>. HIDE DEF b
    <3>3. Out(i)' <= b
      BY <3>1, <3>2
    <3>. QED  BY <1>5, <3>3 DEF b
  <2>2. CASE i # InstanceOf[c]
    BY <1>3, <1>5, <2>2
  <2>. QED  BY <2>1, <2>2
<1>6. ASSUME NEW n \in Deposits, Deposit(n), Out(i)' = Out(i)
      PROVE  Out(i)' <= lim + (peak'[i] - 1) * m
  BY <1>3, <1>6 DEF Deposit
<1>. QED  BY <1>0, <1>3, <1>4, <1>5, <1>6, StepMoney

-----------------------------------------------------------------------------
(* The inductive invariant, and what it says.                              *)

LEMMA InitIInv == Init => IInv
<1>. SUFFICES ASSUME Init PROVE IInv
  OBVIOUS
<1>1. TypeOK
  BY InitType
<1>2. \A c \in Calls : CallInv(c) /\ CauseInv(c)
  BY DEF Init, CallInv, CauseInv
<1>3. \A i \in Instances : Out(i) = 0
  <2>1. ASSUME NEW i \in Instances PROVE Out(i) = 0
    <3>1. InFlight(i) = {} /\ spent[i] = 0
      BY DEF Init, InFlight
    <3>2. Total({}) = 0
      BY SumEmpty DEF Total
    <3>. QED  BY <3>1, <3>2 DEF Out
  <2>. QED  BY <2>1
<1>4. WalletMatchesSpending
  <2>1. Deposited = 0 /\ balance = Funds /\ Funds \in Nat
    BY SumEmpty, ConfigAssumption DEF Init, Deposited
  <2>. DEFINE f == [i \in Instances |-> Out(i)]
  <2>2. \A i \in Instances : f[i] \in Int /\ f[i] <= 0 /\ f[i] \in Nat
    BY <1>3
  <2>. HIDE DEF f
  <2>3. SumFunctionOnSet(f, Instances) <= 0 * Cardinality(Instances)
    BY <2>2, CallsAssumption, SumBound
  <2>4. SumFunctionOnSet(f, Instances) \in Nat /\ Cardinality(Instances) \in Nat
    BY <2>2, CallsAssumption, SumNat, FS_CardinalityType
  <2>5. SumFunctionOnSet(f, Instances) = 0
    BY <2>3, <2>4
  <2>6. Outs = 0
    BY <2>5 DEF Outs, f
  <2>. QED  BY <2>1, <2>6, WalletByParts
<1>5. OverspendIsBounded
  BY <1>3, ConfigAssumption, MicroNat DEF Init, OverspendIsBounded, Out
<1>. QED  BY <1>1, <1>2, <1>4, <1>5 DEF IInv

LEMMA StepIInv == IInv /\ [Next]_vars => IInv'
<1>. SUFFICES ASSUME IInv, [Next]_vars PROVE IInv'
  OBVIOUS
<1>1. TypeOK' /\ WalletMatchesSpending' /\ OverspendIsBounded'
  BY StepType, StepWallet, StepOverspend
<1>2. \A c \in Calls : CallInv(c)' /\ CauseInv(c)'
  BY StepCall
<1>. QED  BY <1>1, <1>2 DEF IInv

\* The inductive invariant holds in every behaviour.
THEOREM SpecIInv == Spec => []IInv
<1>. QED  BY InitIInv, StepIInv, PTL DEF Spec

\* What the shared wallet is short of is, to the micro-dollar, what its instances
\* count as spent or have in flight, and an instance exceeds its limit by no more
\* than a call's greatest price for each overlapping payment (fetch.ts:272-315).
THEOREM SpendingAlwaysAddsUp == Spec => []SpendingAddsUp
<1>1. IInv => SpendingAddsUp
  BY DEF IInv, SpendingAddsUp
<1>. QED  BY <1>1, SpecIInv, PTL

\* A payment that the caller relies on has landed, and the wallet gets back what
\* the cluster took only after a timeout or a lost answer (fetch.ts:297-310).
THEOREM MoneyAlwaysMatches == Spec => []MoneyMatchesChain
<1>1. ASSUME IInv PROVE PaidHasLanded
  BY <1>1 DEF IInv, CallInv, PaidHasLanded
<1>2. ASSUME IInv PROVE UnaccountedHasCause
  BY <1>2 DEF IInv, TypeOK, CauseInv, UnaccountedHasCause
<1>. QED  BY <1>1, <1>2, SpecIInv, PTL DEF MoneyMatchesChain
=============================================================================
