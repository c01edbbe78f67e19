---------------------------- MODULE Buyer_proofs ----------------------------
(***************************************************************************)
(* The buyer's prepaid calls and the files they and the wallet live in.    *)
(*                                                                         *)
(* PrepaidCalls, for any number of requests, credentials, packages and     *)
(* faults: the buyer is never left more calls than were bought, the        *)
(* seller's committed count never falls behind what was used, no           *)
(* credential is served more often than it was sold for, and nothing is    *)
(* paid for again that was done.                                           *)
(*                                                                         *)
(* HomeFiles, for any number of jobs and processes, any choice of commands *)
(* and any number of kills: torn files come of kills alone, and hidden     *)
(* payments of kills or of a paid retry that raised; what the commands add *)
(* and take stays added and taken, up to the history's limit and a package's *)
(* days, unless they overlapped on a file that no lock protects; and some  *)
(* job can go on as long as one runs, but for a command that waits for its *)
(* own lock.                                                               *)
(***************************************************************************)
EXTENDS PrepaidCalls, HomeFiles, SumTheorems

-----------------------------------------------------------------------------
(* Sets that grow and shrink by a request.                                 *)

LEMMA SetShrinks ==
  ASSUME NEW S \in SUBSET Requests, NEW T \in SUBSET S
  PROVE  /\ Cardinality(S) \in Nat /\ Cardinality(T) \in Nat
         /\ Cardinality(T) <= Cardinality(S)
<1>1. IsFiniteSet(S) /\ IsFiniteSet(T)
  BY RequestAssumption, FS_Subset
<1>. QED  BY <1>1, FS_Subset, FS_CardinalityType

LEMMA SetGrows ==
  ASSUME NEW S \in SUBSET Requests, NEW r \in Requests, NEW T, T \subseteq S \cup {r}
  PROVE  /\ Cardinality(S) \in Nat /\ Cardinality(T) \in Nat
         /\ Cardinality(T) <= Cardinality(S) + 1
<1>1. IsFiniteSet(S)
  BY RequestAssumption, FS_Subset
<1>2. Cardinality(S \cup {r}) <= Cardinality(S) + 1
  <2>1. Cardinality(S) \in Nat
    BY <1>1, FS_CardinalityType
  <2>2. Cardinality(S \cup {r}) = IF r \in S THEN Cardinality(S) ELSE Cardinality(S) + 1
    BY <1>1, FS_AddElement
  <2>. QED  BY <2>1, <2>2
<1>3. S \cup {r} \in SUBSET Requests
  OBVIOUS
<1>4. /\ Cardinality(T) \in Nat /\ Cardinality(S \cup {r}) \in Nat
      /\ Cardinality(T) <= Cardinality(S \cup {r})
  BY <1>3, SetShrinks
<1>5. Cardinality(S) \in Nat
  BY <1>1, FS_CardinalityType
<1>. QED  BY <1>2, <1>4, <1>5

LEMMA SetLoses ==
  ASSUME NEW S \in SUBSET Requests, NEW r \in S, NEW T, T \subseteq S \ {r}
  PROVE  /\ Cardinality(S) \in Nat /\ Cardinality(T) \in Nat
         /\ Cardinality(T) + 1 <= Cardinality(S)
<1>1. IsFiniteSet(S)
  BY RequestAssumption, FS_Subset
<1>2. Cardinality(S \ {r}) = Cardinality(S) - 1 /\ Cardinality(S) \in Nat
  BY <1>1, FS_RemoveElement, FS_CardinalityType
<1>3. S \ {r} \in SUBSET Requests
  OBVIOUS
<1>4. Cardinality(T) \in Nat /\ Cardinality(T) <= Cardinality(S \ {r})
      /\ Cardinality(S \ {r}) \in Nat
  BY <1>3, SetShrinks
<1>. QED  BY <1>2, <1>4

\* The credential taken and the one given back to are in the file.
LEMMA MinIsIn ==
  ASSUME TypeOK, NEW S \in SUBSET file, S # {}
  PROVE  Min(S) \in S
<1>1. S \in SUBSET Creds
  BY DEF TypeOK
<1>2. IsFiniteSet(S)
  BY <1>1, CredsAssumption, FS_Subset
<1>3. \A x \in S : x \in Int
  BY <1>1, CredsAssumption
<1>4. \E x \in S : \A y \in S : x <= y
  BY <1>2, <1>3, LeastElement
<1>. QED  BY <1>4 DEF Min

LEMMA TakenIsValid ==
  ASSUME TypeOK, Valid # {}
  PROVE  Min(Valid) \in Valid /\ Min(Valid) \in file /\ Min(Valid) \in Creds
<1>1. Valid \in SUBSET file
  BY DEF Valid
<1>2. Min(Valid) \in Valid
  BY <1>1, MinIsIn
<1>. QED  BY <1>1, <1>2 DEF TypeOK

-----------------------------------------------------------------------------
(* Type correctness, and what a request's place on both sides implies.     *)

\* A handler exists for a request that was sent with a credential; upstream has
\* not worked for one that has not come to it, was challenged, or fell back.
StageInv(r) ==
  /\ buyer[r] = "idle" => gate[r] = "none" /\ ~did[r] /\ reply[r] = "none"
  /\ gate[r] # "none" => using[r] \in Creds
  /\ buyer[r] \in {"waiting", "rejected", "unserved"} => using[r] \in Creds
  /\ gate[r] \in {"sent", "allowed", "full", "proxy"} => ~did[r]
  /\ reply[r] = "challenged" \/ buyer[r] \in {"rejected", "onchain"}
       => ~did[r] /\ gate[r] \in {"none", "over"}

\* The requests whose use of c is, or is about to be, in the committed count.
Done(c) == {r \in Requests : /\ using[r] = c
                             /\ \/ gate[r] = "proxy" \/ did[r]
                                \/ reply[r] = "answered" \/ buyer[r] = "served"}
Seen(c) == Done(c) \cup {r \in Requests : using[r] = c /\ gate[r] = "allowed"}

\* While the row of a credential is sure to be kept it covers those requests;
\* later they can only become fewer.
CountInv(c) ==
  /\ usage[c].calls <= Calls[Package[c]] /\ durable[c].calls <= Calls[Package[c]]
  /\ ExpiresAt[c] <= PurgeAge => Cardinality(Seen(c)) <= Calls[Package[c]]
  /\ ExpiresAt[c] <= PurgeAge /\ ~Expired(c) =>
       /\ Cardinality(Seen(c)) <= usage[c].calls
       /\ Cardinality(Done(c)) <= durable[c].calls

IInv ==
  /\ TypeOK
  /\ \A r \in Requests : StageInv(r)
  /\ \A c \in Creds : CountInv(c)
  /\ NoCallsConjured

LEMMA CapIsNat == \A c \in Creds : Calls[Package[c]] \in Nat \ {0}
  BY CallsAssumption DEF Packages

LEMMA InitIInv == Init => IInv
<1>. SUFFICES ASSUME Init PROVE IInv
  OBVIOUS
<1>1. TypeOK
  BY CapIsNat, BoundAssumption
     DEF Init, TypeOK, Buyers, Gates, Replies, Row, NoRow, Never
<1>2. \A r \in Requests : StageInv(r)
  BY DEF Init, StageInv
<1>3. ASSUME NEW c \in Creds PROVE CountInv(c)
  <2>1. Seen(c) = {} /\ Done(c) = {}
    BY DEF Init, Seen, Done
  <2>. QED  BY <2>1, <1>3, CapIsNat, FS_EmptySet DEF Init, CountInv, NoRow
<1>4. NoCallsConjured
  <2>1. Holding = {}
    BY DEF Init, Holding
  <2>2. SumFunctionOnSet(remaining, file) = SumFunctionOnSet([c \in Creds |-> Calls[Package[c]]], Creds)
    BY DEF Init
  <2>3. SumFunctionOnSet(remaining, file) \in Nat
    BY <1>1, CredsAssumption, FS_Subset, SumNat DEF TypeOK
  <2>. QED  BY <2>1, <2>2, <2>3, FS_EmptySet DEF NoCallsConjured
<1>. QED  BY <1>1, <1>2, <1>3, <1>4 DEF IInv

LEMMA RollbackCallType ==
  ASSUME TypeOK, NEW c \in Creds
  PROVE  /\ RollbackCall(c) \in [Creds -> Nat]
         /\ \A d \in Creds : RollbackCall(c)[d] <= Calls[Package[d]]
         /\ \/ RollbackCall(c) = remaining
            \/ \E d \in file : RollbackCall(c) = [remaining EXCEPT ![d] = remaining[d] + 1]
<1>1. CASE SamePackage(c) = {}
  BY <1>1 DEF TypeOK, RollbackCall
<1>2. CASE SamePackage(c) # {}
  <2>. DEFINE d == Min(SamePackage(c))
  <2>1. SamePackage(c) \in SUBSET file
    BY DEF SamePackage
  <2>2. d \in SamePackage(c)
    BY <1>2, <2>1, MinIsIn
  <2>3. d \in file /\ d \in Creds /\ Package[d] = Package[c]
    BY <2>1, <2>2 DEF SamePackage, TypeOK
  <2>4. RollbackCall(c) = [remaining EXCEPT ![d] =
                             IF remaining[d] < Calls[Package[c]] THEN remaining[d] + 1
                                                               ELSE remaining[d]]
    BY <1>2 DEF RollbackCall
  <2>. HIDE DEF d
  <2>5. CASE remaining[d] < Calls[Package[c]]
    <3>1. RollbackCall(c) = [remaining EXCEPT ![d] = remaining[d] + 1]
      BY <2>4, <2>5
    <3>2. remaining[d] + 1 \in Nat /\ remaining[d] + 1 <= Calls[Package[d]]
      BY <2>3, <2>5, CapIsNat DEF TypeOK
    <3>. QED  BY <2>3, <3>1, <3>2 DEF TypeOK
  <2>6. CASE ~(remaining[d] < Calls[Package[c]])
    BY <2>3, <2>4, <2>6 DEF TypeOK
  <2>. QED  BY <2>5, <2>6
<1>. QED  BY <1>1, <1>2

LEMMA ReplyType ==
  ASSUME TypeOK, NEW r \in Requests, NEW s \in Gates, NEW a \in Replies, Reply(r, s, a)
  PROVE  gate' \in [Requests -> Gates] /\ reply' \in [Requests -> Replies]
  BY DEF TypeOK, Reply, GateGoes, Gates, Replies

LEMMA CountedType ==
  ASSUME TypeOK, NEW c \in Creds, NEW n \in {0, 1}
  PROVE  [usage EXCEPT ![c] = Counted(usage[c], n)] \in [Creds -> Row]
<1>1. usage[c] \in Row
  BY DEF TypeOK
<1>2. Counted(usage[c], n) \in Row
  BY <1>1 DEF TypeOK, Counted, Row
<1>. QED  BY <1>2 DEF TypeOK

LEMMA PrunedType ==
  ASSUME TypeOK, NEW c \in Creds
  PROVE  Pruned(durable[c]) \in Row
  BY DEF TypeOK, Pruned, Row, NoRow

LEMMA BuyerTypeOK ==
  ASSUME IInv, NEW r \in Requests, BuyerStep(r)
  PROVE  TypeOK'
<1>. USE DEF IInv, fileVars, sellerVars
<1>1. CASE CheckAndDeduct(r)
  <2>. DEFINE c == Min(Valid)
  <2>2. c \in Valid
    BY <1>1, TakenIsValid DEF CheckAndDeduct
  <2>3. c \in Creds /\ remaining[c] - 1 \in Nat
    BY <2>2 DEF Valid, TypeOK
  <2>4. /\ remaining' = [remaining EXCEPT ![c] = remaining[c] - 1]
        /\ using' = [using EXCEPT ![r] = c]
        /\ shown' = [shown EXCEPT ![r] = remaining[c] - 1]
    BY <1>1 DEF CheckAndDeduct
  <2>. HIDE DEF c
  <2>5. /\ remaining' \in [Creds -> Nat]
        /\ \A d \in Creds : remaining'[d] <= Calls[Package[d]]
    BY <2>3, <2>4, CapIsNat DEF TypeOK
  <2>. QED
    BY <1>1, <2>3, <2>4, <2>5 DEF CheckAndDeduct, BuyerGoes, TypeOK, Buyers, Gates
<1>2. CASE NoCredential(r)
  BY <1>2 DEF NoCredential, BuyerGoes, TypeOK, Buyers
<1>3. CASE ReceiveAnswer(r) \/ ReceiveChallenge(r) \/ ReceiveError(r) \/ SendRaises(r)
  BY <1>3 DEF ReceiveAnswer, ReceiveChallenge, ReceiveError, SendRaises, BuyerGoes,
     TypeOK, Buyers, Replies
<1>4. CASE PutBack(r)
  <2>1. using[r] \in Creds
    BY <1>4 DEF PutBack, BuyerGoes, StageInv
  <2>2. /\ remaining' \in [Creds -> Nat]
        /\ \A d \in Creds : remaining'[d] <= Calls[Package[d]]
    BY <1>4, <2>1, RollbackCallType DEF PutBack
  <2>. QED  BY <1>4, <2>2 DEF PutBack, BuyerGoes, TypeOK, Buyers
<1>. QED  BY <1>1, <1>2, <1>3, <1>4 DEF BuyerStep

LEMMA GateTypeOK ==
  ASSUME IInv, NEW r \in Requests, GateStep(r)
  PROVE  TypeOK'
<1>. USE DEF IInv, fileVars, sellerVars
<1>1. CASE RateLimited(r) \/ VerifyRefused(r)
  BY <1>1, ReplyType DEF RateLimited, VerifyRefused, TypeOK, Gates, Replies
<1>2. CASE CountUsage(r)
  <2>1. using[r] \in Creds
    BY <1>2 DEF CountUsage, GateGoes, StageInv
  <2>2. usage' \in [Creds -> Row]
    BY <1>2, <2>1, CountedType DEF CountUsage
  <2>. QED  BY <1>2, <2>2 DEF CountUsage, GateGoes, TypeOK, Gates
<1>3. CASE CommitUsage(r)
  <2>1. gate' \in [Requests -> Gates] /\ reply' \in [Requests -> Replies]
    BY <1>3, ReplyType DEF CommitUsage, GateGoes, TypeOK, Gates, Replies
  <2>. QED  BY <1>3, <2>1 DEF CommitUsage, TypeOK
<1>4. CASE CountFails(r)
  <2>1. PICK s \in {"sent", "allowed", "full"}, a \in {"challenged", "failed"} : Reply(r, s, a)
    BY <1>4 DEF CountFails
  <2>2. gate' \in [Requests -> Gates] /\ reply' \in [Requests -> Replies]
    BY <2>1, ReplyType DEF Gates, Replies
  <2>3. using[r] \in Creds
    BY <2>1 DEF Reply, GateGoes, StageInv
  <2>4. usage' \in [Creds -> Row]
    BY <1>4, <2>3, CountedType DEF CountFails, TypeOK
  <2>. QED  BY <1>4, <2>2, <2>4 DEF CountFails, TypeOK
<1>5. CASE UpstreamAnswers(r)
  <2>1. PICK a \in Replies \ {"none"} : Reply(r, "proxy", a)
    BY <1>5 DEF UpstreamAnswers
  <2>2. gate' \in [Requests -> Gates] /\ reply' \in [Requests -> Replies]
    BY <2>1, ReplyType DEF Gates
  <2>. QED  BY <1>5, <2>2 DEF UpstreamAnswers, TypeOK
<1>. QED  BY <1>1, <1>2, <1>3, <1>4, <1>5 DEF GateStep

LEMMA EventTypeOK ==
  ASSUME IInv, PurgeInvalid \/ BuyerCrash \/ GatewayRestart \/ Tick \/ UNCHANGED vars
  PROVE  TypeOK'
<1>. USE DEF IInv, fileVars, sellerVars
<1>1. CASE PurgeInvalid
  BY <1>1 DEF PurgeInvalid, Valid, TypeOK
<1>2. CASE BuyerCrash
  BY <1>2 DEF BuyerCrash, TypeOK, Buyers, Replies
<1>3. CASE GatewayRestart
  BY <1>3, PrunedType DEF GatewayRestart, TypeOK, Gates
<1>4. CASE Tick
  BY <1>4 DEF Tick, TypeOK
<1>5. CASE UNCHANGED vars
  BY <1>5 DEF vars, TypeOK
<1>. QED  BY <1>1, <1>2, <1>3, <1>4, <1>5

LEMMA StepTypeOK ==
  IInv /\ [Next]_vars => TypeOK'
<1>. SUFFICES ASSUME IInv, [Next]_vars PROVE TypeOK'
  OBVIOUS
<1>. QED  BY BuyerTypeOK, GateTypeOK, EventTypeOK DEF Next, AllOver

-----------------------------------------------------------------------------

LEMMA StepStage ==
  ASSUME IInv, [Next]_vars, NEW q \in Requests
  PROVE  StageInv(q)'
<1>. USE DEF IInv, fileVars, sellerVars
<1>0. StageInv(q) /\ TypeOK
  OBVIOUS
<1>1. ASSUME NEW r \in Requests, CheckAndDeduct(r) PROVE StageInv(q)'
  <2>1. Min(Valid) \in Creds
    BY <1>1, TakenIsValid DEF CheckAndDeduct
  <2>2. using' = [using EXCEPT ![r] = Min(Valid)]
    BY <1>1 DEF CheckAndDeduct
  <2>. QED
    BY <1>0, <1>1, <2>1, <2>2 DEF CheckAndDeduct, BuyerGoes, StageInv, TypeOK
<1>2. ASSUME NEW r \in Requests,
             NoCredential(r) \/ ReceiveAnswer(r) \/ ReceiveChallenge(r) \/ ReceiveError(r)
               \/ SendRaises(r) \/ PutBack(r)
      PROVE  StageInv(q)'
  BY <1>0, <1>2 DEF NoCredential, ReceiveAnswer, ReceiveChallenge, ReceiveError,
     SendRaises, PutBack, BuyerGoes, StageInv, TypeOK
<1>3. ASSUME NEW r \in Requests,
             RateLimited(r) \/ VerifyRefused(r) \/ CountUsage(r) \/ CommitUsage(r)
               \/ CountFails(r)
      PROVE  StageInv(q)'
  BY <1>0, <1>3 DEF RateLimited, VerifyRefused, CountUsage, CommitUsage, CountFails,
     Reply, GateGoes, StageInv, TypeOK
<1>4. ASSUME NEW r \in Requests, UpstreamAnswers(r) PROVE StageInv(q)'
  BY <1>0, <1>4 DEF UpstreamAnswers, Reply, GateGoes, StageInv, TypeOK
<1>5. CASE PurgeInvalid \/ BuyerCrash \/ GatewayRestart \/ Tick \/ UNCHANGED vars
  BY <1>0, <1>5 DEF PurgeInvalid, BuyerCrash, GatewayRestart, Tick, vars, StageInv, TypeOK
<1>. QED
  BY <1>1, <1>2, <1>3, <1>4, <1>5 DEF Next, BuyerStep, GateStep, AllOver

-----------------------------------------------------------------------------
(* The seller's count.                                                     *)

\* What is seen of a credential does not grow and its counts stay.
LEMMA RowKept ==
  ASSUME TypeOK, NEW c \in Creds, CountInv(c),
         usage'[c].calls = usage[c].calls, durable'[c].calls = durable[c].calls,
         now' \in Nat, now' >= now,
         Seen(c)' \subseteq Seen(c), Done(c)' \subseteq Done(c)
  PROVE  CountInv(c)'
<1>1. Seen(c) \in SUBSET Requests /\ Done(c) \in SUBSET Requests
  BY DEF Seen, Done
<1>2. /\ Cardinality(Seen(c)) \in Nat /\ Cardinality(Seen(c)') \in Nat
      /\ Cardinality(Seen(c)') <= Cardinality(Seen(c))
  BY <1>1, SetShrinks
<1>3. /\ Cardinality(Done(c)) \in Nat /\ Cardinality(Done(c)') \in Nat
      /\ Cardinality(Done(c)') <= Cardinality(Done(c))
  BY <1>1, SetShrinks
<1>4. /\ usage[c].calls \in Nat /\ durable[c].calls \in Nat
      /\ Calls[Package[c]] \in Nat /\ ExpiresAt[c] \in Nat /\ now \in Nat
  BY CapIsNat, TimesAssumption DEF TypeOK, Row
<1>5. Expired(c) => Expired(c)'
  BY <1>4 DEF Expired
<1>. QED  BY <1>2, <1>3, <1>4, <1>5 DEF CountInv

LEMMA CountKept ==
  ASSUME TypeOK, NEW c \in Creds, CountInv(c),
         usage' = usage, durable' = durable, now' \in Nat, now' >= now,
         Seen(c)' \subseteq Seen(c), Done(c)' \subseteq Done(c)
  PROVE  CountInv(c)'
  BY RowKept

\* The row counts one more, and one more request is seen.
LEMMA CountGrows ==
  ASSUME TypeOK, NEW r \in Requests, NEW c \in Creds, CountInv(c), ~Expired(c),
         usage'[c].calls = usage[c].calls + 1, usage[c].calls < Calls[Package[c]],
         durable' = durable, now' = now,
         Seen(c)' \subseteq Seen(c) \cup {r}, Done(c)' \subseteq Done(c)
  PROVE  CountInv(c)'
<1>1. Seen(c) \in SUBSET Requests /\ Done(c) \in SUBSET Requests
  BY DEF Seen, Done
<1>2. /\ Cardinality(Seen(c)) \in Nat /\ Cardinality(Seen(c)') \in Nat
      /\ Cardinality(Seen(c)') <= Cardinality(Seen(c)) + 1
  BY <1>1, SetGrows
<1>3. /\ Cardinality(Done(c)) \in Nat /\ Cardinality(Done(c)') \in Nat
      /\ Cardinality(Done(c)') <= Cardinality(Done(c))
  BY <1>1, SetShrinks
<1>4. /\ usage[c].calls \in Nat /\ durable[c].calls \in Nat /\ Calls[Package[c]] \in Nat
  BY CapIsNat DEF TypeOK, Row
<1>. QED  BY <1>2, <1>3, <1>4 DEF CountInv

\* A commit: what was seen is now in the committed count.
LEMMA CommitCounts ==
  ASSUME TypeOK, NEW c \in Creds, CountInv(c),
         usage' = usage, durable' = usage, now' = now,
         Seen(c)' \subseteq Seen(c), Done(c)' \subseteq Seen(c)
  PROVE  CountInv(c)'
<1>1. Seen(c) \in SUBSET Requests
  BY DEF Seen, Done
<1>2. /\ Cardinality(Seen(c)) \in Nat /\ Cardinality(Seen(c)') \in Nat
      /\ Cardinality(Seen(c)') <= Cardinality(Seen(c))
  BY <1>1, SetShrinks
<1>3. /\ Cardinality(Done(c)') \in Nat /\ Cardinality(Done(c)') <= Cardinality(Seen(c))
  BY <1>1, SetShrinks
<1>4. usage[c].calls \in Nat /\ Calls[Package[c]] \in Nat
  BY CapIsNat DEF TypeOK, Row
<1>. QED  BY <1>2, <1>3, <1>4 DEF CountInv, Expired

\* A restart: the committed count is all there is, and the row of a credential
\* that is still good is too young to be pruned.
LEMMA RestartCounts ==
  ASSUME TypeOK, NEW c \in Creds, CountInv(c), now' = now,
         usage' = [d \in Creds |-> Pruned(durable[d])],
         durable' = [d \in Creds |-> Pruned(durable[d])],
         Seen(c)' \subseteq Done(c)', Done(c)' \subseteq Done(c)
  PROVE  CountInv(c)'
<1>1. Done(c) \in SUBSET Requests /\ Seen(c) \in SUBSET Requests /\ Done(c) \subseteq Seen(c)
  BY DEF Seen, Done
<1>2. /\ Cardinality(Done(c)) \in Nat /\ Cardinality(Done(c)') \in Nat
      /\ Cardinality(Done(c)') <= Cardinality(Done(c))
  BY <1>1, SetShrinks
<1>3. /\ Cardinality(Seen(c)') \in Nat /\ Cardinality(Seen(c)') <= Cardinality(Done(c))
  BY <1>1, SetShrinks
<1>4. Cardinality(Done(c)) <= Cardinality(Seen(c)) /\ Cardinality(Seen(c)) \in Nat
  BY <1>1, SetShrinks
<1>5. /\ durable[c].calls \in Nat /\ Calls[Package[c]] \in Nat \ {0}
      /\ ExpiresAt[c] \in Nat /\ PurgeAge \in Nat /\ now \in Nat
      /\ durable[c].since \in Nat \cup {Never}
  BY CapIsNat, TimesAssumption DEF TypeOK, Row
<1>6. usage'[c] = Pruned(durable[c]) /\ durable'[c] = Pruned(durable[c])
  OBVIOUS
<1>7. Pruned(durable[c]).calls <= Calls[Package[c]]
  BY <1>5 DEF Pruned, NoRow, CountInv
<1>8. ASSUME ExpiresAt[c] <= PurgeAge, ~Expired(c)
      PROVE  Pruned(durable[c]) = durable[c]
  BY <1>5, <1>8 DEF Pruned, Expired
<1>9. ExpiresAt[c] <= PurgeAge => Cardinality(Seen(c)') <= Calls[Package[c]]
  BY <1>3, <1>4, <1>5, <1>2 DEF CountInv
<1>10. ASSUME ExpiresAt[c] <= PurgeAge, ~Expired(c)
       PROVE  /\ Cardinality(Seen(c)') <= durable[c].calls
              /\ Cardinality(Done(c)') <= durable[c].calls
  BY <1>2, <1>3, <1>5, <1>10 DEF CountInv
<1>. QED  BY <1>6, <1>7, <1>8, <1>9, <1>10 DEF CountInv, Expired

LEMMA StepCount ==
  ASSUME IInv, [Next]_vars, NEW c \in Creds
  PROVE  CountInv(c)'
<1>. USE DEF fileVars, sellerVars
<1>0. /\ TypeOK /\ CountInv(c) /\ now \in Nat
      /\ \A r \in Requests : StageInv(r)
  BY DEF IInv, TypeOK
<1>1. ASSUME NEW r \in Requests, CheckAndDeduct(r) PROVE CountInv(c)'
  <2>1. /\ buyer[r] = "idle" /\ buyer' = [buyer EXCEPT ![r] = "waiting"]
        /\ \A q \in Requests \ {r} : using'[q] = using[q] /\ gate'[q] = gate[q]
        /\ gate'[r] = "sent" /\ reply' = reply /\ did' = did
    BY <1>0, <1>1 DEF CheckAndDeduct, BuyerGoes, TypeOK
  <2>2. ~did[r] /\ reply[r] = "none"
    BY <1>0, <2>1 DEF StageInv
  <2>3. Seen(c)' \subseteq Seen(c) /\ Done(c)' \subseteq Done(c)
    BY <1>0, <2>1, <2>2 DEF Seen, Done, TypeOK
  <2>. QED  BY <1>0, <1>1, <2>3, CountKept DEF CheckAndDeduct
<1>2. ASSUME NEW r \in Requests,
             NoCredential(r) \/ ReceiveAnswer(r) \/ ReceiveChallenge(r) \/ ReceiveError(r)
               \/ SendRaises(r) \/ PutBack(r)
      PROVE  CountInv(c)'
  <2>1. Seen(c)' \subseteq Seen(c) /\ Done(c)' \subseteq Done(c)
    BY <1>0, <1>2 DEF NoCredential, ReceiveAnswer, ReceiveChallenge, ReceiveError,
       SendRaises, PutBack, BuyerGoes, Seen, Done, TypeOK
  <2>2. usage' = usage /\ durable' = durable /\ now' = now
    BY <1>2 DEF NoCredential, ReceiveAnswer, ReceiveChallenge, ReceiveError,
       SendRaises, PutBack
  <2>. QED  BY <1>0, <2>1, <2>2, CountKept
<1>3. ASSUME NEW r \in Requests, RateLimited(r) \/ VerifyRefused(r) PROVE CountInv(c)'
  <2>1. Seen(c)' \subseteq Seen(c) /\ Done(c)' \subseteq Done(c)
    BY <1>0, <1>3 DEF RateLimited, VerifyRefused, Reply, GateGoes, Seen, Done, TypeOK
  <2>. QED  BY <1>0, <1>3, <2>1, CountKept DEF RateLimited, VerifyRefused
<1>4. ASSUME NEW r \in Requests, CountUsage(r) PROVE CountInv(c)'
  <2>1. CASE /\ GateGoes(r, "sent", "allowed") /\ Acceptable(r) /\ using[r] = c
             /\ usage[c].calls < Calls[Package[c]]
             /\ usage' = [usage EXCEPT ![c] = Counted(@, 1)]
    <3>1. usage'[c].calls = usage[c].calls + 1
      BY <1>0, <2>1 DEF TypeOK, Counted
    <3>2. Seen(c)' \subseteq Seen(c) \cup {r} /\ Done(c)' \subseteq Done(c)
      BY <1>0, <1>4, <2>1 DEF CountUsage, GateGoes, Seen, Done, TypeOK
    <3>3. ~Expired(c) /\ durable' = durable /\ now' = now
      BY <1>4, <2>1 DEF Acceptable, CountUsage
    <3>. QED  BY <1>0, <2>1, <3>1, <3>2, <3>3, CountGrows
  <2>2. CASE /\ GateGoes(r, "sent", "allowed") /\ using[r] # c
             /\ usage' = [usage EXCEPT ![using[r]] = Counted(@, 1)]
    <3>1. usage'[c] = usage[c]
      BY <1>0, <2>2 DEF TypeOK
    <3>2. Seen(c)' \subseteq Seen(c) /\ Done(c)' \subseteq Done(c)
      BY <1>0, <1>4, <2>2 DEF CountUsage, GateGoes, Seen, Done, TypeOK
    <3>. QED  BY <1>0, <1>4, <3>1, <3>2, RowKept DEF CountUsage
  <2>3. CASE /\ GateGoes(r, "sent", "full")
             /\ usage' = [usage EXCEPT ![using[r]] = Counted(@, 0)]
    <3>1. usage[c].calls \in Nat
      BY <1>0 DEF TypeOK, Row
    <3>2. usage'[c].calls = usage[c].calls
      BY <1>0, <2>3, <3>1 DEF TypeOK, Counted
    <3>3. Seen(c)' \subseteq Seen(c) /\ Done(c)' \subseteq Done(c)
      BY <1>0, <1>4, <2>3 DEF CountUsage, GateGoes, Seen, Done, TypeOK
    <3>. QED  BY <1>0, <1>4, <3>2, <3>3, RowKept DEF CountUsage
  <2>. QED  BY <1>4, <2>1, <2>2, <2>3 DEF CountUsage
<1>5. ASSUME NEW r \in Requests, CommitUsage(r) PROVE CountInv(c)'
  <2>1. Seen(c)' \subseteq Seen(c) /\ Done(c)' \subseteq Seen(c)
    BY <1>0, <1>5 DEF CommitUsage, Reply, GateGoes, Seen, Done, TypeOK
  <2>. QED  BY <1>0, <1>5, <2>1, CommitCounts DEF CommitUsage
<1>6. ASSUME NEW r \in Requests, CountFails(r) PROVE CountInv(c)'
  <2>1. Seen(c)' \subseteq Seen(c) /\ Done(c)' \subseteq Done(c)
    BY <1>0, <1>6 DEF CountFails, Reply, GateGoes, Seen, Done, TypeOK
  <2>2. usage[c].calls \in Nat
    BY <1>0 DEF TypeOK, Row
  <2>3. usage'[c].calls = usage[c].calls
    BY <1>0, <1>6, <2>2 DEF CountFails, TypeOK, Counted
  <2>. QED  BY <1>0, <1>6, <2>1, <2>3, RowKept DEF CountFails
<1>7. ASSUME NEW r \in Requests, UpstreamAnswers(r) PROVE CountInv(c)'
  <2>1. Seen(c)' \subseteq Seen(c) /\ Done(c)' \subseteq Done(c)
    BY <1>0, <1>7 DEF UpstreamAnswers, Reply, GateGoes, Seen, Done, TypeOK
  <2>. QED  BY <1>0, <1>7, <2>1, CountKept DEF UpstreamAnswers
<1>8. CASE PurgeInvalid \/ BuyerCrash \/ UNCHANGED vars
  <2>1. Seen(c)' \subseteq Seen(c) /\ Done(c)' \subseteq Done(c)
    BY <1>0, <1>8 DEF PurgeInvalid, BuyerCrash, vars, Seen, Done, TypeOK
  <2>. QED  BY <1>0, <1>8, <2>1, CountKept DEF PurgeInvalid, BuyerCrash, vars
<1>9. CASE Tick
  <2>1. Seen(c)' \subseteq Seen(c) /\ Done(c)' \subseteq Done(c)
    BY <1>9 DEF Tick, Seen, Done
  <2>. QED  BY <1>0, <1>9, <2>1, CountKept DEF Tick
<1>10. CASE GatewayRestart
  <2>1. Seen(c)' \subseteq Done(c)' /\ Done(c)' \subseteq Done(c)
    BY <1>0, <1>10 DEF GatewayRestart, Seen, Done, TypeOK
  <2>. QED  BY <1>0, <1>10, <2>1, RestartCounts DEF GatewayRestart
<1>. QED
  BY <1>1, <1>2, <1>3, <1>4, <1>5, <1>6, <1>7, <1>8, <1>9, <1>10
     DEF Next, BuyerStep, GateStep, AllOver

-----------------------------------------------------------------------------
(* The buyer's calls.                                                      *)

Bought == SumFunctionOnSet([c \in Creds |-> Calls[Package[c]]], Creds)

LEMMA SumsAreInts ==
  ASSUME TypeOK
  PROVE  /\ IsFiniteSet(file) /\ file \in SUBSET Creds
         /\ \A c \in file : remaining[c] \in Int
         /\ SumFunctionOnSet(remaining, file) \in Int
         /\ Bought \in Int
         /\ Holding \in SUBSET Requests
<1>1. IsFiniteSet(file) /\ file \in SUBSET Creds
  BY CredsAssumption, FS_Subset DEF TypeOK
<1>2. \A c \in file : remaining[c] \in Int
  BY DEF TypeOK
<1>3. SumFunctionOnSet(remaining, file) \in Int
  BY <1>1, <1>2, SumInt
<1>. DEFINE sold == [c \in Creds |-> Calls[Package[c]]]
<1>4. \A c \in Creds : sold[c] \in Int
  BY CapIsNat
<1>. HIDE DEF sold
<1>5. SumFunctionOnSet(sold, Creds) \in Int
  BY <1>4, CredsAssumption, SumInt
<1>. QED  BY <1>1, <1>2, <1>3, <1>5 DEF Bought, sold, Holding

\* The file stays as it is and no request takes a call.
LEMMA CallsKept ==
  ASSUME TypeOK, NoCallsConjured, file' = file, remaining' = remaining,
         Holding' \subseteq Holding
  PROVE  NoCallsConjured'
<1>1. /\ Cardinality(Holding) \in Nat /\ Cardinality(Holding') \in Nat
      /\ Cardinality(Holding') <= Cardinality(Holding)
  BY SumsAreInts, SetShrinks
<1>2. SumFunctionOnSet(remaining, file) \in Int /\ Bought \in Int
  BY SumsAreInts
<1>. QED  BY <1>1, <1>2 DEF NoCallsConjured, Bought

LEMMA StepCalls ==
  IInv /\ [Next]_vars => NoCallsConjured'
<1>. SUFFICES ASSUME IInv, [Next]_vars PROVE NoCallsConjured'
  OBVIOUS
<1>. USE DEF fileVars, sellerVars
<1>0. /\ TypeOK /\ NoCallsConjured /\ TypeOK'
      /\ \A r \in Requests : StageInv(r)
  BY StepTypeOK DEF IInv
<1>1. ASSUME NEW r \in Requests, CheckAndDeduct(r) PROVE NoCallsConjured'
  <2>. DEFINE c == Min(Valid)
  <2>1. c \in file /\ c \in Creds
    BY <1>0, <1>1, TakenIsValid DEF CheckAndDeduct
  <2>2. file' = file /\ remaining' = [remaining EXCEPT ![c] = remaining[c] - 1]
    BY <1>1 DEF CheckAndDeduct
  <2>3. Holding' \subseteq Holding \cup {r}
    BY <1>0, <1>1 DEF CheckAndDeduct, BuyerGoes, Holding, TypeOK
  <2>. HIDE DEF c
  <2>4. /\ remaining'[c] = remaining[c] - 1
        /\ \A x \in file \ {c} : remaining[x] = remaining'[x]
        /\ \A x \in file : remaining[x] \in Int /\ remaining'[x] \in Int
    BY <1>0, <2>1, <2>2 DEF TypeOK
  <2>5. SumFunctionOnSet(remaining', file)
          = SumFunctionOnSet(remaining, file) - remaining[c] + remaining'[c]
    BY <1>0, <2>1, <2>4, SumsAreInts, SumChange
  <2>6. /\ Cardinality(Holding) \in Nat /\ Cardinality(Holding') \in Nat
        /\ Cardinality(Holding') <= Cardinality(Holding) + 1
    BY <1>0, <2>3, SumsAreInts, SetGrows
  <2>7. SumFunctionOnSet(remaining, file) \in Int /\ Bought \in Int /\ remaining[c] \in Int
    BY <1>0, <2>1, <2>4, SumsAreInts
  <2>. QED  BY <1>0, <2>2, <2>4, <2>5, <2>6, <2>7 DEF NoCallsConjured, Bought
<1>2. ASSUME NEW r \in Requests, PutBack(r) PROVE NoCallsConjured'
  <2>1. r \in Holding /\ using[r] \in Creds
    BY <1>0, <1>2, CredsAssumption DEF PutBack, BuyerGoes, StageInv, Holding
  <2>2. Holding' \subseteq Holding \ {r}
    BY <1>0, <1>2 DEF PutBack, BuyerGoes, Holding, TypeOK
  <2>3. /\ Cardinality(Holding) \in Nat /\ Cardinality(Holding') \in Nat
        /\ Cardinality(Holding') + 1 <= Cardinality(Holding)
    <3>1. Holding \in SUBSET Requests
      BY <1>0, SumsAreInts
    <3>. QED  BY <2>1, <2>2, <3>1, SetLoses
  <2>4. file' = file
    BY <1>2 DEF PutBack
  <2>5. SumFunctionOnSet(remaining, file) \in Int /\ Bought \in Int
    BY <1>0, SumsAreInts
  <2>6. CASE remaining' = remaining
    BY <1>0, <2>3, <2>4, <2>5, <2>6 DEF NoCallsConjured, Bought
  <2>7. CASE \E d \in file : remaining' = [remaining EXCEPT ![d] = remaining[d] + 1]
    <3>1. PICK d \in file : remaining' = [remaining EXCEPT ![d] = remaining[d] + 1]
      BY <2>7
    <3>2. /\ remaining'[d] = remaining[d] + 1 /\ remaining[d] \in Int
          /\ \A x \in file \ {d} : remaining[x] = remaining'[x]
          /\ \A x \in file : remaining[x] \in Int /\ remaining'[x] \in Int
      BY <1>0, <3>1 DEF TypeOK
    <3>3. SumFunctionOnSet(remaining', file)
            = SumFunctionOnSet(remaining, file) - remaining[d] + remaining'[d]
      BY <1>0, <3>2, SumsAreInts, SumChange
    <3>. QED  BY <1>0, <2>3, <2>4, <2>5, <3>2, <3>3 DEF NoCallsConjured, Bought
  <2>. QED  BY <1>0, <1>2, <2>1, <2>6, <2>7, RollbackCallType DEF PutBack
<1>3. CASE PurgeInvalid
  <2>1. file' \in SUBSET file /\ remaining' = remaining /\ Holding' = Holding
    BY <1>3 DEF PurgeInvalid, Valid, Holding
  <2>2. \A x \in file : remaining[x] \in Nat
    BY <1>0 DEF TypeOK
  <2>3. SumFunctionOnSet(remaining, file') <= SumFunctionOnSet(remaining, file)
    BY <1>0, <2>1, <2>2, SumsAreInts, SumSubset
  <2>4. SumFunctionOnSet(remaining, file') \in Int
    <3>1. IsFiniteSet(file')
      BY <1>0, <2>1, SumsAreInts, FS_Subset
    <3>. QED  BY <2>1, <2>2, <3>1, SumInt
  <2>5. Cardinality(Holding) \in Nat
    BY <1>0, SumsAreInts, SetShrinks
  <2>. QED  BY <1>0, <2>1, <2>3, <2>4, <2>5, SumsAreInts DEF NoCallsConjured, Bought
<1>4. ASSUME NEW r \in Requests,
             NoCredential(r) \/ ReceiveAnswer(r) \/ ReceiveChallenge(r) \/ ReceiveError(r)
               \/ SendRaises(r)
      PROVE  NoCallsConjured'
  <2>1. Holding' \subseteq Holding
    BY <1>0, <1>4 DEF NoCredential, ReceiveAnswer, ReceiveChallenge, ReceiveError,
       SendRaises, BuyerGoes, Holding, TypeOK
  <2>. QED
    BY <1>0, <1>4, <2>1, CallsKept DEF NoCredential, ReceiveAnswer, ReceiveChallenge,
       ReceiveError, SendRaises
<1>5. ASSUME NEW r \in Requests, GateStep(r) PROVE NoCallsConjured'
  <2>1. /\ file' = file /\ remaining' = remaining /\ using' = using /\ buyer' = buyer
    BY <1>5 DEF GateStep, RateLimited, VerifyRefused, CountUsage, CommitUsage, CountFails,
       UpstreamAnswers
  <2>. QED  BY <1>0, <2>1, CallsKept DEF Holding
<1>6. CASE BuyerCrash
  <2>1. Holding' \subseteq Holding
    BY <1>0, <1>6 DEF BuyerCrash, Holding, TypeOK
  <2>. QED  BY <1>0, <1>6, <2>1, CallsKept DEF BuyerCrash
<1>7. CASE GatewayRestart \/ Tick \/ UNCHANGED vars
  <2>1. file' = file /\ remaining' = remaining /\ using' = using /\ buyer' = buyer
    BY <1>7 DEF GatewayRestart, Tick, vars
  <2>. QED  BY <1>0, <2>1, CallsKept DEF Holding
<1>. QED
  BY <1>1, <1>2, <1>3, <1>4, <1>5, <1>6, <1>7 DEF Next, BuyerStep, AllOver

-----------------------------------------------------------------------------
(* The inductive invariant, and what it says.                              *)

LEMMA StepIInv == IInv /\ [Next]_vars => IInv'
<1>. SUFFICES ASSUME IInv, [Next]_vars PROVE IInv'
  OBVIOUS
<1>1. TypeOK' /\ NoCallsConjured'
  BY StepTypeOK, StepCalls
<1>2. \A r \in Requests : StageInv(r)'
  BY StepStage
<1>3. \A c \in Creds : CountInv(c)'
  BY StepCount
<1>. QED  BY <1>1, <1>2, <1>3 DEF IInv

\* The inductive invariant holds in every behaviour.
THEOREM SpecIInv == Spec => []IInv
<1>. QED  BY InitIInv, StepIInv, PTL DEF Spec

\* The two counts of calls never part: no rollback, purge or switch of
\* credentials leaves the buyer more than was bought, and whatever dies when,
\* the seller's committed count covers what was used (client.py:141,
\* gateway.py:820).
THEOREM CountsStayTogether == Spec => []CountsAgree
<1>1. ASSUME IInv PROVE CountsAgree
  <2>1. ASSUME NEW c \in Creds, ExpiresAt[c] <= PurgeAge, ~Expired(c)
        PROVE  Cardinality({r \in Requests : using[r] = c /\ (did[r] \/ buyer[r] = "served")})
                 <= durable[c].calls
    <3>. DEFINE used == {r \in Requests : using[r] = c /\ (did[r] \/ buyer[r] = "served")}
    <3>1. used \in SUBSET Done(c) /\ Done(c) \in SUBSET Requests
      BY DEF Done
    <3>. HIDE DEF used
    <3>2. /\ Cardinality(used) \in Nat /\ Cardinality(Done(c)) \in Nat
          /\ Cardinality(used) <= Cardinality(Done(c))
      BY <3>1, SetShrinks
    <3>3. Cardinality(Done(c)) <= durable[c].calls /\ durable[c].calls \in Nat
      BY <1>1, <2>1 DEF IInv, CountInv, TypeOK, Row
    <3>4. Cardinality(used) <= durable[c].calls
      BY <3>2, <3>3
    <3>. QED  BY <3>4 DEF used
  <2>. QED  BY <1>1, <2>1 DEF IInv, CountsAgree, CountCovers
<1>. QED  BY <1>1, SpecIInv, PTL

\* No credential that its usage row outlives is served more often than it was
\* sold for, however many requests race for its last calls and however often
\* the gateway restarts.
THEOREM NeverOversold == Spec => []NotOversold
<1>1. ASSUME IInv PROVE NotOversold
  <2>1. ASSUME NEW c \in Creds, ExpiresAt[c] <= PurgeAge
        PROVE  Cardinality(WorkFor(c)) <= Calls[Package[c]]
    <3>1. WorkFor(c) \in SUBSET Seen(c) /\ Seen(c) \in SUBSET Requests
      BY DEF WorkFor, Seen, Done
    <3>2. /\ Cardinality(WorkFor(c)) \in Nat /\ Cardinality(Seen(c)) \in Nat
          /\ Cardinality(WorkFor(c)) <= Cardinality(Seen(c))
      BY <3>1, SetShrinks
    <3>3. Cardinality(Seen(c)) <= Calls[Package[c]] /\ Calls[Package[c]] \in Nat
      BY <1>1, <2>1, CapIsNat DEF IInv, CountInv
    <3>. QED  BY <3>2, <3>3
  <2>. QED  BY <2>1 DEF NotOversold
<1>. QED  BY <1>1, SpecIInv, PTL

\* The middleware pays again on chain only for work that upstream has not done
\* and will not do with the prepaid call.
THEOREM FallbackNeverPaysTwice == Spec => []FallbackIsUnserved
<1>1. IInv => FallbackIsUnserved
  BY DEF IInv, StageInv, FallbackIsUnserved
<1>. QED  BY <1>1, SpecIInv, PTL

-----------------------------------------------------------------------------
(* The home files: what the programs are.                                  *)

LEMMA CommandsAre ==
  Commands = {"setup", "status", "history", "doctor", "deposit", "blocked_pay", "pay", "proxy",
              "free_proxy", "lost_proxy", "skill_add", "skill_deduct", "skill_purge",
              "core_add", "core_deduct", "core_purge"}
BY DEF Commands, Program

LEMMA ProgramsAre ==
  /\ Program["setup"] = Setup /\ Program["status"] = WalletStatus
  /\ Program["history"] = WalletHistory /\ Program["doctor"] = Doctor
  /\ Program["deposit"] = WalletDeposit /\ Program["blocked_pay"] = BlockedPay
  /\ Program["pay"] = Pay /\ Program["proxy"] = AtomicDeduct
  /\ Program["free_proxy"] = FreeProxy /\ Program["lost_proxy"] = LostProxy
  /\ Program["skill_add"] = SkillAdd
  /\ Program["skill_deduct"] = SkillDeduct /\ Program["skill_purge"] = SkillPurge
  /\ Program["core_add"] = CoreAdd /\ Program["core_deduct"] = CoreDeduct
  /\ Program["core_purge"] = CorePurge
BY DEF Program

Shared == {"config", "history", "credentials"}
CreditCommands == {"skill_add", "skill_deduct", "skill_purge", "core_add", "core_deduct", "core_purge"}

\* What one operation of a program says about its command and its place.
Placed(c, i, n, o, f) ==
  /\ o = "read" => c = "proxy" /\ i = 2 /\ f = "wallet"
  /\ o = "ensure" => c = "setup" /\ i = 2 /\ i < n /\ f = "config"
  /\ o = "hold" => c \in {"deposit", "pay", "proxy"} /\ f = "wallet" /\ i = (IF c = "proxy" THEN 1 ELSE 2) /\ i < n
  /\ o = "drop" => c \in {"deposit", "pay", "proxy"} /\ f = "wallet" /\ i = n /\ i > 3
  /\ o = "present" => c = "skill_deduct" /\ i = 3
  /\ o = "load" /\ f = "config" /\ c = "setup" => i = 1
  /\ o = "replace" => \/ c = "proxy" /\ i = 3 /\ f = "wallet"
                      \/ c \in {"core_add", "core_deduct", "core_purge"} /\ f = "credentials" /\ i = 2
  /\ o = "save" => \/ f = "wallet" /\ i = 4 /\ c \in {"setup", "deposit"}
                   \/ f = "wallet" /\ i = 6 /\ c = "pay"
                   \/ f = "history" /\ c \in {"setup", "blocked_pay"} /\ i = n /\ i > 2 
                   \/ f = "history" /\ c \in {"deposit", "pay"} /\ i > 4
                   \/ f = "credentials" /\ i = 2 /\ c \in {"skill_add", "skill_deduct", "skill_purge"}
  /\ c \in {"deposit", "pay"} /\ i = 2 => o = "hold"
  /\ c \in {"deposit", "pay"} /\ i = 3 => o = "load" /\ f = "wallet"
  /\ c \in {"setup", "blocked_pay"} /\ i = n => o = "save" /\ f = "history"
  /\ c \in CreditCommands =>
       /\ n = IF c = "skill_deduct" THEN 3 ELSE 2
       /\ f = "credentials"
       /\ o = IF i = 1 THEN "load" ELSE IF i = 3 THEN "present"
              ELSE IF c \in {"core_add", "core_deduct", "core_purge"} THEN "replace" ELSE "save"
  /\ c = "setup" => /\ n = 6
                    /\ o = IF i = 2 THEN "ensure" ELSE IF i \in {4, 6} THEN "save" ELSE "load"
                    /\ f = IF i <= 2 THEN "config" ELSE IF i <= 4 THEN "wallet" ELSE "history"
  /\ c = "proxy" => f = "wallet" /\ o = IF i = 1 THEN "hold" ELSE IF i = 2 THEN "read"
                                      ELSE IF i = 3 THEN "replace" ELSE "drop"

\* The two programs that are put together from three parts.
LEMMA DepositIs ==
  /\ Len(WalletDeposit) = 7
  /\ \A i \in 1 .. 7 : WalletDeposit[i] =
       CASE i = 1 -> Op("load", "config") [] i = 2 -> Op("hold", "wallet") [] i = 3 -> Op("load", "wallet")
         [] i = 4 -> Op("save", "wallet") [] i = 5 -> Op("load", "history")
         [] i = 6 -> Op("save", "history") [] i = 7 -> Op("drop", "wallet")
BY DEF WalletDeposit, AddTransaction

LEMMA PayIs ==
  /\ Len(Pay) = 9
  /\ \A i \in 1 .. 9 : Pay[i] =
       CASE i = 1 -> Op("load", "config") [] i = 2 -> Op("hold", "wallet") [] i = 3 -> Op("load", "wallet")
         [] i = 4 -> Op("load", "config") [] i = 5 -> Op("load", "history") [] i = 6 -> Op("save", "wallet")
         [] i = 7 -> Op("load", "history") [] i = 8 -> Op("save", "history") [] i = 9 -> Op("drop", "wallet")
BY DEF Pay, AddTransaction

LEMMA OpsArePlaced ==
  \A c \in Commands : /\ Len(Program[c]) \in Nat
                      /\ \A i \in 1 .. Len(Program[c]) : 
                           Placed(c, i, Len(Program[c]), Program[c][i].op, Program[c][i].file)
<1>. SUFFICES ASSUME NEW c \in Commands
     PROVE  /\ Len(Program[c]) \in Nat
            /\ \A i \in 1 .. Len(Program[c]) :
                 Placed(c, i, Len(Program[c]), Program[c][i].op, Program[c][i].file)
  OBVIOUS
<1>1. CASE c = "setup"
  BY <1>1, ProgramsAre DEF Setup, AddTransaction, Op, Placed, CreditCommands
<1>2. CASE c = "status"
  BY <1>2, ProgramsAre DEF WalletStatus, Op, Placed, CreditCommands
<1>3. CASE c = "history"
  BY <1>3, ProgramsAre DEF WalletHistory, Op, Placed, CreditCommands
<1>4. CASE c = "doctor"
  BY <1>4, ProgramsAre DEF Doctor, Op, Placed, CreditCommands
<1>5. CASE c = "deposit"
  <2>1. Len(Program[c]) = 7
    BY <1>5, ProgramsAre, DepositIs
  <2>2. SUFFICES ASSUME NEW i \in 1 .. 7
                 PROVE  Placed(c, i, 7, Program[c][i].op, Program[c][i].file)
    BY <2>1
  <2>3. CASE i = 1
    BY <1>5, <2>3, ProgramsAre, DepositIs DEF Op, Placed, CreditCommands
  <2>4. CASE i = 2
    BY <1>5, <2>4, ProgramsAre, DepositIs DEF Op, Placed, CreditCommands
  <2>5. CASE i = 3
    BY <1>5, <2>5, ProgramsAre, DepositIs DEF Op, Placed, CreditCommands
  <2>6. CASE i = 4
    BY <1>5, <2>6, ProgramsAre, DepositIs DEF Op, Placed, CreditCommands
  <2>7. CASE i = 5
    BY <1>5, <2>7, ProgramsAre, DepositIs DEF Op, Placed, CreditCommands
  <2>8. CASE i = 6
    BY <1>5, <2>8, ProgramsAre, DepositIs DEF Op, Placed, CreditCommands
  <2>9. CASE i = 7
    BY <1>5, <2>9, ProgramsAre, DepositIs DEF Op, Placed, CreditCommands
  <2>. QED  BY <2>3, <2>4, <2>5, <2>6, <2>7, <2>8, <2>9
<1>6. CASE c = "blocked_pay"
  BY <1>6, ProgramsAre DEF BlockedPay, AddTransaction, Op, Placed, CreditCommands
<1>7. CASE c = "pay"
  <2>1. Len(Program[c]) = 9
    BY <1>7, ProgramsAre, PayIs
  <2>2. SUFFICES ASSUME NEW i \in 1 .. 9
                 PROVE  Placed(c, i, 9, Program[c][i].op, Program[c][i].file)
    BY <2>1
  <2>3. CASE i = 1
    BY <1>7, <2>3, ProgramsAre, PayIs DEF Op, Placed, CreditCommands
  <2>4. CASE i = 2
    BY <1>7, <2>4, ProgramsAre, PayIs DEF Op, Placed, CreditCommands
  <2>5. CASE i = 3
    BY <1>7, <2>5, ProgramsAre, PayIs DEF Op, Placed, CreditCommands
  <2>6. CASE i = 4
    BY <1>7, <2>6, ProgramsAre, PayIs DEF Op, Placed, CreditCommands
  <2>7. CASE i = 5
    BY <1>7, <2>7, ProgramsAre, PayIs DEF Op, Placed, CreditCommands
  <2>8. CASE i = 6
    BY <1>7, <2>8, ProgramsAre, PayIs DEF Op, Placed, CreditCommands
  <2>9. CASE i = 7
    BY <1>7, <2>9, ProgramsAre, PayIs DEF Op, Placed, CreditCommands
  <2>10. CASE i = 8
    BY <1>7, <2>10, ProgramsAre, PayIs DEF Op, Placed, CreditCommands
  <2>11. CASE i = 9
    BY <1>7, <2>11, ProgramsAre, PayIs DEF Op, Placed, CreditCommands
  <2>. QED  BY <2>3, <2>4, <2>5, <2>6, <2>7, <2>8, <2>9, <2>10, <2>11
<1>8. CASE c = "proxy"
  <2>1. Len(Program[c]) = 4
    BY <1>8, ProgramsAre DEF AtomicDeduct
  <2>2. SUFFICES ASSUME NEW i \in 1 .. 4
                 PROVE  Placed(c, i, 4, Program[c][i].op, Program[c][i].file)
    BY <2>1
  <2>3. CASE i = 1
    BY <1>8, <2>3, ProgramsAre DEF AtomicDeduct, Op, Placed, CreditCommands
  <2>4. CASE i = 2
    BY <1>8, <2>4, ProgramsAre DEF AtomicDeduct, Op, Placed, CreditCommands
  <2>5. CASE i = 3
    BY <1>8, <2>5, ProgramsAre DEF AtomicDeduct, Op, Placed, CreditCommands
  <2>6. CASE i = 4
    BY <1>8, <2>6, ProgramsAre DEF AtomicDeduct, Op, Placed, CreditCommands
  <2>. QED  BY <2>3, <2>4, <2>5, <2>6
<1>9. CASE c = "free_proxy"
  BY <1>9, ProgramsAre DEF FreeProxy, Op, Placed, CreditCommands
<1>16. CASE c = "lost_proxy"
  BY <1>16, ProgramsAre DEF LostProxy, Op, Placed, CreditCommands
<1>10. CASE c = "skill_add"
  BY <1>10, ProgramsAre DEF SkillAdd, Op, Placed, CreditCommands
<1>11. CASE c = "skill_deduct"
  BY <1>11, ProgramsAre DEF SkillDeduct, Op, Placed, CreditCommands
<1>12. CASE c = "skill_purge"
  BY <1>12, ProgramsAre DEF SkillPurge, Op, Placed, CreditCommands
<1>13. CASE c = "core_add"
  BY <1>13, ProgramsAre DEF CoreAdd, Op, Placed, CreditCommands
<1>14. CASE c = "core_deduct"
  BY <1>14, ProgramsAre DEF CoreDeduct, Op, Placed, CreditCommands
<1>15. CASE c = "core_purge"
  BY <1>15, ProgramsAre DEF CorePurge, Op, Placed, CreditCommands
<1>. QED  BY <1>1, <1>2, <1>3, <1>4, <1>5, <1>6, <1>7, <1>8, <1>9, <1>10, <1>11, <1>12, <1>13, <1>14, <1>15, <1>16, CommandsAre

LEMMA SomeAreNotEmpty ==
  \A c \in {"setup", "blocked_pay", "proxy"} \cup CreditCommands : Program[c] # <<>>
<1>. SUFFICES ASSUME NEW c \in {"setup", "blocked_pay", "proxy"} \cup CreditCommands
     PROVE  Len(Program[c]) > 0
  OBVIOUS
<1>1. CASE c = "setup"
  BY <1>1, ProgramsAre DEF Setup, AddTransaction
<1>2. CASE c = "blocked_pay"
  BY <1>2, ProgramsAre DEF BlockedPay, AddTransaction
<1>3. CASE c = "proxy"
  BY <1>3, ProgramsAre DEF AtomicDeduct
<1>4. CASE c = "skill_add"
  BY <1>4, ProgramsAre DEF SkillAdd
<1>5. CASE c = "skill_deduct"
  BY <1>5, ProgramsAre DEF SkillDeduct
<1>6. CASE c = "skill_purge"
  BY <1>6, ProgramsAre DEF SkillPurge
<1>7. CASE c = "core_add"
  BY <1>7, ProgramsAre DEF CoreAdd
<1>8. CASE c = "core_deduct"
  BY <1>8, ProgramsAre DEF CoreDeduct
<1>9. CASE c = "core_purge"
  BY <1>9, ProgramsAre DEF CorePurge
<1>. QED  BY <1>1, <1>2, <1>3, <1>4, <1>5, <1>6, <1>7, <1>8, <1>9 DEF CreditCommands

\* The files without a lock are loaded right before they are saved, and the
\* history as well.
LEMMA SaveFollowsLoad ==
  \A c \in Commands : \A i \in 1 .. Len(Program[c]) :
    Program[c][i].op \in {"save", "ensure", "replace"} /\ Program[c][i].file \in Shared
      => i > 1 /\ Program[c][i - 1] = Op("load", Program[c][i].file)
<1>. SUFFICES ASSUME NEW c \in Commands
     PROVE  \A i \in 1 .. Len(Program[c]) :
              Program[c][i].op \in {"save", "ensure", "replace"} /\ Program[c][i].file \in Shared
                => i > 1 /\ Program[c][i - 1] = Op("load", Program[c][i].file)
  OBVIOUS
<1>1. CASE c = "setup"
  BY <1>1, ProgramsAre DEF Setup, AddTransaction, Op, Shared
<1>2. CASE c = "status"
  BY <1>2, ProgramsAre DEF WalletStatus, Op, Shared
<1>3. CASE c = "history"
  BY <1>3, ProgramsAre DEF WalletHistory, Op, Shared
<1>4. CASE c = "doctor"
  BY <1>4, ProgramsAre DEF Doctor, Op, Shared
<1>5. CASE c = "deposit"
  BY <1>5, ProgramsAre, DepositIs DEF Op, Shared
<1>6. CASE c = "blocked_pay"
  BY <1>6, ProgramsAre DEF BlockedPay, AddTransaction, Op, Shared
<1>7. CASE c = "pay"
  BY <1>7, ProgramsAre, PayIs DEF Op, Shared
<1>8. CASE c = "proxy"
  BY <1>8, ProgramsAre DEF AtomicDeduct, Op, Shared
<1>9. CASE c = "free_proxy"
  BY <1>9, ProgramsAre DEF FreeProxy, Op, Shared
<1>16. CASE c = "lost_proxy"
  BY <1>16, ProgramsAre DEF LostProxy, Op, Shared
<1>10. CASE c = "skill_add"
  BY <1>10, ProgramsAre DEF SkillAdd, Op, Shared
<1>11. CASE c = "skill_deduct"
  BY <1>11, ProgramsAre DEF SkillDeduct, Op, Shared
<1>12. CASE c = "skill_purge"
  BY <1>12, ProgramsAre DEF SkillPurge, Op, Shared
<1>13. CASE c = "core_add"
  BY <1>13, ProgramsAre DEF CoreAdd, Op, Shared
<1>14. CASE c = "core_deduct"
  BY <1>14, ProgramsAre DEF CoreDeduct, Op, Shared
<1>15. CASE c = "core_purge"
  BY <1>15, ProgramsAre DEF CorePurge, Op, Shared
<1>. QED  BY <1>1, <1>2, <1>3, <1>4, <1>5, <1>6, <1>7, <1>8, <1>9, <1>10, <1>11, <1>12, <1>13, <1>14, <1>15, <1>16, CommandsAre

-----------------------------------------------------------------------------
(* The invariant's first part: jobs, locks and torn files.                 *)

Results == {"waiting", "running", "ok", "kept", "refused", "raised", "not_served", "killed"}

JobsOK ==
  /\ cmd \in [Jobs -> Commands] /\ step \in [Jobs -> Nat \ {0}]
  /\ phase \in [Jobs -> {"ready", "truncated"}]
  /\ result \in [Jobs -> Results]
  /\ DOMAIN view = Jobs /\ \A j \in Jobs : DOMAIN view[j] = Files
  /\ DOMAIN files = Files
  /\ torn \subseteq exists /\ exists \subseteq Files /\ kills \in Nat /\ kills <= MaxKills
  /\ {tornReads, overlapped} \subseteq SUBSET Files

WaitsAtStart(j) == result[j] = "waiting" => cmd[j] = "doctor" /\ step[j] = 1 /\ phase[j] = "ready"

\* Every lock that is ever held is exclusive, and its owner is running.
LocksOK ==
  /\ \A l \in locks : /\ l \in [file : Guarded, job : Jobs, mode : {"exclusive"}, handle : {"outer", "inner"}]
                      /\ Running(l.job)
  /\ \A l, m \in locks : l.file = m.file => l = m

Outer(j)    == Lock(j, "wallet", "exclusive", "outer")
Inner(j, f) == Lock(j, f, "exclusive", "inner")

\* A deposit or a payment never gets past the lock it holds itself, and a
\* proxied request holds its lock to the end.
HoldsOuter(j) ==
  /\ Running(j) /\ cmd[j] \in {"deposit", "pay"} => step[j] <= 3 /\ (step[j] = 3 => Outer(j) \in locks)
  /\ Running(j) /\ cmd[j] = "proxy" /\ step[j] > 1 => Outer(j) \in locks

\* A job in the middle of a save holds the file's lock, if there is one.
SavesWhole(j, f) == At(j, "save", f) \/ (At(j, "ensure", f) /\ Missing(view[j][f]))
HoldsInner(j) ==
  Running(j) /\ phase[j] = "truncated" =>
    \E f \in Files : SavesWhole(j, f) /\ (f \in Guarded => Inner(j, f) \in locks)

BaseInv == /\ JobsOK /\ LocksOK
           /\ \A j \in Jobs : WaitsAtStart(j) /\ HoldsOuter(j) /\ HoldsInner(j)

\* Before the first kill a torn file has a writer, and nobody met one.
TornHasWriter(f) == f \in torn => \E j \in Jobs : phase[j] = "truncated" /\ SavesWhole(j, f)
ReadsWhole ==
  /\ \A f \in Files : TornHasWriter(f)
  /\ tornReads \intersect Guarded = {}
  /\ \A j \in Jobs : cmd[j] = "proxy" => result[j] # "raised"

TornInv == kills = 0 => ReadsWhole

-----------------------------------------------------------------------------
(* What each step does.                                                    *)

\* A job is at one operation, and its command says which.
LEMMA AtPlace ==
  ASSUME JobsOK, NEW j \in Jobs, NEW o, NEW f, At(j, o, f)
  PROVE  /\ Running(j) /\ cmd[j] \in Commands
         /\ Len(Program[cmd[j]]) \in Nat /\ step[j] \in 1 .. Len(Program[cmd[j]])
         /\ Placed(cmd[j], step[j], Len(Program[cmd[j]]), o, f)
<1>1. cmd[j] \in Commands /\ step[j] \in Nat \ {0} /\ Running(j) /\ step[j] <= Len(Program[cmd[j]])
  BY DEF JobsOK, At
<1>2. Len(Program[cmd[j]]) \in Nat /\ step[j] \in 1 .. Len(Program[cmd[j]])
  BY <1>1, OpsArePlaced
<1>3. Program[cmd[j]][step[j]].op = o /\ Program[cmd[j]][step[j]].file = f
  BY DEF At, Op
<1>. QED  BY <1>1, <1>2, <1>3, OpsArePlaced

LEMMA AtOnce ==
  ASSUME NEW j, NEW o, NEW f, At(j, o, f), NEW p, NEW g, At(j, p, g)
  PROVE  o = p /\ f = g
BY DEF At, Op

\* A step of one job leaves the others and their locks alone.
Same(k) == /\ cmd'[k] = cmd[k] /\ step'[k] = step[k] /\ phase'[k] = phase[k]
           /\ view'[k] = view[k] /\ result'[k] = result[k]
LocksStay(k) == \A l : l.job = k => (l \in locks' <=> l \in locks)

LEMMA FinishFrame ==
  ASSUME JobsOK, NEW j \in Jobs, NEW r \in Results, Finish(j, r)
  PROVE  /\ result' \in [Jobs -> Results]
         /\ DOMAIN view' = Jobs /\ \A k \in Jobs : DOMAIN view'[k] = Files
         /\ \A k \in Jobs \ {j} : /\ view'[k] = view[k] /\ result'[k] = result[k] /\ LocksStay(k)
         /\ result'[j] = r /\ view'[j] = Kept(j) /\ locks' = locks \ HeldBy(j)
BY DEF JobsOK, Finish, Results, HeldBy, LocksStay, Kept
LEMMA AdvanceFrame ==
  ASSUME JobsOK, NEW j \in Jobs, Running(j), step[j] \in 1 .. Len(Program[cmd[j]]),
         NEW held, Advance(j, held), \A l \in held \ locks : l.job = j,
         \A l \in locks \ held : l.job = j
  PROVE  /\ step' \in [Jobs -> Nat \ {0}] /\ result' \in [Jobs -> Results]
         /\ DOMAIN view' = Jobs /\ \A k \in Jobs : DOMAIN view'[k] = Files
         /\ \A k \in Jobs \ {j} : /\ step'[k] = step[k] /\ view'[k] = view[k]
                                  /\ result'[k] = result[k] /\ LocksStay(k)
         /\ \/ /\ step[j] = Len(Program[cmd[j]]) /\ step' = step /\ result'[j] = "ok"
               /\ locks' = locks \ HeldBy(j) /\ view'[j] = Kept(j)
            \/ /\ step[j] < Len(Program[cmd[j]]) /\ step'[j] = step[j] + 1 /\ result'[j] = "running"
               /\ locks' = held /\ view' = view
<1>1. CASE step[j] = Len(Program[cmd[j]])
  <2>1. Finish(j, "ok") /\ step' = step /\ "ok" \in Results
    BY <1>1 DEF Advance, Results
  <2>. QED  BY <1>1, <2>1, FinishFrame DEF JobsOK
<1>2. CASE step[j] # Len(Program[cmd[j]])
  <2>1. /\ step' = [step EXCEPT ![j] = @ + 1] /\ locks' = held
        /\ result' = result /\ view' = view
    BY <1>2 DEF Advance
  <2>2. Len(Program[cmd[j]]) \in Nat
    BY OpsArePlaced DEF JobsOK
  <2>. QED  BY <1>2, <2>1, <2>2 DEF JobsOK, LocksStay, Running
<1>. QED  BY <1>1, <1>2


Frame(j) == /\ JobsOK' /\ cmd' = cmd /\ kills' = kills
            /\ \A k \in Jobs \ {j} : Same(k) /\ LocksStay(k)
Ends(j, r) == /\ step' = step /\ result'[j] = r /\ view'[j] = Kept(j)
              /\ locks' = locks \ HeldBy(j)
Moves(j, held) == /\ step[j] < Len(Program[cmd[j]]) /\ step'[j] = step[j] + 1
                  /\ result'[j] = "running" /\ locks' = held
EndsOrMoves(j, held) == \/ step[j] = Len(Program[cmd[j]]) /\ Ends(j, "ok")
                        \/ Moves(j, held) /\ view' = view

LEMMA AdvanceDoes ==
  ASSUME JobsOK, NEW j \in Jobs, NEW o, NEW f, At(j, o, f), NEW held, Advance(j, held),
         \A l \in held \ locks : l.job = j, \A l \in locks \ held : l.job = j,
         cmd' = cmd, kills' = kills, phase' \in [Jobs -> {"ready", "truncated"}],
         \A k \in Jobs \ {j} : phase'[k] = phase[k],
         DOMAIN files' = Files, torn' \subseteq exists', exists' \subseteq Files,
         {tornReads', overlapped'} \subseteq SUBSET Files
  PROVE  Frame(j) /\ EndsOrMoves(j, held)
<1>1. /\ Running(j) /\ step[j] \in 1 .. Len(Program[cmd[j]])
  BY AtPlace
<1>2. \/ /\ step[j] = Len(Program[cmd[j]]) /\ step' = step /\ result'[j] = "ok"
         /\ locks' = locks \ HeldBy(j) /\ view'[j] = Kept(j)
      \/ /\ step[j] < Len(Program[cmd[j]]) /\ step'[j] = step[j] + 1 /\ result'[j] = "running"
         /\ locks' = held /\ view' = view
  BY <1>1, AdvanceFrame
<1>3. /\ step' \in [Jobs -> Nat \ {0}] /\ result' \in [Jobs -> Results]
      /\ DOMAIN view' = Jobs /\ \A k \in Jobs : DOMAIN view'[k] = Files
      /\ \A k \in Jobs \ {j} : /\ step'[k] = step[k] /\ view'[k] = view[k]
                               /\ result'[k] = result[k] /\ LocksStay(k)
  BY <1>1, AdvanceFrame
<1>4. JobsOK'
  BY <1>3 DEF JobsOK
<1>5. Frame(j)
  BY <1>3, <1>4 DEF Frame, Same
<1>. QED  BY <1>2, <1>5 DEF EndsOrMoves, Ends, Moves

LEMMA FinishDoes ==
  ASSUME JobsOK, NEW j \in Jobs, NEW r \in Results, Finish(j, r),
         cmd' = cmd, step' = step, phase' = phase, kills' = kills,
         files' = files, torn' = torn, exists' = exists, {tornReads', overlapped'} \subseteq SUBSET Files
  PROVE  Frame(j) /\ Ends(j, r)
<1>1. JobsOK'
  BY FinishFrame DEF JobsOK
<1>. QED  BY <1>1, FinishFrame DEF Frame, Ends, Same

LEMMA HoldDoes ==
  ASSUME JobsOK, NEW j \in Jobs, Hold(j)
  PROVE  /\ Frame(j) /\ At(j, "hold", "wallet") /\ Free("wallet", "exclusive")
         /\ Moves(j, locks \cup {Outer(j)}) /\ view' = view
<1>1. PICK f \in Guarded : /\ At(j, "hold", f) /\ Free(f, "exclusive")
                          /\ Advance(j, locks \cup {Lock(j, f, "exclusive", "outer")})
  BY DEF Hold
<1>2. f = "wallet" /\ step[j] < Len(Program[cmd[j]])
  BY <1>1, AtPlace DEF Placed
<1>3. Lock(j, f, "exclusive", "outer").job = j
  BY DEF Lock
<1>4. Frame(j) /\ EndsOrMoves(j, locks \cup {Lock(j, f, "exclusive", "outer")})
  BY <1>1, <1>3, AdvanceDoes DEF Hold, JobsOK
<1>. QED  BY <1>1, <1>2, <1>4 DEF EndsOrMoves, Outer

LEMMA DropDoes ==
  ASSUME JobsOK, NEW j \in Jobs, Drop(j)
  PROVE  Frame(j) /\ At(j, "drop", "wallet") /\ Ends(j, "ok")
<1>1. PICK f \in Guarded : At(j, "drop", f) /\ Advance(j, locks \ HeldBy(j))
  BY DEF Drop
<1>2. f = "wallet" /\ step[j] = Len(Program[cmd[j]]) /\ Len(Program[cmd[j]]) \in Nat
  BY <1>1, AtPlace DEF Placed
<1>3. Frame(j) /\ EndsOrMoves(j, locks \ HeldBy(j))
  BY <1>1, AdvanceDoes DEF Drop, JobsOK, HeldBy
<1>. QED  BY <1>1, <1>2, <1>3 DEF EndsOrMoves, Moves

\* The four ways a load goes.
Loads(j, o, f) ==
  \/ Raises(j, f, o) /\ Ends(j, "raised") /\ overlapped' = overlapped
  \/ ~Raises(j, f, o) /\ Stops(j, f, Found(f)) /\ Ends(j, StopsWith(j)) /\ overlapped' = overlapped
  \/ /\ ~Raises(j, f, o) /\ ~Stops(j, f, Found(f))
     /\ overlapped' = overlapped \cup (IF \E k \in Jobs \ {j} : Rewrites(k, f) THEN {f} ELSE {})
     /\ \/ step[j] = Len(Program[cmd[j]]) /\ Ends(j, "ok")
        \/ /\ Moves(j, locks) /\ view'[j][f] = Found(f)
           /\ \A g \in Files \ {f} : view'[j][g] = view[j][g]

LEMMA LoadDoes ==
  ASSUME JobsOK, NEW j \in Jobs, Load(j)
  PROVE  \E f \in Files, o \in {"load", "read"} :
           /\ At(j, o, f) /\ Shares(j, o, f) /\ tornReads' = tornReads \cup ({f} \cap torn)
           /\ Frame(j) /\ Loads(j, o, f) /\ lapsed' = lapsed
<1>1. PICK f \in Files, o \in {"load", "read"} :
        /\ At(j, o, f) /\ Shares(j, o, f) /\ tornReads' = tornReads \cup ({f} \cap torn)
        /\ IF Raises(j, f, o)
           THEN Finish(j, "raised") /\ UNCHANGED <<step, overlapped>>
           ELSE IF Stops(j, f, Found(f))
           THEN Finish(j, StopsWith(j)) /\ UNCHANGED <<step, overlapped>>
           ELSE /\ IF step[j] = Len(Program[cmd[j]])
                   THEN Finish(j, "ok") /\ UNCHANGED step
                   ELSE /\ view' = [view EXCEPT ![j][f] = Found(f)]
                        /\ step' = [step EXCEPT ![j] = @ + 1]
                        /\ UNCHANGED <<result, locks>>
                /\ overlapped' = IF \E k \in Jobs \ {j} : Rewrites(k, f)
                                  THEN overlapped \cup {f} ELSE overlapped
        /\ UNCHANGED <<files, torn, exists, cmd, phase, kills, lapsed>>
  BY DEF Load
<1>2. {tornReads', overlapped'} \subseteq SUBSET Files
  BY <1>1 DEF JobsOK
<1>3. StopsWith(j) \in Results /\ "raised" \in Results /\ "ok" \in Results
  BY DEF StopsWith, Results
<1>4. CASE Raises(j, f, o) 
  BY <1>1, <1>2, <1>3, <1>4, FinishDoes DEF Loads
<1>5. CASE ~Raises(j, f, o) /\ Stops(j, f, Found(f))
  BY <1>1, <1>2, <1>3, <1>5, FinishDoes DEF Loads
<1>6. CASE /\ ~Raises(j, f, o) /\ ~Stops(j, f, Found(f)) /\ step[j] = Len(Program[cmd[j]])
  <2>1. Finish(j, "ok") /\ step' = step
    BY <1>1, <1>6
  <2>2. Frame(j) /\ Ends(j, "ok")
    BY <1>1, <1>2, <1>3, <2>1, FinishDoes
  <2>. QED  BY <1>1, <1>6, <2>2 DEF Loads
<1>7. CASE /\ ~Raises(j, f, o) /\ ~Stops(j, f, Found(f)) /\ step[j] # Len(Program[cmd[j]])
  <2>1. /\ view' = [view EXCEPT ![j][f] = Found(f)] /\ step' = [step EXCEPT ![j] = @ + 1]
        /\ UNCHANGED <<result, locks>>
    BY <1>1, <1>7
  <2>2. step[j] < Len(Program[cmd[j]]) /\ Running(j)
    BY <1>1, <1>7, AtPlace
  <2>3. JobsOK'
    BY <1>1, <1>2, <2>1 DEF JobsOK
  <2>4. Frame(j)
    BY <1>1, <2>1, <2>3 DEF Frame, Same, LocksStay, JobsOK
  <2>5. /\ Moves(j, locks) /\ view'[j][f] = Found(f)
        /\ \A g \in Files \ {f} : view'[j][g] = view[j][g]
    BY <2>1, <2>2 DEF Moves, JobsOK, Running
  <2>6. overlapped' = overlapped \cup (IF \E k \in Jobs \ {j} : Rewrites(k, f) THEN {f} ELSE {})
    BY <1>1, <1>7
  <2>. QED  BY <1>1, <1>7, <2>4, <2>5, <2>6 DEF Loads
<1>. QED  BY <1>4, <1>5, <1>6, <1>7

LEMMA TruncateDoes ==
  ASSUME JobsOK, NEW j \in Jobs, Truncate(j)
  PROVE  \E f \in Files :
           /\ SavesWhole(j, f) /\ phase[j] = "ready" /\ phase'[j] = "truncated"
           /\ f \in Guarded => Free(f, "exclusive")
           /\ torn' = torn \cup {f} /\ exists' = exists \cup {f}
           /\ locks' = IF f \in Guarded THEN locks \cup {Inner(j, f)} ELSE locks
           /\ Frame(j) /\ lapsed' = lapsed
<1>1. PICK f \in Files, o \in {"save", "ensure"} :
        /\ At(j, o, f) /\ phase[j] = "ready"
        /\ o = "ensure" => Missing(view[j][f])
        /\ f \in Guarded => Free(f, "exclusive")
        /\ phase' = [phase EXCEPT ![j] = "truncated"]
        /\ torn' = torn \cup {f}
        /\ exists' = exists \cup {f}
        /\ locks' = IF f \in Guarded THEN locks \cup {Lock(j, f, "exclusive", "inner")} ELSE locks
        /\ UNCHANGED <<files, cmd, step, view, result, kills, tornReads, overlapped, lapsed>>
  BY DEF Truncate
<1>2. JobsOK'
  BY <1>1 DEF JobsOK
<1>3. Frame(j)
  BY <1>1, <1>2 DEF Frame, Same, LocksStay, Lock, JobsOK
<1>. QED  BY <1>1, <1>3 DEF SavesWhole, Inner, JobsOK

LEMMA WriteDoes ==
  ASSUME JobsOK, NEW j \in Jobs, Write(j)
  PROVE  \E f \in Files :
           /\ At(j, "save", f) \/ At(j, "ensure", f)
           /\ phase[j] = "truncated" /\ phase'[j] = "ready"
           /\ files' = [files EXCEPT ![f] = Change(j, f)] /\ torn' = torn \ {f} /\ exists' = exists
           /\ tornReads' = tornReads /\ overlapped' = overlapped
           /\ lapsed' = lapsed + Lapses(j, f)
           /\ Frame(j) /\ EndsOrMoves(j, {l \in locks : ~(l.job = j /\ l.handle = "inner")})
<1>1. PICK f \in Files, o \in {"save", "ensure"} :
        /\ At(j, o, f) /\ phase[j] = "truncated"
        /\ phase' = [phase EXCEPT ![j] = "ready"]
        /\ files' = [files EXCEPT ![f] = Change(j, f)]
        /\ torn' = torn \ {f} /\ lapsed' = lapsed + Lapses(j, f)
        /\ Advance(j, {l \in locks : ~(l.job = j /\ l.handle = "inner")})
        /\ UNCHANGED <<exists, cmd, kills, tornReads, overlapped>>
  BY DEF Write
<1>2. /\ phase' \in [Jobs -> {"ready", "truncated"}] /\ DOMAIN files' = Files
      /\ \A k \in Jobs \ {j} : phase'[k] = phase[k]
      /\ torn' \subseteq exists' /\ exists' \subseteq Files /\ {tornReads', overlapped'} \subseteq SUBSET Files
  BY <1>1 DEF JobsOK
<1>3. Frame(j) /\ EndsOrMoves(j, {l \in locks : ~(l.job = j /\ l.handle = "inner")})
  BY <1>1, <1>2, AdvanceDoes
<1>. QED  BY <1>1, <1>3 DEF JobsOK

LEMMA SkipEnsureDoes ==
  ASSUME JobsOK, NEW j \in Jobs, SkipEnsure(j)
  PROVE  /\ At(j, "ensure", "config") /\ ~Missing(view[j]["config"])
         /\ Frame(j) /\ Moves(j, locks) /\ view' = view
<1>1. At(j, "ensure", "config") /\ Advance(j, locks)
  BY DEF SkipEnsure
<1>2. step[j] < Len(Program[cmd[j]])
  BY <1>1, AtPlace DEF Placed
<1>3. Frame(j) /\ EndsOrMoves(j, locks)
  BY <1>1, AdvanceDoes DEF SkipEnsure, JobsOK
<1>. QED  BY <1>2, <1>3 DEF SkipEnsure, EndsOrMoves

LEMMA ReplaceDoes ==
  ASSUME JobsOK, NEW j \in Jobs, Replace(j)
  PROVE  \E f \in Files :
           /\ At(j, "replace", f)
           /\ files' = [files EXCEPT ![f] = Change(j, f)]
           /\ torn' = torn \ {f} /\ exists' = exists \cup {f}
           /\ lapsed' = lapsed + Lapses(j, f)
           /\ Frame(j) /\ EndsOrMoves(j, locks)
<1>1. PICK f \in Files : /\ At(j, "replace", f)
                        /\ files' = [files EXCEPT ![f] = Change(j, f)]
                        /\ torn' = torn \ {f} /\ exists' = exists \cup {f}
                        /\ lapsed' = lapsed + Lapses(j, f)
                        /\ Advance(j, locks)
  BY DEF Replace
<1>2. /\ DOMAIN files' = Files /\ torn' \subseteq exists' /\ exists' \subseteq Files
  BY <1>1 DEF JobsOK
<1>3. Frame(j) /\ EndsOrMoves(j, locks)
  BY <1>1, <1>2, AdvanceDoes DEF Replace, JobsOK
<1>. QED  BY <1>1, <1>3

LEMMA PresentDoes ==
  ASSUME JobsOK, NEW j \in Jobs, Present(j)
  PROVE  /\ At(j, "present", "credentials") /\ Frame(j)
         /\ Ends(j, "ok") \/ Ends(j, "not_served")
<1>1. At(j, "present", "credentials") /\ (Finish(j, "ok") \/ Finish(j, "not_served"))
  BY DEF Present
<1>2. "ok" \in Results /\ "not_served" \in Results
  BY DEF Results
<1>. QED  BY <1>1, <1>2, FinishDoes DEF Present, JobsOK

LEMMA StartDoes ==
  ASSUME JobsOK, NEW j \in Jobs, NEW c \in CommandsOf[j], Start(j, c)
  PROVE  /\ JobsOK' /\ result[j] = "waiting" /\ cmd'[j] = c /\ c \in Commands
         /\ result'[j] \in {"ok", "raised", "running"}
         /\ result'[j] = "running" <=> Program[c] # <<>>
         /\ \A k \in Jobs \ {j} : Same(k)
         /\ UNCHANGED <<files, torn, exists, locks, step, phase, view, kills, tornReads, overlapped,
                        lapsed>>
<1>1. c \in Commands
  BY JobsAssumption
<1>2. JobsOK'
  BY <1>1 DEF Start, JobsOK, Results
<1>. QED  BY <1>1, <1>2 DEF Start, Same, JobsOK

LEMMA KillDoes ==
  ASSUME JobsOK, NEW p, Kill(p)
  PROVE  /\ JobsOK' /\ kills' = kills + 1 /\ kills' # 0
         /\ UNCHANGED <<files, torn, exists, cmd, step, phase, tornReads, overlapped, lapsed>>
         /\ \A k \in Jobs : IF Process[k] = p /\ Running(k)
                           THEN result'[k] = "killed" /\ view'[k] = [f \in Files |-> {}]
                           ELSE Same(k)
         /\ locks' = {l \in locks : ~(l.job \in Jobs /\ Process[l.job] = p /\ Running(l.job))}
<1>1. /\ kills < MaxKills /\ kills' = kills + 1
      /\ result' = [j \in Jobs |-> IF Process[j] = p /\ Running(j) THEN "killed" ELSE result[j]]
      /\ locks' = {l \in locks : ~(l.job \in Jobs /\ Process[l.job] = p /\ Running(l.job))}
      /\ view' = [j \in Jobs |-> IF Process[j] = p /\ Running(j) THEN [f \in Files |-> {}] ELSE view[j]]
      /\ UNCHANGED <<files, torn, exists, cmd, step, phase, tornReads, overlapped, lapsed>>
  BY DEF Kill
<1>2. JobsOK'
  BY <1>1, AmountAssumption DEF JobsOK, Results
<1>3. \A k \in Jobs : IF Process[k] = p /\ Running(k)
                    THEN result'[k] = "killed" /\ view'[k] = [f \in Files |-> {}]
                    ELSE Same(k)
  BY <1>1 DEF Same, JobsOK
<1>. QED  BY <1>1, <1>2, <1>3 DEF JobsOK

\* No job notices that a credential expires.
LEMMA ExpireDoes ==
  ASSUME JobsOK, Expire
  PROVE  /\ JobsOK' /\ \A k \in Jobs : Same(k) /\ ~Rewrites(k, "credentials")
         /\ \A f \in Files \ {"credentials"} : files'[f] = files[f]
         /\ \E c \in files["credentials"] :
              c.live /\ files'["credentials"] =
                          (files["credentials"] \ {c}) \cup {[c EXCEPT !.live = FALSE]}
         /\ UNCHANGED <<torn, exists, locks, cmd, step, phase, view, result, kills, tornReads,
                        overlapped, lapsed>>
<1>1. PICK c \in files["credentials"] :
        /\ c.live
        /\ files' = [files EXCEPT !["credentials"] = (@ \ {c}) \cup {[c EXCEPT !.live = FALSE]}]
  BY DEF Expire
<1>2. /\ \A k \in Jobs : ~Rewrites(k, "credentials")
      /\ UNCHANGED <<torn, exists, locks, cmd, step, phase, view, result, kills, tornReads,
                     overlapped, lapsed>>
  BY DEF Expire
<1>3. DOMAIN files = Files /\ "credentials" \in Files
  BY DEF JobsOK, Files
<1>4. JobsOK'
  BY <1>1, <1>2 DEF JobsOK
<1>. QED  BY <1>1, <1>2, <1>3, <1>4 DEF Same

-----------------------------------------------------------------------------
(* The locks, whoever is killed.                                           *)

LEMMA OthersStay ==
  ASSUME NEW k, Same(k)
  PROVE  /\ Running(k)' <=> Running(k)
         /\ \A o, f : At(k, o, f)' <=> At(k, o, f)
         /\ \A f : SavesWhole(k, f)' <=> SavesWhole(k, f)
         /\ WaitsAtStart(k) => WaitsAtStart(k)'
BY DEF Same, Running, At, SavesWhole, WaitsAtStart, Missing

LEMMA OthersHold ==
  ASSUME NEW k, Same(k), LocksStay(k)
  PROVE  /\ HoldsOuter(k) => HoldsOuter(k)'
         /\ HoldsInner(k) => HoldsInner(k)'
<1>1. Outer(k).job = k /\ \A f : Inner(k, f).job = k
  BY DEF Outer, Inner, Lock
<1>2. Outer(k) \in locks' <=> Outer(k) \in locks
  BY <1>1 DEF LocksStay
<1>3. \A f : Inner(k, f) \in locks' <=> Inner(k, f) \in locks
  BY <1>1 DEF LocksStay
<1>4. HoldsOuter(k) => HoldsOuter(k)'
  BY <1>2 DEF HoldsOuter, Same, Running, Outer
<1>5. HoldsInner(k) => HoldsInner(k)'
  BY <1>3, OthersStay DEF HoldsInner, Same
<1>. QED  BY <1>4, <1>5

LEMMA FrameBase ==
  ASSUME BaseInv, NEW j \in Jobs, Frame(j),
         LocksOK', WaitsAtStart(j)', HoldsOuter(j)', HoldsInner(j)'
  PROVE  BaseInv'
<1>1. \A k \in Jobs \ {j} : WaitsAtStart(k)' /\ HoldsOuter(k)' /\ HoldsInner(k)'
  BY OthersStay, OthersHold DEF BaseInv, Frame
<1>. QED  BY <1>1 DEF BaseInv, Frame

LEMMA BaseEnds ==
  ASSUME BaseInv, NEW j \in Jobs, Frame(j), NEW r, Ends(j, r), r \notin {"waiting", "running"}
  PROVE  BaseInv'
<1>1. WaitsAtStart(j)' /\ HoldsOuter(j)' /\ HoldsInner(j)'
  BY DEF Ends, WaitsAtStart, HoldsOuter, HoldsInner, Running
<1>2. LocksOK'
  <2>1. \A l \in locks' : l \in locks /\ l.job # j
    BY DEF Ends, HeldBy
  <2>2. \A k \in Jobs \ {j} : Running(k) => Running(k)'
    BY OthersStay DEF Frame
  <2>. QED  BY <2>1, <2>2 DEF LocksOK, BaseInv
<1>. QED  BY <1>1, <1>2, FrameBase

LEMMA LocksMove ==
  ASSUME BaseInv, NEW j \in Jobs, Running(j), Frame(j), NEW held, Moves(j, held),
         \A l \in held \ locks : /\ l \in [file : Guarded, job : {j}, mode : {"exclusive"}, handle : {"outer", "inner"}]
                                /\ Free(l.file, "exclusive"),
         \A l, m \in held \ locks : l = m
  PROVE  LocksOK' /\ WaitsAtStart(j)'
<1>1. WaitsAtStart(j)' /\ Running(j)' /\ locks' = held
  BY DEF Moves, WaitsAtStart, Running
<1>2. \A k \in Jobs \ {j} : Running(k) => Running(k)'
  BY OthersStay DEF Frame
<1>3. \A l \in held : /\ l \in [file : Guarded, job : Jobs, mode : {"exclusive"}, handle : {"outer", "inner"}]
                     /\ Running(l.job)'
  BY <1>1, <1>2 DEF LocksOK, BaseInv
<1>4. \A l \in held \ locks, m \in locks : l.file # m.file
  BY DEF Free
<1>5. \A l, m \in held : l.file = m.file => l = m
  BY <1>4 DEF LocksOK, BaseInv
<1>. QED  BY <1>1, <1>3, <1>5 DEF LocksOK

\* A job that is in the middle of a save does nothing else.
LEMMA MidSave ==
  ASSUME BaseInv, NEW j \in Jobs, NEW o, NEW f, At(j, o, f),
         phase[j] = "truncated"
  PROVE  /\ SavesWhole(j, f) /\ o \in {"save", "ensure"} /\ (o = "ensure" => Missing(view[j][f]))
         /\ f \in Guarded => Inner(j, f) \in locks
<1>1. HoldsInner(j) /\ Running(j)
  BY DEF BaseInv, At
<1>2. PICK g \in Files : SavesWhole(j, g) /\ (g \in Guarded => Inner(j, g) \in locks)
  BY <1>1 DEF HoldsInner
<1>3. g = f /\ o \in {"save", "ensure"} /\ (o = "ensure" => Missing(view[j][g]))
  <2>1. CASE At(j, "save", g)
    BY <2>1, AtOnce
  <2>2. CASE At(j, "ensure", g) /\ Missing(view[j][g])
    BY <2>2, AtOnce
  <2>. QED  BY <1>2, <2>1, <2>2 DEF SavesWhole
<1>. QED  BY <1>2, <1>3

\* A deposit or a payment does not get beyond its own lock.
LEMMA NoLoadUnderLock ==
  ASSUME BaseInv, NEW j \in Jobs, NEW o, NEW f, At(j, o, f), cmd[j] \in {"deposit", "pay"},
         step[j] = 3, Shares(j, o, f)
  PROVE  o = "load" /\ f = "wallet" /\ Stops(j, f, Found(f))
<1>1. o = "load" /\ f = "wallet"
  BY AtPlace DEF BaseInv, Placed
<1>2. Outer(j) \in locks
  BY AtPlace DEF BaseInv, HoldsOuter
<1>3. ~Free("wallet", "shared")
  BY <1>2 DEF Free, Outer, Lock
<1>4. Found(f) = {}
  BY <1>1, <1>3 DEF Shares, Found, Guarded
<1>. QED  BY <1>1, <1>4 DEF Stops

\* What a step on may hold and drop.
LEMMA BaseMoves ==
  ASSUME BaseInv, NEW j \in Jobs, Frame(j), NEW held, Moves(j, held),
         NEW o, NEW f, At(j, o, f),
         o = "hold" => Outer(j) \in held,
         cmd[j] \in {"deposit", "pay"} => step[j] # 3,
         \A l \in held \ locks : /\ l \in [file : Guarded, job : {j}, mode : {"exclusive"}, handle : {"outer", "inner"}]
                                /\ Free(l.file, "exclusive"),
         \A l, m \in held \ locks : l = m,
         \A l \in locks \ held : l.handle = "inner",
         phase'[j] = "ready"
  PROVE  BaseInv'
<1>1. LocksOK' /\ WaitsAtStart(j)'
  BY LocksMove DEF At
<1>2. HoldsInner(j)'
  BY DEF HoldsInner
<1>3. HoldsOuter(j)'
  <2>1. Placed(cmd[j], step[j], Len(Program[cmd[j]]), o, f) /\ step[j] \in Nat \ {0} /\ Running(j)
    BY AtPlace DEF BaseInv
  <2>2. locks' = held /\ step'[j] = step[j] + 1 /\ cmd' = cmd
    BY DEF Moves, Frame
  <2>3. Outer(j).handle = "outer"
    BY DEF Outer, Lock
  <2>4. Outer(j) \in locks => Outer(j) \in held
    BY <2>3
  <2>5. CASE cmd[j] = "proxy"
    <3>1. step[j] = 1 => o = "hold"
      BY <2>1, <2>5 DEF Placed
    <3>2. step[j] > 1 => Outer(j) \in locks
      BY <2>1, <2>5 DEF BaseInv, HoldsOuter
    <3>3. Outer(j) \in held
      BY <2>1, <2>4, <3>1, <3>2
    <3>. QED  BY <2>2, <2>5, <3>3 DEF HoldsOuter, Outer
  <2>6. CASE cmd[j] \in {"deposit", "pay"}
    <3>1. step[j] \in {1, 2} /\ (step[j] = 2 => Outer(j) \in held)
      BY <2>1, <2>6 DEF BaseInv, HoldsOuter, Placed
    <3>. QED  BY <2>2, <2>6, <3>1 DEF HoldsOuter, Outer
  <2>. QED  BY <2>2, <2>5, <2>6 DEF HoldsOuter
<1>. QED  BY <1>1, <1>2, <1>3, FrameBase

LEMMA WorkBase ==
  ASSUME BaseInv, NEW j \in Jobs, Work(j)
  PROVE  BaseInv'
<1>0. JobsOK
  BY DEF BaseInv
<1>1. CASE Hold(j)
  <2>1. /\ Frame(j) /\ At(j, "hold", "wallet") /\ Free("wallet", "exclusive")
        /\ Moves(j, locks \cup {Outer(j)}) /\ phase' = phase
    BY <1>0, <1>1, HoldDoes DEF Hold
  <2>2. phase[j] = "ready"
    BY <1>0, <2>1, MidSave DEF JobsOK
  <2>3. /\ Outer(j) \in [file : Guarded, job : {j}, mode : {"exclusive"}, handle : {"outer", "inner"}]
        /\ Outer(j).file = "wallet"
    BY DEF Outer, Lock, Guarded
  <2>4. cmd[j] \in {"deposit", "pay"} => step[j] # 3
    BY <1>0, <2>1, AtPlace DEF Placed
  <2>. QED  BY <2>1, <2>2, <2>3, <2>4, BaseMoves
<1>2. CASE Drop(j)
  BY <1>0, <1>2, DropDoes, BaseEnds
<1>3. CASE Load(j)
  <2>1. PICK f \in Files, o \in {"load", "read"} :
           /\ At(j, o, f) /\ Shares(j, o, f) /\ tornReads' = tornReads \cup ({f} \cap torn)
           /\ Frame(j) /\ Loads(j, o, f)
    BY <1>0, <1>3, LoadDoes
  <2>2. CASE \E r \in {"raised", StopsWith(j), "ok"} : Ends(j, r)
    BY <2>1, <2>2, BaseEnds DEF StopsWith
  <2>3. CASE Moves(j, locks) /\ ~Stops(j, f, Found(f))
    <3>1. cmd[j] \in {"deposit", "pay"} => step[j] # 3
      BY <2>1, <2>3, NoLoadUnderLock
    <3>2. phase'[j] = "ready"
      BY <1>0, <1>3, <2>1, MidSave DEF JobsOK, Load
    <3>. QED  BY <2>1, <2>3, <3>1, <3>2, BaseMoves
  <2>. QED  BY <2>1, <2>2, <2>3 DEF Loads
<1>4. CASE Truncate(j)
  <2>1. PICK f \in Files :
           /\ SavesWhole(j, f) /\ phase[j] = "ready" /\ phase'[j] = "truncated"
           /\ f \in Guarded => Free(f, "exclusive")
           /\ locks' = IF f \in Guarded THEN locks \cup {Inner(j, f)} ELSE locks
           /\ Frame(j)
    BY <1>0, <1>4, TruncateDoes
  <2>2. cmd' = cmd /\ step' = step /\ result' = result /\ view' = view /\ Running(j)
    BY <1>4, <2>1 DEF Truncate, SavesWhole, At
  <2>3. WaitsAtStart(j)' /\ HoldsOuter(j)'
    BY <2>1, <2>2 DEF WaitsAtStart, Running, HoldsOuter, BaseInv, Outer
  <2>4. HoldsInner(j)'
    BY <2>1, <2>2 DEF HoldsInner, SavesWhole, At, Running, Inner
  <2>5. LocksOK'
    <3>1. f \in Guarded => /\ Inner(j, f) \in [file : Guarded, job : Jobs, mode : {"exclusive"}, handle : {"outer", "inner"}]
                           /\ Inner(j, f).file = f /\ Inner(j, f).job = j
      BY DEF Inner, Lock
    <3>2. f \in Guarded => \A l \in locks : l.file # f
      BY <2>1 DEF Free
    <3>. QED  BY <2>1, <2>2, <3>1, <3>2 DEF LocksOK, BaseInv, Running
  <2>. QED  BY <2>1, <2>3, <2>4, <2>5, FrameBase
<1>5. CASE Write(j)
  <2>0. DEFINE held == {l \in locks : ~(l.job = j /\ l.handle = "inner")}
  <2>1. PICK f \in Files :
           /\ At(j, "save", f) \/ At(j, "ensure", f)
           /\ phase'[j] = "ready"
           /\ Frame(j) /\ EndsOrMoves(j, held)
    BY <1>0, <1>5, WriteDoes
  <2>2. CASE Ends(j, "ok")
    BY <2>1, <2>2, BaseEnds
  <2>3. CASE Moves(j, held)
    <3>1. PICK o \in {"save", "ensure"} : At(j, o, f)
      BY <2>1
    <3>2. cmd[j] \in {"deposit", "pay"} => step[j] # 3
      BY <1>0, <3>1, AtPlace DEF Placed
    <3>. QED  BY <2>1, <2>3, <3>1, <3>2, BaseMoves
  <2>. QED  BY <2>1, <2>2, <2>3 DEF EndsOrMoves
<1>6. CASE SkipEnsure(j)
  <2>1. /\ At(j, "ensure", "config") /\ ~Missing(view[j]["config"])
        /\ Frame(j) /\ Moves(j, locks) /\ phase' = phase
    BY <1>0, <1>6, SkipEnsureDoes DEF SkipEnsure
  <2>2. phase[j] = "ready"
    BY <1>0, <2>1, MidSave DEF JobsOK
  <2>3. cmd[j] \in {"deposit", "pay"} => step[j] # 3
    BY <1>0, <2>1, AtPlace DEF Placed
  <2>. QED  BY <2>1, <2>2, <2>3, BaseMoves
<1>7. CASE Replace(j)
  <2>1. PICK f \in Files : At(j, "replace", f) /\ Frame(j) /\ EndsOrMoves(j, locks)
    BY <1>0, <1>7, ReplaceDoes
  <2>2. CASE Ends(j, "ok")
    BY <2>1, <2>2, BaseEnds
  <2>3. CASE Moves(j, locks)
    <3>1. phase'[j] = "ready"
      BY <1>0, <1>7, <2>1, MidSave DEF JobsOK, Replace
    <3>2. cmd[j] \in {"deposit", "pay"} => step[j] # 3
      BY <1>0, <2>1, AtPlace DEF Placed
    <3>. QED  BY <2>1, <2>3, <3>1, <3>2, BaseMoves
  <2>. QED  BY <2>1, <2>2, <2>3 DEF EndsOrMoves
<1>8. CASE Present(j)
  BY <1>0, <1>8, PresentDoes, BaseEnds
<1>. QED  BY <1>1, <1>2, <1>3, <1>4, <1>5, <1>6, <1>7, <1>8 DEF Work

LEMMA StartBase ==
  ASSUME BaseInv, NEW j \in Jobs, NEW c \in CommandsOf[j], Start(j, c)
  PROVE  BaseInv'
<1>0. JobsOK
  BY DEF BaseInv
<1>1. /\ JobsOK' /\ result[j] = "waiting" /\ result'[j] \in {"ok", "raised", "running"}
      /\ \A k \in Jobs \ {j} : Same(k)
      /\ UNCHANGED <<locks, step, phase>>
  BY <1>0, StartDoes
<1>2. step[j] = 1 /\ phase[j] = "ready" /\ ~Running(j)
  BY <1>1 DEF BaseInv, WaitsAtStart, Running
<1>3. LocksOK'
  <2>1. \A l \in locks : l.job \in Jobs \ {j} /\ Running(l.job)
    BY <1>2 DEF BaseInv, LocksOK
  <2>. QED  BY <1>1, <2>1, OthersStay DEF BaseInv, LocksOK
<1>4. WaitsAtStart(j)' /\ HoldsOuter(j)' /\ HoldsInner(j)'
  BY <1>1, <1>2 DEF WaitsAtStart, HoldsOuter, HoldsInner
<1>5. \A k \in Jobs \ {j} : WaitsAtStart(k)' /\ HoldsOuter(k)' /\ HoldsInner(k)'
  BY <1>1, OthersStay, OthersHold DEF BaseInv, LocksStay
<1>. QED  BY <1>1, <1>3, <1>4, <1>5 DEF BaseInv

LEMMA KillBase ==
  ASSUME BaseInv, NEW p, Kill(p)
  PROVE  BaseInv'
<1>1. /\ JobsOK'
      /\ UNCHANGED <<cmd, step, phase>>
      /\ \A k \in Jobs : IF Process[k] = p /\ Running(k) THEN result'[k] = "killed" ELSE Same(k)
      /\ locks' = {l \in locks : ~(l.job \in Jobs /\ Process[l.job] = p /\ Running(l.job))}
  BY KillDoes DEF BaseInv
<1>2. ASSUME NEW k \in Jobs PROVE WaitsAtStart(k)' /\ HoldsOuter(k)' /\ HoldsInner(k)'
  <2>1. CASE Process[k] = p /\ Running(k)
    BY <1>1, <2>1 DEF WaitsAtStart, HoldsOuter, HoldsInner, Running
  <2>2. CASE ~(Process[k] = p /\ Running(k))
    <3>1. Same(k) /\ LocksStay(k)
      BY <1>1, <2>2 DEF LocksStay
    <3>. QED  BY <3>1, OthersStay, OthersHold DEF BaseInv
  <2>. QED  BY <2>1, <2>2
<1>3. LocksOK'
  <2>1. \A l \in locks' : l \in locks /\ Running(l.job)'
    BY <1>1, OthersStay DEF BaseInv, LocksOK
  <2>. QED  BY <2>1 DEF BaseInv, LocksOK
<1>. QED  BY <1>1, <1>2, <1>3 DEF BaseInv

LEMMA InitBase == HomeInit => BaseInv
<1>. SUFFICES ASSUME HomeInit PROVE BaseInv
  OBVIOUS
<1>1. JobsOK
  <2>1. "doctor" \in Commands
    BY CommandsAre
  <2>. QED  BY <2>1, AmountAssumption DEF HomeInit, JobsOK, Results
<1>2. LocksOK /\ \A j \in Jobs : WaitsAtStart(j) /\ HoldsOuter(j) /\ HoldsInner(j)
  BY DEF HomeInit, LocksOK, WaitsAtStart, HoldsOuter, HoldsInner, Running
<1>. QED  BY <1>1, <1>2 DEF BaseInv

LEMMA ExpireBase ==
  ASSUME BaseInv, Expire
  PROVE  BaseInv'
<1>1. /\ JobsOK' /\ \A k \in Jobs : Same(k) /\ LocksStay(k)
      /\ locks' = locks
  BY ExpireDoes DEF BaseInv, LocksStay
<1>2. \A k \in Jobs : WaitsAtStart(k)' /\ HoldsOuter(k)' /\ HoldsInner(k)'
  BY <1>1, OthersStay, OthersHold DEF BaseInv
<1>3. LocksOK'
  BY <1>1, OthersStay DEF BaseInv, LocksOK
<1>. QED  BY <1>1, <1>2, <1>3 DEF BaseInv

LEMMA StepBase == BaseInv /\ [HomeNext]_homeVars => BaseInv'
<1>. SUFFICES ASSUME BaseInv, [HomeNext]_homeVars PROVE BaseInv'
  OBVIOUS
<1>1. CASE \E j \in Jobs : Work(j)
  BY <1>1, WorkBase
<1>2. CASE \E j \in Jobs : \E c \in CommandsOf[j] : Start(j, c)
  BY <1>2, StartBase
<1>3. CASE \E p \in {Process[j] : j \in Jobs} : Kill(p)
  BY <1>3, KillBase
<1>4. CASE UNCHANGED homeVars
  BY <1>4 DEF homeVars, BaseInv, JobsOK, LocksOK, WaitsAtStart, HoldsOuter, HoldsInner, Running, Outer,
     Inner, SavesWhole, At, Missing
<1>5. CASE Expire
  BY <1>5, ExpireBase
<1>. QED  BY <1>1, <1>2, <1>3, <1>4, <1>5 DEF HomeNext

-----------------------------------------------------------------------------
(* Torn files, as long as nobody is killed.                                *)

LEMMA WriterLocks ==
  ASSUME BaseInv, NEW k \in Jobs, NEW f \in Guarded, phase[k] = "truncated", SavesWhole(k, f)
  PROVE  Inner(k, f) \in locks
<1>1. At(k, "save", f) \/ At(k, "ensure", f)
  BY DEF SavesWhole
<1>. QED  BY <1>1, MidSave

LEMMA LoadsWhole ==
  ASSUME BaseInv, ReadsWhole, NEW j \in Jobs, NEW f \in Guarded, NEW o \in {"load", "read"},
         At(j, o, f), Shares(j, o, f)
  PROVE  f \notin torn
<1>. SUFFICES ASSUME f \in torn PROVE FALSE
  OBVIOUS
<1>0. f \in Files
  BY DEF Guarded, Files
<1>1. PICK k \in Jobs : phase[k] = "truncated" /\ SavesWhole(k, f)
  BY <1>0 DEF ReadsWhole, TornHasWriter
<1>2. Inner(k, f) \in locks
  BY <1>1, WriterLocks
<1>3. CASE o = "load"
  <2>1. Free(f, "shared")
    BY <1>3 DEF Shares, BaseInv, JobsOK
  <2>. QED  BY <1>2, <2>1 DEF Free, Inner, Lock
<1>4. CASE o = "read"
  <2>1. Outer(j) \in locks /\ f = "wallet"
    BY <1>4, AtPlace DEF Placed, BaseInv, HoldsOuter
  <2>2. Inner(k, f) = Outer(j)
    BY <1>2, <2>1 DEF BaseInv, LocksOK, Inner, Outer, Lock
  <2>. QED  BY <2>2 DEF Inner, Outer, Lock
<1>. QED  BY <1>3, <1>4

LEMMA WritersStay ==
  ASSUME BaseInv, ReadsWhole, NEW j \in Jobs, Frame(j), NEW f \in torn,
         ~(phase[j] = "truncated" /\ SavesWhole(j, f))
  PROVE  TornHasWriter(f)'
<1>1. PICK k \in Jobs : phase[k] = "truncated" /\ SavesWhole(k, f)
  BY DEF ReadsWhole, TornHasWriter, BaseInv, JobsOK
<1>2. k # j /\ Same(k)
  BY <1>1 DEF Frame
<1>3. phase'[k] = "truncated" /\ SavesWhole(k, f)'
  BY <1>1, <1>2, OthersStay DEF Same
<1>. QED  BY <1>3 DEF TornHasWriter

LEMMA WorkReadsWhole ==
  ASSUME BaseInv, ReadsWhole, NEW j \in Jobs, Work(j)
  PROVE  ReadsWhole'
<1>0. JobsOK
  BY DEF BaseInv
<1>1. Frame(j)
  BY <1>0, HoldDoes, DropDoes, LoadDoes, TruncateDoes, WriteDoes, SkipEnsureDoes, ReplaceDoes, PresentDoes
     DEF Work
<1>2. ASSUME NEW f \in torn' PROVE TornHasWriter(f)'
  <2>1. CASE ~Truncate(j) /\ ~Write(j)
    <3>1. torn' \subseteq torn
      BY <2>1 DEF Work, Hold, Drop, Load, SkipEnsure, Replace, Present
    <3>2. \E o \in {"hold", "drop", "load", "read", "ensure", "replace", "present"}, g \in Files :
            At(j, o, g) /\ (o = "ensure" => ~Missing(view[j][g]))
      BY <2>1 DEF Work, Hold, Drop, Load, SkipEnsure, Replace, Present, Guarded, Files
    <3>3. phase[j] # "truncated"
      BY <3>2, MidSave
    <3>. QED  BY <1>1, <3>1, <3>3, WritersStay
  <2>2. CASE Truncate(j)
    <3>1. PICK g \in Files : /\ SavesWhole(j, g) /\ phase[j] = "ready" /\ phase'[j] = "truncated"
                            /\ torn' = torn \cup {g}
      BY <1>0, <2>2, TruncateDoes
    <3>2. SavesWhole(j, g)'
      BY <2>2, <3>1 DEF Truncate, SavesWhole, At, Running
    <3>3. CASE f = g
      BY <3>1, <3>2, <3>3 DEF TornHasWriter
    <3>4. CASE f # g
      BY <1>1, <3>1, <3>4, WritersStay
    <3>. QED  BY <3>3, <3>4
  <2>3. CASE Write(j)
    <3>1. PICK g \in Files : /\ At(j, "save", g) \/ At(j, "ensure", g)
                            /\ torn' = torn \ {g}
      BY <1>0, <2>3, WriteDoes
    <3>2. ~SavesWhole(j, f)
      BY <3>1, AtOnce DEF SavesWhole
    <3>. QED  BY <1>1, <3>1, <3>2, WritersStay
  <2>. QED  BY <2>1, <2>2, <2>3
<1>3. CASE ~Load(j)
  <2>1. tornReads' = tornReads
    BY <1>3 DEF Work, Hold, Drop, Truncate, Write, SkipEnsure, Replace, Present
  <2>2. result'[j] # "raised"
    <3>1. CASE Truncate(j)
      BY <3>1 DEF Truncate, At, Running
    <3>2. CASE ~Truncate(j)
      <4>1. \/ \E r \in {"ok", "not_served"} : Ends(j, r)
            \/ \E held : Moves(j, held)
        BY <1>0, <1>3, <3>2, HoldDoes, DropDoes, WriteDoes, SkipEnsureDoes, ReplaceDoes, PresentDoes
           DEF Work, EndsOrMoves
      <4>. QED  BY <4>1 DEF Ends, Moves
    <3>. QED  BY <3>1, <3>2
  <2>. QED  BY <1>1, <1>2, <2>1, <2>2 DEF ReadsWhole, TornHasWriter, Frame, Same
<1>4. CASE Load(j)
  <2>1. PICK f \in Files, o \in {"load", "read"} :
           /\ At(j, o, f) /\ Shares(j, o, f) /\ tornReads' = tornReads \cup ({f} \cap torn)
           /\ Loads(j, o, f)
    BY <1>0, <1>4, LoadDoes
  <2>2. f \in Guarded => f \notin torn
    BY <2>1, LoadsWhole
  <2>3. tornReads' \cap Guarded = {}
    BY <2>1, <2>2 DEF ReadsWhole
  <2>4. cmd[j] = "proxy" => result'[j] # "raised"
    <3>1. cmd[j] = "proxy" => f = "wallet"
      BY <1>0, <2>1, AtPlace DEF Placed
    <3>2. cmd[j] = "proxy" => ~Raises(j, f, o)
      BY <2>2, <3>1 DEF Raises, Guarded
    <3>. QED  BY <2>1, <3>2 DEF Loads, Ends, Moves, StopsWith
  <2>. QED  BY <1>1, <1>2, <2>3, <2>4 DEF ReadsWhole, TornHasWriter, Frame, Same
<1>. QED  BY <1>3, <1>4

LEMMA InitTorn == HomeInit => TornInv
BY DEF HomeInit, TornInv, ReadsWhole, TornHasWriter

LEMMA StepTorn == BaseInv /\ TornInv /\ [HomeNext]_homeVars => TornInv'
<1>. SUFFICES ASSUME BaseInv, TornInv, [HomeNext]_homeVars, kills' = 0 PROVE ReadsWhole'
  BY DEF TornInv
<1>1. CASE \E j \in Jobs : Work(j)
  <2>1. PICK j \in Jobs : Work(j)
    BY <1>1
  <2>2. kills' = kills
    BY <2>1 DEF Work, Hold, Drop, Load, Truncate, Write, SkipEnsure, Replace, Present
  <2>. QED  BY <2>1, <2>2, WorkReadsWhole DEF TornInv
<1>2. CASE \E j \in Jobs : \E c \in CommandsOf[j] : Start(j, c)
  <2>0. PICK j \in Jobs : \E c \in CommandsOf[j] : Start(j, c)
    BY <1>2
  <2>1. PICK c \in CommandsOf[j] : Start(j, c)
    BY <2>0
  <2>2. /\ result[j] = "waiting"
        /\ cmd'[j] = "proxy" => result'[j] # "raised"
        /\ \A k \in Jobs \ {j} : Same(k)
        /\ UNCHANGED <<torn, kills, tornReads>>
    BY <2>1, StartDoes, SomeAreNotEmpty DEF BaseInv
  <2>3. ReadsWhole
    BY <2>2 DEF TornInv
  <2>4. ASSUME NEW f \in torn PROVE TornHasWriter(f)'
    <3>1. PICK k \in Jobs : phase[k] = "truncated" /\ SavesWhole(k, f)
      BY <2>3 DEF ReadsWhole, TornHasWriter, BaseInv, JobsOK
    <3>2. k # j
      BY <2>2, <3>1 DEF SavesWhole, At, Running
    <3>. QED  BY <2>2, <3>1, <3>2, OthersStay DEF TornHasWriter, Same
  <2>. QED  BY <2>2, <2>3, <2>4 DEF ReadsWhole, TornHasWriter, Same
<1>3. CASE \E p \in {Process[j] : j \in Jobs} : Kill(p)
  BY <1>3, KillDoes DEF BaseInv
<1>4. CASE UNCHANGED homeVars
  BY <1>4 DEF homeVars, TornInv, ReadsWhole, TornHasWriter, SavesWhole, At, Running, Missing
<1>5. CASE Expire
  <2>1. /\ \A k \in Jobs : Same(k)
        /\ UNCHANGED <<torn, kills, tornReads>>
    BY <1>5, ExpireDoes DEF BaseInv
  <2>. QED  BY <2>1, OthersStay DEF TornInv, ReadsWhole, TornHasWriter, Same
<1>. QED  BY <1>1, <1>2, <1>3, <1>4, <1>5 DEF HomeNext

\* skill.py:193-252 and bridge.py:400-425: as long as no process was killed, no
\* locked load meets a half-written file, and a request that was paid for is
\* answered 500 only when its paid retry raised, never for an unreadable wallet.
THEOREM TornAlwaysHasCause == HomeSpec => []TornFilesHaveCause
<1>1. BaseInv /\ TornInv => TornFilesHaveCause
  BY DEF BaseInv, JobsOK, TornInv, ReadsWhole, TornFilesHaveCause, LockedLoadsAreWhole, PaidIsReported
<1>. QED  BY <1>1, InitBase, InitTorn, StepBase, StepTorn, PTL DEF HomeSpec

-----------------------------------------------------------------------------
(* The invariant's second part: what is in the files and in the jobs'      *)
(* hands, whoever is killed.                                               *)

Credential == [id : Jobs, calls : 0 .. PackageCalls, by : {"core", "skill"}, live : BOOLEAN, no : Nat]
Entry      == [id : Jobs, no : Nat]
Holders == {k \in Jobs : cmd[k] \in {"skill_add", "core_add"} /\ result[k] = "ok"}

\* A credential for each buyer at most.
Purse(S, B) == /\ S \subseteq Credential /\ IsFiniteSet(S)
               /\ \A c \in S : c.id \in B
               /\ \A c, d \in S : c.id = d.id => c = d
Amounts(S) == S = {} \/ \E n \in 0 .. Initial : S = {n}
ContentsOK(g, B) ==
  /\ g["config"] \subseteq Jobs /\ g["history"] \subseteq Entry /\ IsFiniteSet(g["history"])
  /\ Amounts(g["wallet"]) /\ Purse(g["credentials"], B)

\* Whoever is about to deduct knows of something to deduct from.
Prepared(j) ==
  Running(j) =>
    /\ cmd[j] = "proxy" /\ step[j] = 3 => view[j]["wallet"] # {} /\ The(view[j]["wallet"]) >= Price
    /\ cmd[j] \in {"skill_deduct", "core_deduct"} /\ step[j] = 2 => Usable(Credits(j)) # {}
SavesExisting(j) == phase[j] = "truncated" => \A f \in Files : SavesWhole(j, f) => f \in exists

ValuesInv == /\ ContentsOK(files, Holders)
             /\ \A f \in Files \ exists : files[f] = {}
             /\ \A j \in Jobs : ContentsOK(view[j], Holders) /\ Prepared(j) /\ SavesExisting(j)
             /\ lapsed \in Nat

Saving(j, f) == \E o \in {"save", "ensure", "replace"} : At(j, o, f)

LEMMA OldestIsIn ==
  ASSUME NEW S, S \subseteq Credential, IsFiniteSet(S), S # {}
  PROVE  First(S) \in S
<1>. DEFINE nos == {c.no : c \in S}
            f == [c \in S |-> c.no]
<1>1. f \in Surjection(S, nos)
  BY DEF Surjection
<1>2. IsFiniteSet(nos)
  <2>. HIDE DEF f, nos
  <2>. QED  BY <1>1, FS_Surjection
<1>3. nos # {} /\ \A a \in nos : a \in Int
  <2>1. \A c \in S : c.no \in Nat
    BY DEF Credential
  <2>. QED  BY <2>1
<1>4. \E a \in nos : \A b \in nos : a <= b
  <2>. HIDE DEF nos
  <2>. QED  BY <1>2, <1>3, LeastElement
<1>5. \E c \in S : \A d \in S : c.no <= d.no
  BY <1>4
<1>. QED  BY <1>5 DEF First

\* The last number of a list is that of an entry, and no entry's is higher.
LEMMA NewestIs ==
  ASSUME NEW S, IsFiniteSet(S), \A c \in S : c.no \in Nat
  PROVE  /\ Newest(S) \in Nat /\ \A c \in S : c.no <= Newest(S)
         /\ S # {} => \E c \in S : c.no = Newest(S)
<1>1. CASE S = {}
  BY <1>1 DEF Newest
<1>2. CASE S # {}
  <2>. DEFINE nos == {c.no : c \in S}
              less == {0 - c.no : c \in S}
              f == [c \in S |-> 0 - c.no]
  <2>1. f \in Surjection(S, less)
    BY DEF Surjection
  <2>2. IsFiniteSet(less)
    <3>. HIDE DEF f, less
    <3>. QED  BY <2>1, FS_Surjection
  <2>3. less # {} /\ \A a \in less : a \in Int
    BY <1>2
  <2>4. \E a \in less : \A b \in less : a <= b
    <3>. HIDE DEF less
    <3>. QED  BY <2>2, <2>3, LeastElement
  <2>5. PICK c \in S : \A d \in S : 0 - c.no <= 0 - d.no
    BY <2>4
  <2>6. c.no \in nos /\ \A b \in nos : c.no >= b
    BY <2>5
  <2>7. Newest(S) \in nos /\ \A b \in nos : Newest(S) >= b
    BY <1>2, <2>6 DEF Newest, Max
  <2>. QED  BY <2>7
<1>. QED  BY <1>1, <1>2

LEMMA CallsAreNat == \A c \in Credential : c.calls \in Nat /\ c.calls \in Int
BY AmountAssumption DEF Credential

LEMMA CallsOfMore ==
  ASSUME NEW C \in SUBSET Credential, IsFiniteSet(C), NEW c \in Credential, c \notin C
  PROVE  CallsIn(C \cup {c}) = c.calls + CallsIn(C)
<1>. DEFINE D == C \cup {c}
            f == [x \in D |-> x.calls]
            g == [x \in C |-> x.calls]
<1>1. \A x \in D : f[x] \in Int
  BY CallsAreNat
<1>2. f[c] = c.calls /\ \A x \in C : f[x] = g[x]
  OBVIOUS
<1>3. CallsIn(C \cup {c}) = SumFunctionOnSet(f, D) /\ CallsIn(C) = SumFunctionOnSet(g, C)
  BY DEF CallsIn
<1>. HIDE DEF f, g
<1>4. SumFunctionOnSet(f, D) = f[c] + SumFunctionOnSet(f, C)
  BY <1>1, SumAdd
<1>5. SumFunctionOnSet(f, C) = SumFunctionOnSet(g, C)
  BY <1>2, SumSame
<1>. QED  BY <1>2, <1>3, <1>4, <1>5

LEMMA CallsNumber ==
  ASSUME NEW C \in SUBSET Credential, IsFiniteSet(C)
  PROVE  CallsIn(C) \in Nat
<1>. DEFINE f == [x \in C |-> x.calls]
<1>1. \A x \in C : f[x] \in Nat
  BY CallsAreNat
<1>2. CallsIn(C) = SumFunctionOnSet(f, C)
  BY DEF CallsIn
<1>. HIDE DEF f
<1>. QED  BY <1>1, <1>2, SumNat

LEMMA EmptyPurse == \A B : Purse({}, B) /\ Amounts({}) /\ IsFiniteSet({})
BY FS_EmptySet DEF Purse, Amounts

LEMMA PurseGrows ==
  ASSUME NEW S, NEW B, Purse(S, B), NEW C, B \subseteq C
  PROVE  Purse(S, C)
BY DEF Purse

\* Who saves what.
LEMMA WhoSaves ==
  ASSUME BaseInv, NEW j \in Jobs, NEW f, Saving(j, f)
  PROVE  /\ Running(j) /\ cmd[j] \in Commands
         /\ f = "wallet" => \/ cmd[j] = "setup" /\ step[j] = 4
                            \/ cmd[j] = "proxy" /\ step[j] = 3
         /\ f = "credentials" => cmd[j] \in CreditCommands /\ step[j] = 2
         /\ f = "config" => cmd[j] = "setup" /\ step[j] = 2
         /\ f = "history" => /\ cmd[j] \in {"setup", "blocked_pay"}
                            /\ step[j] = Len(Program[cmd[j]]) /\ step[j] > 2
<1>1. PICK o \in {"save", "ensure", "replace"} : At(j, o, f)
  BY DEF Saving
<1>2. /\ Placed(cmd[j], step[j], Len(Program[cmd[j]]), o, f) /\ Running(j) /\ cmd[j] \in Commands
      /\ step[j] \in Nat
  BY <1>1, AtPlace DEF BaseInv
<1>3. cmd[j] \in {"deposit", "pay"} => step[j] <= 3
  BY <1>2 DEF BaseInv, HoldsOuter
<1>4. CASE o = "save"
  BY <1>2, <1>3, <1>4 DEF Placed, CreditCommands
<1>5. CASE o \in {"ensure", "replace"}
  BY <1>2, <1>5 DEF Placed, CreditCommands
<1>. QED  BY <1>1, <1>4, <1>5

LEMMA EntriesFit ==
  ASSUME NEW j \in Jobs, NEW H \in SUBSET Entry, IsFiniteSet(H)
  PROVE  WithTransaction(j, H) \in SUBSET Entry /\ IsFiniteSet(WithTransaction(j, H))
<1>. DEFINE x == [id |-> j, no |-> Newest(H) + 1]
<1>1. Newest(H) \in Nat
  BY NewestIs DEF Entry
<1>2. x \in Entry
  BY <1>1 DEF Entry
<1>. HIDE DEF x
<1>3. WithTransaction(j, H) \in SUBSET (H \cup {x})
  BY DEF WithTransaction, x
<1>. QED  BY <1>2, <1>3, FS_AddElement, FS_Subset

LEMMA ChangeOK ==
  ASSUME BaseInv, ValuesInv, NEW j \in Jobs, NEW f, Saving(j, f),
         NEW B \in SUBSET Jobs, Holders \subseteq B,
         cmd[j] \in {"skill_add", "core_add"} => j \in B
  PROVE  /\ f = "config" => Change(j, f) \subseteq Jobs
         /\ f = "history" => Change(j, f) \subseteq Entry /\ IsFiniteSet(Change(j, f))
         /\ f = "wallet" => Amounts(Change(j, f)) /\ Change(j, f) # {}
         /\ f = "credentials" => Purse(Change(j, f), B)
<1>1. CASE f = "config"
  BY <1>1 DEF Change
<1>2. CASE f = "history"
  <2>. DEFINE H == view[j]["history"]
              x == [id |-> j, no |-> Newest(H) + 1]
  <2>1. H \subseteq Entry /\ IsFiniteSet(H)
    BY DEF ValuesInv, ContentsOK
  <2>2. Change(j, f) = WithTransaction(j, H)
    BY <1>2 DEF Change
  <2>. HIDE DEF H
  <2>. QED  BY <1>2, <2>1, <2>2, EntriesFit
<1>3. CASE f = "wallet"
  <2>1. CASE cmd[j] = "setup"
    BY <1>3, <2>1, AmountAssumption DEF Change, Amounts
  <2>2. CASE cmd[j] = "proxy" /\ step[j] = 3
    <3>1. view[j]["wallet"] # {} /\ The(view[j]["wallet"]) >= Price
      BY <2>2, WhoSaves DEF ValuesInv, Prepared
    <3>2. PICK n \in 0 .. Initial : view[j]["wallet"] = {n}
      BY <3>1 DEF ValuesInv, ContentsOK, Amounts
    <3>3. The(view[j]["wallet"]) = n
      BY <3>2 DEF The
    <3>4. Change(j, f) = {n - Price}
      BY <1>3, <2>2, <3>3 DEF Change
    <3>5. n - Price \in 0 .. Initial
      BY <3>1, <3>3, AmountAssumption
    <3>. QED  BY <1>3, <3>4, <3>5 DEF Amounts
  <2>. QED  BY <1>3, <2>1, <2>2, WhoSaves
<1>4. CASE f = "credentials"
  <2>1. /\ Running(j) /\ cmd[j] \in CreditCommands /\ step[j] = 2
    BY <1>4, WhoSaves
  <2>. DEFINE C == Credits(j)
  <2>2. Purse(C, Holders) /\ Purse(C, B) /\ Holders \subseteq Jobs
    BY PurseGrows DEF ValuesInv, ContentsOK, Credits, Holders
  <2>3. j \notin Holders
    BY <2>1 DEF Holders, Running
  <2>4. Author(j) \in {"core", "skill"}
    BY DEF Author
  <2>5. CASE cmd[j] \in {"skill_add", "core_add"}
    <3>. DEFINE c == [id |-> j, calls |-> PackageCalls, by |-> Author(j), live |-> TRUE,
                       no |-> Newest(C) + 1]
    <3>1. Change(j, f) = C \cup {c}
      BY <1>4, <2>5 DEF Change
    <3>2. c \in Credential /\ c.id = j
      <4>1. Newest(C) \in Nat
        BY <2>2, NewestIs DEF Purse, Credential
      <4>2. PackageCalls \in 0 .. PackageCalls
        BY AmountAssumption
      <4>. HIDE DEF C
      <4>. QED  BY <2>4, <4>1, <4>2 DEF Credential
    <3>3. \A d \in C : d.id # j
      BY <2>2, <2>3 DEF Purse
    <3>. HIDE DEF C, c
    <3>4. IsFiniteSet(C \cup {c})
      BY <2>2, FS_AddElement DEF Purse
    <3>. QED  BY <1>4, <2>2, <2>5, <3>1, <3>2, <3>3, <3>4 DEF Purse
  <2>6. CASE cmd[j] \in {"skill_deduct", "core_deduct"}
    <3>. DEFINE c == First(Usable(C))
                d == [c EXCEPT !.calls = @ - 1, !.by = Author(j)]
    <3>1. Change(j, f) = (C \ {c}) \cup {d}
      BY <1>4, <2>6 DEF Change
    <3>2. Usable(C) # {}
      BY <2>1, <2>6 DEF ValuesInv, Prepared
    <3>3. Usable(C) \subseteq C /\ IsFiniteSet(Usable(C)) /\ Usable(C) \subseteq Credential
      <4>1. Usable(C) \in SUBSET C
        BY DEF Usable
      <4>. QED  BY <2>2, <4>1, FS_Subset DEF Purse
    <3>4. c \in Usable(C)
      BY <3>2, <3>3, OldestIsIn
    <3>. HIDE DEF C, c
    <3>5. c \in C /\ c \in Credential /\ c.calls > 0
      BY <3>3, <3>4 DEF Usable
    <3>6. d \in Credential /\ d.id = c.id
      <4>1. c.calls - 1 \in 0 .. PackageCalls
        BY <3>5, AmountAssumption DEF Credential
      <4>. QED  BY <2>4, <3>5, <4>1 DEF Credential
    <3>. HIDE DEF d
    <3>7. IsFiniteSet((C \ {c}) \cup {d})
      BY <2>2, FS_AddElement, FS_RemoveElement DEF Purse
    <3>. QED  BY <1>4, <2>2, <3>1, <3>5, <3>6, <3>7 DEF Purse
  <2>7. CASE cmd[j] \in {"skill_purge", "core_purge"}
    <3>1. Change(j, f) = Usable(C)
      BY <1>4, <2>7 DEF Change
    <3>2. Usable(C) \in SUBSET C
      BY DEF Usable
    <3>. HIDE DEF C
    <3>3. IsFiniteSet(Usable(C))
      BY <2>2, <3>2, FS_Subset DEF Purse
    <3>. QED  BY <1>4, <2>2, <3>1, <3>2, <3>3 DEF Purse
  <2>. QED  BY <2>1, <2>5, <2>6, <2>7 DEF CreditCommands
<1>. QED  BY <1>1, <1>2, <1>3, <1>4

\* The steps that neither load nor save, and the operations they are at.
Passes(j) ==
  /\ Hold(j) \/ Drop(j) \/ SkipEnsure(j) \/ Present(j)
  /\ UNCHANGED <<files, exists, torn, overlapped, phase, lapsed>>
  /\ \E o \in {"hold", "drop", "ensure", "present"}, f \in Files : At(j, o, f)
  /\ \/ Ends(j, "ok") /\ (At(j, "drop", "wallet") \/ At(j, "present", "credentials"))
     \/ Ends(j, "not_served") /\ At(j, "present", "credentials")
     \/ /\ \E held : Moves(j, held)
        /\ view' = view
        /\ \/ At(j, "hold", "wallet")
           \/ At(j, "ensure", "config") /\ view[j]["config"] # {}

\* A save is over.
Saves(j, f) ==
  /\ Saving(j, f) /\ files' = [files EXCEPT ![f] = Change(j, f)] /\ torn' = torn \ {f}
  /\ f \in exists' /\ exists \subseteq exists' /\ overlapped' = overlapped /\ phase'[j] = "ready"
  /\ lapsed' = lapsed + Lapses(j, f)
  /\ At(j, "ensure", f) => Missing(view[j][f])
  /\ \E held : EndsOrMoves(j, held)

LEMMA WorkDoes ==
  ASSUME BaseInv, ValuesInv, NEW j \in Jobs, Work(j)
  PROVE  /\ Frame(j) /\ Running(j) /\ exists \subseteq exists'
         /\ \/ Passes(j)
            \/ /\ UNCHANGED <<files, exists, torn, phase, lapsed>> /\ phase[j] = "ready"
               /\ \E f \in Files, o \in {"load", "read"} : At(j, o, f) /\ Shares(j, o, f) /\ Loads(j, o, f)
            \/ /\ UNCHANGED <<files, step, view, result, overlapped, lapsed>>
               /\ \E f \in Files : /\ SavesWhole(j, f) /\ Saving(j, f) /\ f \in exists' /\ torn' = torn \cup {f}
                                  /\ phase[j] = "ready" /\ phase'[j] = "truncated"
            \/ \E f \in Files : Saves(j, f)
<1>0. JobsOK
  BY DEF BaseInv
<1>. DEFINE Goal == /\ Frame(j) /\ Running(j) /\ exists \subseteq exists'
         /\ \/ Passes(j)
            \/ /\ UNCHANGED <<files, exists, torn, phase, lapsed>> /\ phase[j] = "ready"
               /\ \E f \in Files, o \in {"load", "read"} : At(j, o, f) /\ Shares(j, o, f) /\ Loads(j, o, f)
            \/ /\ UNCHANGED <<files, step, view, result, overlapped, lapsed>>
               /\ \E f \in Files : /\ SavesWhole(j, f) /\ Saving(j, f) /\ f \in exists' /\ torn' = torn \cup {f}
                                  /\ phase[j] = "ready" /\ phase'[j] = "truncated"
            \/ \E f \in Files : Saves(j, f)
<1>. "wallet" \in Files /\ "config" \in Files /\ "credentials" \in Files
  BY DEF Files
<1>1. CASE Hold(j)
  <2>1. /\ Frame(j) /\ At(j, "hold", "wallet") /\ Moves(j, locks \cup {Outer(j)}) /\ view' = view
        /\ UNCHANGED <<files, exists, torn, overlapped, phase, lapsed>> /\ Running(j)
    BY <1>0, <1>1, HoldDoes DEF Hold, At
  <2>. QED  BY <1>1, <2>1 DEF Passes
<1>2. CASE Drop(j)
  <2>1. /\ Frame(j) /\ At(j, "drop", "wallet") /\ Ends(j, "ok")
        /\ UNCHANGED <<files, exists, torn, overlapped, phase, lapsed>> /\ Running(j)
    BY <1>0, <1>2, DropDoes DEF Drop, At
  <2>. QED  BY <1>2, <2>1 DEF Passes
<1>3. CASE SkipEnsure(j)
  <2>1. /\ Frame(j) /\ At(j, "ensure", "config") /\ Moves(j, locks) /\ view' = view
        /\ UNCHANGED <<files, exists, torn, overlapped, phase, lapsed>> /\ Running(j)
        /\ view[j]["config"] # {}
    BY <1>0, <1>3, SkipEnsureDoes DEF SkipEnsure, At, Missing
  <2>. QED  BY <1>3, <2>1 DEF Passes
<1>4. CASE Present(j)
  <2>1. /\ Frame(j) /\ At(j, "present", "credentials") /\ (Ends(j, "ok") \/ Ends(j, "not_served"))
        /\ UNCHANGED <<files, exists, torn, overlapped, phase, lapsed>> /\ Running(j)
    BY <1>0, <1>4, PresentDoes DEF Present, At
  <2>. QED  BY <1>4, <2>1 DEF Passes
<1>5. CASE Load(j)
  <2>1. PICK f \in Files, o \in {"load", "read"} :
          At(j, o, f) /\ Shares(j, o, f) /\ Frame(j) /\ Loads(j, o, f)
    BY <1>0, <1>5, LoadDoes
  <2>2. phase[j] = "ready"
    BY <1>0, <2>1, MidSave DEF JobsOK
  <2>3. UNCHANGED <<files, exists, torn, phase, lapsed>> /\ Running(j)
    BY <1>5, <2>1 DEF Load, At
  <2>. QED  BY <2>1, <2>2, <2>3
<1>6. CASE Truncate(j)
  <2>1. PICK f \in Files :
          /\ SavesWhole(j, f) /\ phase[j] = "ready" /\ phase'[j] = "truncated"
          /\ torn' = torn \cup {f} /\ exists' = exists \cup {f} /\ Frame(j)
    BY <1>0, <1>6, TruncateDoes
  <2>2. UNCHANGED <<files, step, view, result, overlapped, lapsed>>
    BY <1>6 DEF Truncate
  <2>3. Saving(j, f) /\ Running(j)
    BY <2>1 DEF SavesWhole, Saving, At
  <2>. QED  BY <2>1, <2>2, <2>3
<1>7. CASE Write(j)
  <2>1. PICK f \in Files :
           /\ At(j, "save", f) \/ At(j, "ensure", f)
           /\ phase[j] = "truncated" /\ phase'[j] = "ready"
           /\ files' = [files EXCEPT ![f] = Change(j, f)] /\ torn' = torn \ {f} /\ exists' = exists
           /\ overlapped' = overlapped /\ lapsed' = lapsed + Lapses(j, f)
           /\ Frame(j) /\ EndsOrMoves(j, {l \in locks : ~(l.job = j /\ l.handle = "inner")})
    BY <1>0, <1>7, WriteDoes
  <2>2. SavesWhole(j, f) /\ (At(j, "ensure", f) => Missing(view[j][f]))
    BY <2>1, MidSave
  <2>3. f \in exists
    BY <2>1, <2>2 DEF ValuesInv, SavesExisting
  <2>4. Saving(j, f) /\ Running(j)
    BY <2>1 DEF Saving, At
  <2>. QED  BY <2>1, <2>2, <2>3, <2>4 DEF Saves
<1>8. CASE Replace(j)
  <2>1. PICK f \in Files :
           /\ At(j, "replace", f)
           /\ files' = [files EXCEPT ![f] = Change(j, f)] /\ torn' = torn \ {f} /\ exists' = exists \cup {f}
           /\ lapsed' = lapsed + Lapses(j, f)
           /\ Frame(j) /\ EndsOrMoves(j, locks)
    BY <1>0, <1>8, ReplaceDoes
  <2>2. overlapped' = overlapped /\ phase' = phase
    BY <1>8 DEF Replace
  <2>3. phase[j] = "ready"
    BY <1>0, <2>1, MidSave DEF JobsOK
  <2>4. Saving(j, f) /\ Running(j) /\ ~At(j, "ensure", f)
    BY <2>1, AtOnce DEF Saving, At
  <2>. QED  BY <2>1, <2>2, <2>3, <2>4 DEF Saves
<1>. QED  BY <1>1, <1>2, <1>3, <1>4, <1>5, <1>6, <1>7, <1>8 DEF Work

LEMMA HoldersGrow ==
  ASSUME NEW j \in Jobs, Frame(j), Running(j)
  PROVE  Holders \subseteq Holders' /\ Holders' \subseteq Jobs
BY DEF Frame, Same, Running, Holders

\* A bought package is in the file when its job is over.
LEMMA AddsEnd ==
  ASSUME BaseInv, NEW j \in Jobs, Frame(j), NEW f, Saves(j, f), cmd[j] \in {"skill_add", "core_add"}
  PROVE  j \in Holders' /\ f = "credentials" /\ Ends(j, "ok")
<1>1. PICK o \in {"save", "ensure", "replace"} : At(j, o, f)
  BY DEF Saves, Saving
<1>2. Placed(cmd[j], step[j], Len(Program[cmd[j]]), o, f)
  BY <1>1, AtPlace DEF BaseInv
<1>3. f = "credentials" /\ Len(Program[cmd[j]]) = 2
  BY <1>2 DEF Placed, CreditCommands
<1>4. step[j] = 2
  BY <1>3, WhoSaves DEF Saves
<1>5. Ends(j, "ok")
  BY <1>3, <1>4 DEF Saves, EndsOrMoves, Moves
<1>. QED  BY <1>3, <1>5 DEF Ends, Holders, Frame

LEMMA FoundIs ==
  ASSUME NEW f
  PROVE  Found(f) = {} \/ Found(f) = files[f]
BY DEF Found

LEMMA WorkContents ==
  ASSUME BaseInv, ValuesInv, NEW j \in Jobs, Work(j)
  PROVE  ContentsOK(files', Holders') /\ \A f \in Files \ exists' : files'[f] = {}
<1>1. Frame(j) /\ Running(j) /\ exists \subseteq exists'
  BY WorkDoes
<1>2. Holders \subseteq Holders' /\ Holders' \subseteq Jobs
  BY <1>1, HoldersGrow
<1>3. CASE files' = files
  BY <1>1, <1>2, <1>3, PurseGrows DEF ValuesInv, ContentsOK
<1>4. CASE \E f \in Files : Saves(j, f)
  <2>1. PICK f \in Files : Saves(j, f)
    BY <1>4
  <2>2. cmd[j] \in {"skill_add", "core_add"} => j \in Holders'
    BY <1>1, <2>1, AddsEnd
  <2>3. /\ f = "config" => Change(j, f) \subseteq Jobs
        /\ f = "history" => Change(j, f) \subseteq Entry /\ IsFiniteSet(Change(j, f))
        /\ f = "wallet" => Amounts(Change(j, f)) /\ Change(j, f) # {}
        /\ f = "credentials" => Purse(Change(j, f), Holders')
    BY <1>2, <2>1, <2>2, ChangeOK DEF Saves
  <2>4. Purse(files["credentials"], Holders')
    BY <1>2, PurseGrows DEF ValuesInv, ContentsOK
  <2>5. /\ files'[f] = Change(j, f) /\ \A g \in Files \ {f} : files'[g] = files[g]
    BY <2>1 DEF Saves, BaseInv, JobsOK
  <2>. QED  BY <2>1, <2>3, <2>4, <2>5 DEF ValuesInv, ContentsOK, Saves, Files
<1>. QED  BY <1>3, <1>4, WorkDoes DEF Passes

\* What a job has in hand after a step of its own.
NextView(j) ==
  \/ view'[j] = Kept(j) /\ ~Running(j)'
  \/ view'[j] = view[j]
  \/ \E f \in Files : view'[j][f] = Found(f) /\ \A g \in Files \ {f} : view'[j][g] = view[j][g]

LEMMA ViewFollows ==
  ASSUME BaseInv, ValuesInv, NEW j \in Jobs, Work(j)
  PROVE  NextView(j)
<1>1. CASE Passes(j) \/ \E f \in Files : Saves(j, f)
  BY <1>1 DEF Passes, Saves, EndsOrMoves, Ends, Running, NextView
<1>2. CASE \E f \in Files, o \in {"load", "read"} : Loads(j, o, f)
  BY <1>2 DEF Loads, Ends, StopsWith, Running, NextView
<1>3. CASE view' = view
  BY <1>3 DEF NextView
<1>. QED  BY <1>1, <1>2, <1>3, WorkDoes

LEMMA WorkViews ==
  ASSUME BaseInv, ValuesInv, NEW j \in Jobs, Work(j), NEW k \in Jobs
  PROVE  ContentsOK(view'[k], Holders')
<1>1. Frame(j) /\ Running(j)
  BY WorkDoes
<1>2. Holders \subseteq Holders'
  BY <1>1, HoldersGrow
<1>3. ContentsOK(view[k], Holders') /\ ContentsOK(files, Holders')
  BY <1>2, PurseGrows DEF ValuesInv, ContentsOK
<1>4. CASE k # j
  BY <1>1, <1>3, <1>4 DEF Frame, Same
<1>5. CASE k = j
  <2>1. CASE view'[j] = Kept(j)
    <3>1. /\ view'[j]["config"] \subseteq Jobs /\ view'[j]["history"] = {}
          /\ view'[j]["wallet"] = {} /\ view'[j]["credentials"] = {}
      BY <1>3, <1>5, <2>1 DEF Kept, Files, ContentsOK
    <3>. QED  BY <1>5, <3>1, EmptyPurse DEF ContentsOK
  <2>2. CASE view'[j] = view[j]
    BY <1>3, <1>5, <2>2
  <2>3. ASSUME NEW f \in Files, view'[j][f] = Found(f), \A g \in Files \ {f} : view'[j][g] = view[j][g]
        PROVE  ContentsOK(view'[j], Holders')
    <3>1. /\ Found(f) = {} \/ Found(f) = files[f]
      BY FoundIs
    <3>. QED  BY <1>3, <1>5, <2>3, <3>1, EmptyPurse DEF ContentsOK, Files
  <2>. QED  BY <1>5, <2>1, <2>2, <2>3, ViewFollows DEF NextView
<1>. QED  BY <1>4, <1>5

LEMMA OthersPrepared ==
  ASSUME NEW k, Same(k), Prepared(k)
  PROVE  Prepared(k)'
BY DEF Same, Prepared, Running, Credits

LEMMA LoadPrepares ==
  ASSUME BaseInv, ValuesInv, NEW j \in Jobs, NEW f \in Files, NEW o \in {"load", "read"},
         At(j, o, f), Loads(j, o, f), Frame(j), Running(j)'
  PROVE  /\ cmd[j] = "proxy" => Found(f) # {} /\ The(Found(f)) >= Price
         /\ cmd[j] \in {"skill_deduct", "core_deduct"} => Usable(Found(f)) # {}
         /\ view'[j][f] = Found(f) /\ step'[j] = step[j] + 1
<1>1. ~Stops(j, f, Found(f)) /\ view'[j][f] = Found(f) /\ step'[j] = step[j] + 1
  BY DEF Loads, Ends, StopsWith, Running, Moves
<1>2. Placed(cmd[j], step[j], Len(Program[cmd[j]]), o, f)
  BY AtPlace DEF BaseInv
<1>3. cmd[j] = "proxy" => Found(f) # {} /\ The(Found(f)) >= Price
  <2>. SUFFICES ASSUME cmd[j] = "proxy" PROVE Found(f) # {} /\ The(Found(f)) >= Price
    OBVIOUS
  <2>1. f = "wallet"
    BY <1>2 DEF Placed
  <2>2. Found(f) # {} /\ ~(The(Found(f)) < Price)
    BY <1>1, <2>1 DEF Stops
  <2>3. PICK n \in 0 .. Initial : Found(f) = {n}
    BY <2>1, <2>2, FoundIs DEF ValuesInv, ContentsOK, Amounts
  <2>4. The(Found(f)) = n
    BY <2>3 DEF The
  <2>. QED  BY <2>2, <2>4, AmountAssumption
<1>4. cmd[j] \in {"skill_deduct", "core_deduct"} => Usable(Found(f)) # {}
  BY <1>1, <1>2 DEF Placed, CreditCommands, Stops, Purges
<1>. QED  BY <1>1, <1>3, <1>4

LEMMA WorkPrepared ==
  ASSUME BaseInv, ValuesInv, NEW j \in Jobs, Work(j), NEW k \in Jobs
  PROVE  Prepared(k)'
<1>1. Frame(j) /\ Running(j)
  BY WorkDoes
<1>2. CASE k # j
  BY <1>1, <1>2, OthersPrepared DEF Frame, ValuesInv
<1>3. CASE k = j /\ step' = step /\ view' = view
  BY <1>1, <1>3 DEF Frame, Prepared, Running, Credits, ValuesInv
<1>4. CASE k = j /\ Running(j)' /\ Passes(j)
  <2>1. step'[j] = step[j] + 1
    BY <1>4 DEF Passes, Ends, Moves, Running
  <2>2. At(j, "hold", "wallet") \/ At(j, "ensure", "config")
    BY <1>4 DEF Passes, Ends, Running
  <2>3. PICK o \in {"hold", "ensure"}, f \in {"wallet", "config"} : At(j, o, f)
    BY <2>2
  <2>4. Placed(cmd[j], step[j], Len(Program[cmd[j]]), o, f) /\ step[j] \in Nat
    BY <2>3, AtPlace DEF BaseInv
  <2>5. ~(cmd[j] = "proxy" /\ step[j] = 2) /\ cmd[j] \notin {"skill_deduct", "core_deduct"}
    BY <2>4 DEF Placed
  <2>. QED  BY <1>1, <1>4, <2>1, <2>4, <2>5 DEF Prepared, Frame
<1>5. CASE k = j /\ Running(j)' /\ \E f \in Files : Saves(j, f)
  <2>1. PICK f \in Files : Saves(j, f)
    BY <1>5
  <2>2. step'[j] = step[j] + 1 /\ step[j] \in Nat \ {0}
    BY <1>5, <2>1 DEF Saves, EndsOrMoves, Ends, Moves, Running, BaseInv, JobsOK
  <2>3. PICK o \in {"save", "ensure", "replace"} : At(j, o, f)
    BY <2>1 DEF Saves, Saving
  <2>4. Placed(cmd[j], step[j], Len(Program[cmd[j]]), o, f)
    BY <2>3, AtPlace DEF BaseInv
  <2>5. /\ ~(cmd[j] = "proxy" /\ step[j] = 2)
        /\ cmd[j] \in {"skill_deduct", "core_deduct"} => step[j] # 1
    BY <2>3, <2>4 DEF Placed, CreditCommands
  <2>. QED  BY <1>1, <1>5, <2>2, <2>5 DEF Prepared, Frame
<1>6. CASE k = j /\ Running(j)' /\ \E f \in Files, o \in {"load", "read"} : At(j, o, f) /\ Loads(j, o, f)
  <2>1. PICK f \in Files, o \in {"load", "read"} : At(j, o, f) /\ Loads(j, o, f)
    BY <1>6
  <2>2. Placed(cmd[j], step[j], Len(Program[cmd[j]]), o, f)
    BY <2>1, AtPlace DEF BaseInv
  <2>3. /\ cmd[j] = "proxy" => f = "wallet"
        /\ cmd[j] \in {"skill_deduct", "core_deduct"} => f = "credentials"
    BY <2>2 DEF Placed, CreditCommands
  <2>4. /\ cmd[j] = "proxy" => Found(f) # {} /\ The(Found(f)) >= Price
        /\ cmd[j] \in {"skill_deduct", "core_deduct"} => Usable(Found(f)) # {}
        /\ view'[j][f] = Found(f)
    BY <1>1, <1>6, <2>1, LoadPrepares
  <2>. QED  BY <1>1, <1>6, <2>3, <2>4 DEF Prepared, Frame, Credits
<1>. QED  BY <1>2, <1>3, <1>4, <1>5, <1>6, WorkDoes DEF Prepared

LEMMA WorkExisting ==
  ASSUME BaseInv, ValuesInv, NEW j \in Jobs, Work(j), NEW k \in Jobs
  PROVE  SavesExisting(k)'
<1>1. Frame(j) /\ Running(j) /\ exists \subseteq exists'
  BY WorkDoes
<1>2. CASE k # j
  BY <1>1, <1>2, OthersStay DEF Frame, Same, SavesExisting, ValuesInv
<1>3. CASE k = j /\ Passes(j)
  <2>1. phase[j] = "ready" \/ ~Running(j)'
    <3>1. CASE \E r \in {"ok", "not_served"} : Ends(j, r)
      BY <3>1 DEF Ends, Running
    <3>2. CASE At(j, "hold", "wallet") \/ (At(j, "ensure", "config") /\ view[j]["config"] # {})
      BY <3>2, MidSave DEF BaseInv, JobsOK, Missing
    <3>. QED  BY <1>3, <3>1, <3>2 DEF Passes
  <2>2. phase'[j] = "truncated" => ~Running(j)'
    BY <1>3, <2>1 DEF Passes
  <2>. QED  BY <1>3, <2>2 DEF SavesExisting, SavesWhole, At
<1>4. CASE k = j /\ phase' = phase /\ phase[j] = "ready"
  BY <1>4 DEF SavesExisting
<1>5. CASE k = j /\ \E f \in Files : Saves(j, f)
  BY <1>5 DEF Saves, SavesExisting
<1>6. CASE /\ k = j /\ UNCHANGED <<step, view, result>>
           /\ \E f \in Files : SavesWhole(j, f) /\ f \in exists'
  <2>1. PICK f \in Files : SavesWhole(j, f) /\ f \in exists'
    BY <1>6
  <2>2. ASSUME NEW g, SavesWhole(j, g)' PROVE g = f
    <3>1. SavesWhole(j, g)
      BY <1>1, <1>6, <2>2 DEF SavesWhole, At, Running, Missing, Frame
    <3>. QED  BY <2>1, <3>1, AtOnce DEF SavesWhole
  <2>. QED  BY <1>6, <2>1, <2>2 DEF SavesExisting
<1>. QED  BY <1>2, <1>3, <1>4, <1>5, <1>6, WorkDoes

LEMMA LapsesNumber ==
  ASSUME ValuesInv, NEW j \in Jobs, NEW f
  PROVE  Lapses(j, f) \in Nat
<1>. DEFINE C == Credits(j)
<1>1. Purse(C, Holders)
  BY DEF ValuesInv, ContentsOK, Credits
<1>. HIDE DEF C
<1>2. OutOfDate(C) \in SUBSET C
  BY DEF OutOfDate
<1>3. CallsIn(OutOfDate(C)) \in Nat
  BY <1>1, <1>2, FS_Subset, CallsNumber DEF Purse
<1>. QED  BY <1>3 DEF Lapses, C

\* A credential that expires is the same buyer's.
LEMMA PurseExpires ==
  ASSUME NEW C, NEW B, Purse(C, B), NEW c \in C
  PROVE  /\ Purse((C \ {c}) \cup {[c EXCEPT !.live = FALSE]}, B)
         /\ [c EXCEPT !.live = FALSE] \in Credential
         /\ [c EXCEPT !.live = FALSE].id = c.id /\ [c EXCEPT !.live = FALSE].calls = c.calls
<1>. DEFINE d == [c EXCEPT !.live = FALSE]
<1>1. c \in Credential
  BY DEF Purse
<1>2. d \in Credential /\ d.id = c.id /\ d.calls = c.calls
  BY <1>1 DEF Credential
<1>. HIDE DEF d
<1>3. IsFiniteSet((C \ {c}) \cup {d})
  BY FS_RemoveElement, FS_AddElement DEF Purse
<1>4. Purse((C \ {c}) \cup {d}, B)
  BY <1>2, <1>3 DEF Purse
<1>. QED  BY <1>2, <1>4 DEF d

LEMMA ExpireValues ==
  ASSUME BaseInv, ValuesInv, Expire
  PROVE  ValuesInv'
<1>1. /\ \A k \in Jobs : Same(k)
      /\ \A f \in Files \ {"credentials"} : files'[f] = files[f]
      /\ UNCHANGED <<exists, lapsed>>
  BY ExpireDoes DEF BaseInv
<1>2. PICK c \in files["credentials"] :
        files'["credentials"] = (files["credentials"] \ {c}) \cup {[c EXCEPT !.live = FALSE]}
  BY ExpireDoes DEF BaseInv
<1>3. Holders' = Holders
  BY <1>1 DEF Holders, Same
<1>4. Purse(files'["credentials"], Holders)
  <2>1. Purse(files["credentials"], Holders)
    BY DEF ValuesInv, ContentsOK
  <2>. DEFINE C == files["credentials"]
              d == [c EXCEPT !.live = FALSE]
  <2>2. Purse((C \ {c}) \cup {d}, Holders)
    BY <2>1, PurseExpires
  <2>. HIDE DEF d
  <2>. QED  BY <1>2, <2>2 DEF d
<1>5. ContentsOK(files', Holders')
  BY <1>1, <1>3, <1>4 DEF ValuesInv, ContentsOK, Files
<1>6. "credentials" \in exists
  BY <1>2 DEF ValuesInv, Files
<1>7. \A k \in Jobs : ContentsOK(view'[k], Holders') /\ Prepared(k)' /\ SavesExisting(k)'
  BY <1>1, <1>3, OthersPrepared, OthersStay DEF ValuesInv, SavesExisting, Same
<1>. QED  BY <1>1, <1>5, <1>6, <1>7 DEF ValuesInv

LEMMA InitValues == HomeInit => ValuesInv
<1>. SUFFICES ASSUME HomeInit PROVE ValuesInv
  OBVIOUS
<1>1. ContentsOK(files, Holders) /\ \A j \in Jobs : ContentsOK(view[j], Holders)
  BY EmptyPurse, FS_EmptySet DEF HomeInit, ContentsOK, Files
<1>2. \A j \in Jobs : Prepared(j) /\ SavesExisting(j)
  BY DEF HomeInit, Prepared, SavesExisting, Running
<1>. QED  BY <1>1, <1>2 DEF HomeInit, ValuesInv

LEMMA StepValues == BaseInv /\ ValuesInv /\ [HomeNext]_homeVars => ValuesInv'
<1>. SUFFICES ASSUME BaseInv, ValuesInv, [HomeNext]_homeVars PROVE ValuesInv'
  OBVIOUS
<1>1. ASSUME NEW j \in Jobs, Work(j) PROVE ValuesInv'
  <2>1. lapsed' = lapsed \/ \E f \in Files : lapsed' = lapsed + Lapses(j, f)
    BY <1>1, WorkDoes DEF Passes, Saves
  <2>2. lapsed' \in Nat
    BY <2>1, LapsesNumber DEF ValuesInv
  <2>. QED  BY <1>1, <2>2, WorkContents, WorkViews, WorkPrepared, WorkExisting DEF ValuesInv
<1>2. ASSUME NEW j \in Jobs, NEW c \in CommandsOf[j], Start(j, c) PROVE ValuesInv'
  <2>1. /\ result[j] = "waiting" /\ \A k \in Jobs \ {j} : Same(k)
        /\ UNCHANGED <<files, exists, step, phase, view, lapsed>>
    BY <1>2, StartDoes DEF BaseInv
  <2>2. Holders \subseteq Holders'
    BY <2>1 DEF Same, Holders
  <2>3. ContentsOK(files', Holders') /\ \A k \in Jobs : ContentsOK(view'[k], Holders')
    BY <2>1, <2>2, PurseGrows DEF ValuesInv, ContentsOK
  <2>4. Prepared(j)' /\ SavesExisting(j)'
    BY <2>1 DEF BaseInv, WaitsAtStart, Prepared, SavesExisting
  <2>5. \A k \in Jobs \ {j} : Prepared(k)' /\ SavesExisting(k)'
    BY <2>1, OthersPrepared, OthersStay DEF ValuesInv, SavesExisting, Same
  <2>. QED  BY <2>1, <2>3, <2>4, <2>5 DEF ValuesInv
<1>3. ASSUME NEW p, Kill(p) PROVE ValuesInv'
  <2>1. /\ UNCHANGED <<files, exists, cmd, step, phase, lapsed>>
        /\ \A k \in Jobs : IF Process[k] = p /\ Running(k)
                          THEN result'[k] = "killed" /\ view'[k] = [f \in Files |-> {}]
                          ELSE Same(k)
    BY <1>3, KillDoes DEF BaseInv
  <2>2. Holders \subseteq Holders'
    BY <2>1 DEF Same, Holders, Running
  <2>3. ContentsOK(files', Holders')
    BY <2>1, <2>2, PurseGrows DEF ValuesInv, ContentsOK
  <2>4. ASSUME NEW k \in Jobs
        PROVE  ContentsOK(view'[k], Holders') /\ Prepared(k)' /\ SavesExisting(k)'
    <3>1. CASE Process[k] = p /\ Running(k)
      <4>1. ContentsOK(view'[k], Holders')
        BY <2>1, <3>1, EmptyPurse DEF ContentsOK, Files
      <4>. QED  BY <2>1, <3>1, <4>1 DEF Prepared, SavesExisting, SavesWhole, At, Running
    <3>2. CASE ~(Process[k] = p /\ Running(k))
      <4>1. ContentsOK(view'[k], Holders')
        BY <2>1, <2>2, <3>2, PurseGrows DEF ValuesInv, ContentsOK, Same
      <4>2. Prepared(k)'
        BY <2>1, <3>2, OthersPrepared DEF ValuesInv
      <4>. QED  BY <2>1, <3>2, <4>1, <4>2, OthersStay DEF ValuesInv, SavesExisting, Same
    <3>. QED  BY <3>1, <3>2
  <2>. QED  BY <2>1, <2>3, <2>4 DEF ValuesInv
<1>4. CASE UNCHANGED homeVars
  BY <1>4 DEF homeVars, ValuesInv, ContentsOK, Holders, Prepared, SavesExisting, SavesWhole, At, Running,
     Credits, Missing
<1>. QED  BY <1>1, <1>2, <1>3, <1>4, ExpireValues DEF HomeNext

LEMMA TypesFollow == BaseInv /\ ValuesInv => HomeTypeOK
<1>. SUFFICES ASSUME BaseInv, ValuesInv PROVE HomeTypeOK
  OBVIOUS
<1>1. files["wallet"] \subseteq 0 .. Initial /\ Cardinality(files["wallet"]) <= 1
  <2>1. CASE files["wallet"] = {}
    BY <2>1, FS_EmptySet
  <2>2. CASE \E n \in 0 .. Initial : files["wallet"] = {n}
    <3>1. PICK n \in 0 .. Initial : files["wallet"] = {n}
      BY <2>2
    <3>2. Cardinality({n}) = 1
      BY FS_Singleton
    <3>. QED  BY <3>1, <3>2
  <2>. QED  BY <2>1, <2>2 DEF ValuesInv, ContentsOK, Amounts
<1>2. ASSUME NEW f \in Files PROVE Cardinality({l \in locks : l.file = f}) <= 1
  <2>1. CASE {l \in locks : l.file = f} = {}
    BY <2>1, FS_EmptySet
  <2>2. CASE {l \in locks : l.file = f} # {}
    <3>1. PICK l \in locks : l.file = f
      BY <2>2
    <3>2. {m \in locks : m.file = f} = {l}
      BY <3>1 DEF BaseInv, LocksOK
    <3>3. Cardinality({l}) = 1
      BY FS_Singleton
    <3>. QED  BY <3>2, <3>3
  <2>. QED  BY <2>1, <2>2
<1>3. locks \subseteq [file : Guarded, job : Jobs, mode : {"shared", "exclusive"},
                     handle : {"outer", "inner"}]
  <2>. SUFFICES ASSUME NEW l \in locks
                PROVE  l \in [file : Guarded, job : Jobs, mode : {"shared", "exclusive"},
                              handle : {"outer", "inner"}]
    OBVIOUS
  <2>1. l \in [file : Guarded, job : Jobs, mode : {"exclusive"}, handle : {"outer", "inner"}]
    BY DEF BaseInv, LocksOK
  <2>. QED  BY <2>1
<1>4. files["credentials"] \subseteq [id : Jobs, calls : 0 .. PackageCalls, by : {"core", "skill"},
                                  live : BOOLEAN, no : Nat]
  BY DEF ValuesInv, ContentsOK, Purse, Credential
<1>5. /\ DOMAIN files = Files
      /\ {torn, exists, tornReads, overlapped} \subseteq SUBSET Files
      /\ torn \subseteq exists
      /\ phase \in [Jobs -> {"ready", "truncated"}] /\ kills \in 0 .. MaxKills
      /\ result \in [Jobs -> {"waiting", "running", "ok", "kept", "refused", "raised",
                          "not_served", "killed"}]
  BY AmountAssumption DEF BaseInv, JobsOK, Results
<1>. QED  BY <1>1, <1>2, <1>3, <1>4, <1>5 DEF HomeTypeOK, ValuesInv, ContentsOK, Entry

-----------------------------------------------------------------------------
(* A file that no lock keeps between load and save has one writer, who     *)
(* knows what is in it, as long as no two have overlapped.                 *)

Solo(f) == /\ \A j \in Jobs : Saving(j, f) => view[j][f] = files[f]
           /\ \A j, k \in Jobs : Saving(j, f) /\ Saving(k, f) => j = k
SoloInv == kills = 0 => \A f \in Shared \ overlapped : Solo(f)

LEMMA SaversRewrite ==
  ASSUME BaseInv, NEW j \in Jobs, NEW f, Saving(j, f)
  PROVE  Rewrites(j, f)
<1>. DEFINE P == Program[cmd[j]]
<1>1. PICK o \in {"save", "ensure", "replace"} : At(j, o, f)
  BY DEF Saving
<1>2. step[j] \in 1 .. Len(P) /\ Len(P) \in Nat /\ Running(j)
  BY <1>1, AtPlace DEF BaseInv
<1>3. P[step[j]].op = o /\ P[step[j]].file = f
  BY <1>1 DEF At, Op
<1>4. step[j] \in step[j] .. Len(P) /\ \A n \in step[j] .. step[j] : n = step[j]
  BY <1>2
<1>. HIDE DEF P
<1>5. \E k \in step[j] .. Len(P) :
        /\ P[k].file = f /\ P[k].op \in {"save", "replace", "ensure"}
        /\ \A n \in step[j] .. k : ~(P[n].file = f /\ P[n].op \in {"load", "read"})
  BY <1>1, <1>3, <1>4
<1>. QED  BY <1>2, <1>5 DEF Rewrites, P

\* A job comes to a save of such a file from its load.
LEMMA FromLoadToSave ==
  ASSUME BaseInv, NEW j \in Jobs, NEW o, NEW g, At(j, o, g), step'[j] = step[j] + 1, cmd' = cmd,
         NEW f \in Shared, Saving(j, f)'
  PROVE  o = "load" /\ g = f
<1>. DEFINE P == Program[cmd[j]]
<1>1. PICK p \in {"save", "ensure", "replace"} : At(j, p, f)'
  BY DEF Saving
<1>2. /\ cmd[j] \in Commands /\ step[j] \in Nat \ {0} /\ Len(P) \in Nat
  BY OpsArePlaced DEF BaseInv, JobsOK
<1>3. step[j] + 1 <= Len(P) /\ P[step[j] + 1] = Op(p, f)
  BY <1>1 DEF At
<1>4. P[step[j] + 1].op = p /\ P[step[j] + 1].file = f /\ step[j] + 1 \in 1 .. Len(P)
  BY <1>2, <1>3 DEF Op
<1>5. P[(step[j] + 1) - 1] = Op("load", f)
  <2>. HIDE DEF P
  <2>1. \A i \in 1 .. Len(P) : P[i].op \in {"save", "ensure", "replace"} /\ P[i].file \in Shared
                                => i > 1 /\ P[i - 1] = Op("load", P[i].file)
    BY <1>2, SaveFollowsLoad DEF P
  <2>. QED  BY <1>1, <1>4, <2>1
<1>6. (step[j] + 1) - 1 = step[j]
  BY <1>2
<1>7. P[step[j]] = Op("load", f) /\ P[step[j]] = Op(o, g)
  BY <1>5, <1>6 DEF At
<1>. QED  BY <1>7 DEF Op

LEMMA SharedAreFiles == Shared \subseteq Files
BY DEF Shared, Files

LEMMA OthersSave ==
  ASSUME NEW k, Same(k)
  PROVE  \A f : Saving(k, f)' <=> Saving(k, f)
BY OthersStay DEF Saving

\* What a load finds while nobody else is at it is the file.
LEMMA FindsTheFile ==
  ASSUME BaseInv, ValuesInv, ReadsWhole, NEW j \in Jobs, NEW o \in {"load", "read"}, NEW f \in Files, At(j, o, f),
         \A k \in Jobs \ {j} : ~Saving(k, f)
  PROVE  Found(f) = files[f]
<1>1. f \notin torn
  <2>. SUFFICES ASSUME f \in torn PROVE FALSE
    OBVIOUS
  <2>1. PICK k \in Jobs : phase[k] = "truncated" /\ SavesWhole(k, f)
    BY DEF ReadsWhole, TornHasWriter
  <2>2. Saving(k, f) /\ k # j
    BY <2>1, AtOnce DEF SavesWhole, Saving
  <2>. QED  BY <2>2
<1>. QED  BY <1>1 DEF Found, ValuesInv

LEMMA WorkSolo ==
  ASSUME BaseInv, ValuesInv, ReadsWhole, NEW j \in Jobs, Work(j), NEW f \in Shared, f \notin overlapped',
         f \notin overlapped => Solo(f)
  PROVE  Solo(f)' /\ overlapped \subseteq overlapped' /\ Solo(f)
<1>0. f \in Files
  BY SharedAreFiles
<1>1. Frame(j) /\ Running(j) /\ cmd' = cmd
  BY WorkDoes DEF Frame
<1>2. overlapped \subseteq overlapped'
  BY WorkDoes DEF Passes, Loads, Saves
<1>3. Solo(f)
  BY <1>2
<1>4. \A k \in Jobs \ {j} : (Saving(k, f)' <=> Saving(k, f)) /\ view'[k] = view[k]
  BY <1>1, OthersSave DEF Frame, Same
<1>5. CASE Passes(j)
  <2>1. ~Saving(j, f)'
    <3>1. CASE ~Running(j)'
      BY <3>1 DEF Saving, At
    <3>2. CASE Running(j)'
      <4>1. step'[j] = step[j] + 1 /\ \E o \in {"hold", "ensure"}, g \in {"wallet", "config"} : At(j, o, g)
        BY <1>5, <3>2 DEF Passes, Ends, Moves, Running
      <4>. QED  BY <1>1, <4>1, FromLoadToSave
    <3>. QED  BY <3>1, <3>2
  <2>. QED  BY <1>3, <1>4, <1>5, <2>1 DEF Solo, Passes
<1>6. CASE /\ UNCHANGED files
           /\ \E g \in Files, o \in {"load", "read"} : At(j, o, g) /\ Loads(j, o, g)
  <2>1. PICK g \in Files, o \in {"load", "read"} : At(j, o, g) /\ Loads(j, o, g)
    BY <1>6
  <2>2. CASE ~Saving(j, f)'
    BY <1>2, <1>3, <1>4, <1>6, <2>2 DEF Solo
  <2>3. CASE Saving(j, f)'
    <3>1. Running(j)'
      BY <2>3 DEF Saving, At
    <3>2. /\ step'[j] = step[j] + 1 /\ view'[j][g] = Found(g)
          /\ overlapped' = overlapped \cup (IF \E k \in Jobs \ {j} : Rewrites(k, g) THEN {g} ELSE {})
      BY <2>1, <3>1 DEF Loads, Ends, Moves, Running, StopsWith
    <3>3. g = f
      BY <1>1, <2>1, <2>3, <3>2, FromLoadToSave
    <3>4. \A k \in Jobs \ {j} : ~Saving(k, f)
      BY <3>2, <3>3, SaversRewrite
    <3>5. Found(f) = files[f]
      BY <1>0, <2>1, <3>3, <3>4, FindsTheFile
    <3>. QED  BY <1>4, <1>6, <3>2, <3>3, <3>4, <3>5 DEF Solo
  <2>. QED  BY <2>2, <2>3
<1>7. CASE /\ UNCHANGED <<files, step, view, result, overlapped>>
  <2>1. Saving(j, f)' <=> Saving(j, f)
    BY <1>1, <1>7 DEF Saving, At, Running
  <2>. QED  BY <1>3, <1>4, <1>7, <2>1 DEF Solo
<1>8. CASE \E g \in Files : Saves(j, g)
  <2>1. PICK g \in Files : Saves(j, g)
    BY <1>8
  <2>2. ~Saving(j, f)'
    <3>1. CASE ~Running(j)'
      BY <3>1 DEF Saving, At
    <3>2. CASE Running(j)'
      <4>1. step'[j] = step[j] + 1
        BY <2>1, <3>2 DEF Saves, EndsOrMoves, Ends, Moves, Running
      <4>2. PICK o \in {"save", "ensure", "replace"} : At(j, o, g)
        BY <2>1 DEF Saves, Saving
      <4>. QED  BY <1>1, <4>1, <4>2, FromLoadToSave
    <3>. QED  BY <3>1, <3>2
  <2>3. CASE g = f
    <3>1. \A k \in Jobs \ {j} : ~Saving(k, f)
      BY <1>3, <2>1, <2>3 DEF Saves, Solo
    <3>. QED  BY <1>2, <1>3, <1>4, <2>2, <3>1 DEF Solo
  <2>4. CASE g # f
    <3>1. files'[f] = files[f]
      BY <1>0, <2>1, <2>4 DEF Saves, BaseInv, JobsOK
    <3>. QED  BY <1>2, <1>3, <1>4, <2>2, <3>1 DEF Solo
  <2>. QED  BY <2>3, <2>4
<1>. QED  BY <1>2, <1>3, <1>5, <1>6, <1>7, <1>8, WorkDoes

LEMMA StepSolo == BaseInv /\ TornInv /\ ValuesInv /\ SoloInv /\ [HomeNext]_homeVars => SoloInv'
<1>. SUFFICES ASSUME BaseInv, TornInv, ValuesInv, SoloInv, [HomeNext]_homeVars, kills' = 0,
                     NEW f \in Shared, f \notin overlapped'
              PROVE  Solo(f)'
  BY DEF SoloInv
<1>1. ASSUME NEW j \in Jobs, Work(j) PROVE Solo(f)'
  <2>1. kills = 0
    BY <1>1, WorkDoes DEF Frame
  <2>. QED  BY <1>1, <2>1, WorkSolo DEF TornInv, SoloInv
<1>2. ASSUME NEW j \in Jobs, NEW c \in CommandsOf[j], Start(j, c) PROVE Solo(f)'
  <2>1. /\ result[j] = "waiting" /\ \A k \in Jobs \ {j} : Same(k)
        /\ UNCHANGED <<files, view, kills, overlapped, step>>
        /\ cmd'[j] = c /\ c \in Commands
    BY <1>2, StartDoes DEF BaseInv
  <2>2. Solo(f) /\ step'[j] = 1
    BY <2>1 DEF SoloInv, BaseInv, WaitsAtStart
  <2>3. ~Saving(j, f)'
    <3>. SUFFICES ASSUME Saving(j, f)' PROVE FALSE
      OBVIOUS
    <3>1. PICK o \in {"save", "ensure", "replace"} : At(j, o, f)'
      BY DEF Saving
    <3>2. Program[c][1] = Op(o, f) /\ 1 <= Len(Program[c])
      BY <2>1, <2>2, <3>1 DEF At
    <3>3. Program[c][1].op = o /\ Program[c][1].file = f
      BY <3>2 DEF Op
    <3>4. 1 \in 1 .. Len(Program[c])
      BY <2>1, <3>2, OpsArePlaced
    <3>. QED  BY <2>1, <3>3, <3>4, SaveFollowsLoad
  <2>. QED  BY <2>1, <2>2, <2>3, OthersSave DEF Solo, Same
<1>3. ASSUME NEW p, Kill(p) PROVE FALSE
  BY <1>3, KillDoes DEF BaseInv
<1>4. CASE UNCHANGED homeVars
  BY <1>4 DEF homeVars, SoloInv, Solo, Saving, At, Running
<1>5. CASE Expire
  <2>1. /\ \A k \in Jobs : Same(k) /\ ~Rewrites(k, "credentials")
        /\ \A g \in Files \ {"credentials"} : files'[g] = files[g]
        /\ UNCHANGED <<kills, overlapped>>
    BY <1>5, ExpireDoes DEF BaseInv
  <2>2. Solo(f) /\ f \in Files
    BY <2>1, SharedAreFiles DEF SoloInv
  <2>3. CASE f = "credentials"
    <3>1. \A k \in Jobs : ~Saving(k, f)
      BY <2>1, <2>3, SaversRewrite
    <3>. QED  BY <2>1, <3>1, OthersSave DEF Solo
  <2>4. CASE f # "credentials"
    BY <2>1, <2>2, <2>4, OthersSave DEF Solo, Same
  <2>. QED  BY <2>3, <2>4
<1>. QED  BY <1>1, <1>2, <1>3, <1>4, <1>5 DEF HomeNext

LEMMA InitSolo == HomeInit => SoloInv
BY DEF HomeInit, SoloInv, Solo, Saving, At, Running

-----------------------------------------------------------------------------
(* The history and the config.                                             *)

Records == {j \in Jobs : Recorded(j)}

\* The last entries of n that were added, in a list that is cut, each once.
Numbered(H, n) == /\ {e.no : e \in H} = {k \in 1 .. n : k > n - HistoryLimit}
                  /\ \A d, e \in H : d.id = e.id \/ d.no = e.no => d = e
HistoryTold == /\ Numbered(files["history"], Cardinality(Records))
               /\ \A e \in files["history"] : Recorded(e.id)
HistoryInv == kills = 0 /\ "history" \notin overlapped => HistoryTold

LEMMA OneMore ==
  ASSUME NEW S \in SUBSET Jobs, NEW j \in Jobs, j \notin S
  PROVE  Cardinality(S) \in Nat /\ Cardinality(S \cup {j}) = Cardinality(S) + 1
BY JobsAssumption, FS_Subset, FS_AddElement, FS_CardinalityType

LEMMA NumbersGo ==
  ASSUME NEW j \in Jobs, NEW H \in SUBSET Entry, IsFiniteSet(H), NEW n \in Nat, Numbered(H, n),
         \A e \in H : e.id # j
  PROVE  Numbered(WithTransaction(j, H), n + 1)
<1>1. \A e \in H : e.no \in Nat /\ e.no \in 1 .. n /\ e.no > n - HistoryLimit
  BY DEF Numbered, Entry
<1>2. HistoryLimit \in Nat
  BY AmountAssumption
<1>3. \A d, e \in H : d.id = e.id \/ d.no = e.no => d = e
  BY DEF Numbered
<1>. DEFINE x(m) == [id |-> j, no |-> m]
            W(m) == {e \in H \cup {x(m)} : e.no > m - HistoryLimit}
<1>4. WithTransaction(j, H) = W(Newest(H) + 1)
  BY DEF WithTransaction
<1>5. CASE HistoryLimit = 0
  <2>1. H = {}
    BY <1>1, <1>5
  <2>2. Newest(H) + 1 = 1
    BY <2>1 DEF Newest
  <2>3. W(1) = {}
    BY <1>5, <2>1
  <2>4. {k \in 1 .. n + 1 : k > (n + 1) - HistoryLimit} = {}
    BY <1>5
  <2>. QED  BY <1>4, <2>2, <2>3, <2>4 DEF Numbered
<1>6. CASE HistoryLimit > 0
  <2>1. Newest(H) = n
    <3>1. /\ Newest(H) \in Nat /\ \A e \in H : e.no <= Newest(H)
          /\ H # {} => \E e \in H : e.no = Newest(H)
      BY <1>1, NewestIs
    <3>2. CASE n = 0
      <4>1. H = {}
        BY <1>1, <3>2
      <4>. QED  BY <3>2, <4>1 DEF Newest
    <3>3. CASE n > 0
      <4>1. n \in {k \in 1 .. n : k > n - HistoryLimit}
        BY <1>2, <1>6, <3>3
      <4>2. PICK e \in H : e.no = n
        BY <4>1 DEF Numbered
      <4>. QED  BY <1>1, <3>1, <4>2
    <3>. QED  BY <3>2, <3>3
  <2>. DEFINE V == W(n + 1)
  <2>2. \A e \in V : \/ e \in H /\ e.no \in 1 .. n /\ e.no > (n + 1) - HistoryLimit /\ e.id # j
                     \/ e = x(n + 1) /\ e.no = n + 1 /\ e.id = j
    BY <1>1
  <2>3. \A e \in V : e.no \in {k \in 1 .. n + 1 : k > (n + 1) - HistoryLimit}
    BY <1>2, <1>6, <2>2
  <2>4. ASSUME NEW k \in 1 .. n + 1, k > (n + 1) - HistoryLimit PROVE \E e \in V : e.no = k
    <3>1. CASE k = n + 1
      <4>1. x(n + 1) \in V /\ x(n + 1).no = n + 1
        BY <1>2, <1>6
      <4>. QED  BY <3>1, <4>1
    <3>2. CASE k # n + 1
      <4>1. k \in {i \in 1 .. n : i > n - HistoryLimit}
        BY <1>2, <2>4, <3>2
      <4>2. PICK e \in H : e.no = k
        BY <4>1 DEF Numbered
      <4>. QED  BY <2>4, <4>2
    <3>. QED  BY <3>1, <3>2
  <2>5. \A d, e \in V : d.id = e.id \/ d.no = e.no => d = e
    BY <1>3, <2>2
  <2>. HIDE DEF V
  <2>6. {e.no : e \in V} = {k \in 1 .. n + 1 : k > (n + 1) - HistoryLimit}
    BY <2>3, <2>4
  <2>7. WithTransaction(j, H) = V
    BY <1>4, <2>1 DEF V
  <2>. QED  BY <2>5, <2>6, <2>7 DEF Numbered
<1>. QED  BY <1>2, <1>5, <1>6

\* A recorded transaction was saved by the last step of its job.
LEMMA RecordsLast ==
  ASSUME BaseInv, ValuesInv, NEW j \in Jobs, Work(j), Recorded(j)'
  PROVE  Saves(j, "history")
<1>1. /\ Frame(j) /\ Running(j) /\ cmd[j] \in {"setup", "blocked_pay"} /\ result'[j] = "ok"
  BY WorkDoes DEF Frame, Recorded
<1>2. ASSUME NEW o, NEW f, At(j, o, f)
      PROVE  /\ Placed(cmd[j], step[j], Len(Program[cmd[j]]), o, f) /\ o \notin {"drop", "present"}
             /\ step[j] = Len(Program[cmd[j]]) => o = "save" /\ f = "history"
  BY <1>1, <1>2, AtPlace DEF BaseInv, Placed
<1>3. CASE Passes(j)
  BY <1>1, <1>2, <1>3 DEF Passes, Ends, Moves
<1>4. CASE \E f \in Files, o \in {"load", "read"} : At(j, o, f) /\ Loads(j, o, f)
  BY <1>1, <1>2, <1>4 DEF Loads, Ends, Moves, StopsWith, Purges
<1>5. CASE result' = result
  BY <1>1, <1>5 DEF Running
<1>6. CASE \E f \in Files : Saves(j, f)
  <2>1. PICK f \in Files : Saves(j, f)
    BY <1>6
  <2>2. PICK o \in {"save", "ensure", "replace"} : At(j, o, f)
    BY <2>1 DEF Saves, Saving
  <2>3. step[j] = Len(Program[cmd[j]])
    BY <1>1, <2>1 DEF Saves, EndsOrMoves, Ends, Moves
  <2>. QED  BY <1>2, <2>1, <2>2, <2>3
<1>. QED  BY <1>3, <1>4, <1>5, <1>6, WorkDoes

\* What is saved is what was in the file, changed.
LEMMA SavesTheFile ==
  ASSUME BaseInv, NEW j \in Jobs, NEW f \in Files, Saves(j, f)
  PROVE  /\ files'[f] = Change(j, f) /\ \A g \in Files \ {f} : files'[g] = files[g]
         /\ Solo(f) => view[j][f] = files[f]
BY DEF Saves, Solo, BaseInv, JobsOK

LEMMA SavedOrSame ==
  ASSUME BaseInv, ValuesInv, NEW j \in Jobs, Work(j), NEW f \in Files
  PROVE  Saves(j, f) \/ files'[f] = files[f]
<1>1. CASE \E g \in Files : Saves(j, g)
  BY <1>1, SavesTheFile
<1>2. CASE files' = files
  BY <1>2
<1>. QED  BY <1>1, <1>2, WorkDoes DEF Passes

\* What is recorded by its last step.
LEMMA SaveRecords ==
  ASSUME BaseInv, ValuesInv, NEW j \in Jobs, Work(j), Saves(j, "history")
  PROVE  Recorded(j)'
<1>1. Frame(j) /\ cmd' = cmd
  BY WorkDoes DEF Frame
<1>2. cmd[j] \in {"setup", "blocked_pay"} /\ step[j] = Len(Program[cmd[j]]) /\ cmd[j] \in Commands
  BY WhoSaves DEF Saves
<1>3. Len(Program[cmd[j]]) \in Nat
  BY <1>2, OpsArePlaced
<1>4. result'[j] = "ok"
  BY <1>2, <1>3 DEF Saves, EndsOrMoves, Ends, Moves
<1>. QED  BY <1>1, <1>2, <1>4 DEF Recorded

LEMMA WorkHistory ==
  ASSUME BaseInv, ValuesInv, Solo("history"), NEW j \in Jobs, Work(j), HistoryTold
  PROVE  HistoryTold'
<1>0. "history" \in Files
  BY DEF Files
<1>1. Frame(j) /\ Running(j)
  BY WorkDoes
<1>2. \A k \in Jobs \ {j} : Recorded(k)' <=> Recorded(k)
  BY <1>1 DEF Frame, Same, Recorded
<1>3. ~Recorded(j)
  BY <1>1 DEF Recorded, Running
<1>. DEFINE H == files["history"]
            n == Cardinality(Records)
<1>4. H \in SUBSET Entry /\ IsFiniteSet(H) /\ \A e \in H : e.id \in Jobs
  BY DEF ValuesInv, ContentsOK, Entry
<1>5. CASE Saves(j, "history")
  <2>1. files'["history"] = WithTransaction(j, H)
    <3>1. files'["history"] = Change(j, "history") /\ view[j]["history"] = H
      BY <1>0, <1>5, SavesTheFile
    <3>. QED  BY <3>1 DEF Change
  <2>2. Recorded(j)'
    BY <1>5, SaveRecords
  <2>3. Records' = Records \cup {j} /\ j \notin Records /\ Records \in SUBSET Jobs
    BY <1>2, <1>3, <2>2 DEF Records
  <2>4. n \in Nat /\ Cardinality(Records') = n + 1
    BY <2>3, OneMore
  <2>5. Numbered(H, n) /\ \A e \in H : e.id # j
    BY <1>3 DEF HistoryTold
  <2>6. Numbered(files'["history"], n + 1)
    <3>. HIDE DEF H, n
    <3>. QED  BY <1>4, <2>1, <2>4, <2>5, NumbersGo
  <2>7. \A e \in WithTransaction(j, H) : e \in H \/ e.id = j
    BY DEF WithTransaction
  <2>8. \A e \in files'["history"] : Recorded(e.id)'
    BY <1>2, <1>4, <2>1, <2>2, <2>7 DEF HistoryTold
  <2>. QED  BY <2>4, <2>6, <2>8 DEF HistoryTold, Numbered
<1>6. CASE ~Saves(j, "history")
  <2>1. files'["history"] = H /\ ~Recorded(j)'
    BY <1>0, <1>6, SavedOrSame, RecordsLast
  <2>2. Records' = Records
    BY <1>2, <1>3, <2>1 DEF Records
  <2>3. \A e \in H : Recorded(e.id)'
    BY <1>2, <1>3, <1>4 DEF HistoryTold
  <2>. QED  BY <2>1, <2>2, <2>3 DEF HistoryTold, Numbered
<1>. QED  BY <1>5, <1>6

LEMMA SameHistory ==
  ASSUME HistoryTold, files'["history"] = files["history"], \A k \in Jobs : Recorded(k)' <=> Recorded(k),
         \A e \in files["history"] : e.id \in Jobs
  PROVE  HistoryTold'
<1>1. Records' = Records
  BY DEF Records
<1>. QED  BY <1>1 DEF HistoryTold, Numbered

LEMMA StepHistory ==
  BaseInv /\ TornInv /\ ValuesInv /\ SoloInv /\ HistoryInv /\ [HomeNext]_homeVars => HistoryInv'
<1>. SUFFICES ASSUME BaseInv, TornInv, ValuesInv, SoloInv, HistoryInv, [HomeNext]_homeVars,
                     kills' = 0, "history" \notin overlapped'
              PROVE  HistoryTold'
  BY DEF HistoryInv
<1>0. "history" \in Shared /\ \A e \in files["history"] : e.id \in Jobs
  BY DEF Shared, ValuesInv, ContentsOK, Entry
<1>1. ASSUME NEW j \in Jobs, Work(j) PROVE HistoryTold'
  <2>1. kills = 0 /\ overlapped \subseteq overlapped'
    BY <1>1, WorkDoes DEF Frame, Passes, Loads, Saves
  <2>2. Solo("history")
    BY <1>0, <2>1 DEF SoloInv
  <2>. QED  BY <1>1, <2>1, <2>2, WorkHistory DEF HistoryInv
<1>2. ASSUME NEW j \in Jobs, NEW c \in CommandsOf[j], Start(j, c) PROVE HistoryTold'
  <2>1. /\ \A k \in Jobs \ {j} : Same(k)
        /\ UNCHANGED <<files, kills, overlapped>>
        /\ cmd'[j] = c /\ result'[j] \in {"ok", "raised", "running"} /\ result[j] = "waiting"
        /\ result'[j] = "running" <=> Program[c] # <<>>
    BY <1>2, StartDoes DEF BaseInv
  <2>2. ~Recorded(j)' /\ ~Recorded(j)
    BY <2>1, SomeAreNotEmpty DEF Recorded
  <2>3. \A k \in Jobs : Recorded(k)' <=> Recorded(k)
    BY <2>1, <2>2 DEF Same, Recorded
  <2>. QED  BY <1>0, <2>1, <2>3, SameHistory DEF HistoryInv
<1>3. ASSUME NEW p, Kill(p) PROVE FALSE
  BY <1>3, KillDoes DEF BaseInv
<1>4. CASE Expire \/ UNCHANGED homeVars
  <2>1. /\ files'["history"] = files["history"] /\ kills' = kills /\ overlapped' = overlapped
        /\ cmd' = cmd /\ result' = result
    <3>1. CASE Expire
      <4>1. \A f \in Files \ {"credentials"} : files'[f] = files[f]
        BY <3>1, ExpireDoes DEF BaseInv
      <4>. QED  BY <3>1, <4>1 DEF Expire, Files
    <3>2. CASE UNCHANGED homeVars
      BY <3>2 DEF homeVars
    <3>. QED  BY <1>4, <3>1, <3>2
  <2>2. \A k \in Jobs : Recorded(k)' <=> Recorded(k)
    BY <2>1 DEF Recorded
  <2>. QED  BY <1>0, <2>1, <2>2, SameHistory DEF HistoryInv
<1>. QED  BY <1>1, <1>2, <1>3, <1>4 DEF HomeNext

\* The key a setup works with, and what it leaves behind.
KeyKnown(j) ==
  /\ Running(j) /\ step[j] > 2 =>
       files["config"] = IF view[j]["config"] = {} THEN {j} ELSE view[j]["config"]
  /\ result[j] \in {"ok", "kept"} => files["config"] = view[j]["config"] /\ files["config"] # {}
ConfigInv == kills = 0 /\ "config" \notin overlapped => \A j \in Setups : KeyKnown(j)

\* The config is saved by a setup that found none.
LEMMA SavesKey ==
  ASSUME BaseInv, ValuesInv, Solo("config"), NEW j \in Jobs, Saves(j, "config")
  PROVE  /\ files["config"] = {} /\ view[j]["config"] = {} /\ files'["config"] = {j}
         /\ cmd[j] = "setup" /\ step[j] = 2
         /\ step'[j] = 3 /\ result'[j] = "running" /\ view' = view
<1>0. "config" \in Files
  BY DEF Files
<1>1. PICK o \in {"save", "ensure", "replace"} : At(j, o, "config")
  BY DEF Saves, Saving
<1>2. Placed(cmd[j], step[j], Len(Program[cmd[j]]), o, "config")
  BY <1>1, AtPlace DEF BaseInv
<1>3. o = "ensure" /\ cmd[j] = "setup" /\ step[j] = 2 /\ Len(Program[cmd[j]]) = 6
  BY <1>2 DEF Placed
<1>4. view[j]["config"] = {}
  BY <1>1, <1>3 DEF Saves, Missing
<1>5. files["config"] = {} /\ files'["config"] = {j}
  BY <1>0, <1>4, SavesTheFile DEF Change
<1>. QED  BY <1>3, <1>4, <1>5 DEF Saves, EndsOrMoves, Moves

LEMMA WorkKeys ==
  ASSUME BaseInv, ValuesInv, Solo("config"), NEW j \in Jobs, Work(j), NEW k \in Setups, KeyKnown(k)
  PROVE  KeyKnown(k)'
<1>0. "config" \in Files /\ k \in Jobs /\ cmd[k] = "setup"
  BY DEF Files, Setups
<1>1. Frame(j) /\ Running(j)
  BY WorkDoes
<1>2. CASE Saves(j, "config")
  <2>1. CASE k = j
    BY <1>2, <2>1, SavesKey DEF KeyKnown
  <2>2. CASE k # j
    <3>1. Same(k) /\ files["config"] = {}
      BY <1>0, <1>1, <1>2, <2>2, SavesKey DEF Frame
    <3>2. ~(Running(k) /\ step[k] > 2) /\ result[k] \notin {"ok", "kept"}
      BY <3>1 DEF KeyKnown
    <3>. QED  BY <3>1, <3>2 DEF KeyKnown, Same, Running
  <2>. QED  BY <2>1, <2>2
<1>3. CASE files'["config"] = files["config"] /\ k # j
  BY <1>0, <1>1, <1>3 DEF KeyKnown, Frame, Same, Running
<1>4. CASE files'["config"] = files["config"] /\ k = j /\ ~Saves(j, "config")
  <2>. DEFINE Key == files["config"] = IF view[j]["config"] = {} THEN {j} ELSE view[j]["config"]
  <2>1. step[j] > 2 => Key
    BY <1>1, <1>4 DEF KeyKnown
  <2>2. ASSUME NEW o, NEW f, At(j, o, f)
        PROVE  /\ Placed("setup", step[j], Len(Program[cmd[j]]), o, f)
               /\ Len(Program[cmd[j]]) = 6
               /\ step[j] \in 1 .. 6
    <3>1. /\ cmd[j] = "setup" /\ step[j] \in 1 .. Len(Program[cmd[j]])
          /\ Placed(cmd[j], step[j], Len(Program[cmd[j]]), o, f)
      BY <1>0, <1>4, <2>2, AtPlace DEF BaseInv
    <3>2. Len(Program[cmd[j]]) = 6
      BY <3>1 DEF Placed
    <3>. QED  BY <3>1, <3>2
  <2>3. CASE Passes(j)
    <3>1. PICK o \in {"hold", "drop", "ensure", "present"}, f \in Files : At(j, o, f)
      BY <2>3 DEF Passes
    <3>2. o = "ensure" /\ f = "config" /\ step[j] = 2
      BY <2>2, <3>1 DEF Placed
    <3>3. /\ step'[j] = step[j] + 1 /\ result'[j] = "running" /\ view' = view /\ view[j]["config"] # {}
      BY <2>3, <3>1, <3>2, AtOnce DEF Passes, Moves
    <3>4. files["config"] = view[j]["config"]
      BY <3>1, <3>2 DEF Solo, Saving
    <3>. QED  BY <1>4, <3>3, <3>4 DEF KeyKnown
  <2>4. CASE \E f \in Files, o \in {"load", "read"} : At(j, o, f) /\ Loads(j, o, f)
    <3>1. PICK f \in Files, o \in {"load", "read"} : At(j, o, f) /\ Loads(j, o, f)
      BY <2>4
    <3>2. Placed("setup", step[j], 6, o, f) /\ step[j] \in 1 .. 6 /\ Len(Program[cmd[j]]) = 6
      BY <2>2, <3>1
    <3>3. /\ step[j] # 2 /\ step[j] # 6 /\ (f = "config" <=> step[j] = 1)
      BY <3>2 DEF Placed
    <3>4. CASE Running(j)'
      <4>1. step'[j] = step[j] + 1 /\ \A g \in Files \ {f} : view'[j][g] = view[j][g]
        BY <3>1, <3>4 DEF Loads, Ends, StopsWith, Moves, Running
      <4>. QED  BY <1>0, <1>4, <2>1, <3>2, <3>3, <3>4, <4>1 DEF KeyKnown, Running
    <3>5. CASE ~Running(j)'
      <4>1. CASE step[j] = 1
        <5>1. result'[j] = "raised"
          BY <1>0, <1>4, <3>1, <3>2, <3>3, <3>5, <4>1 DEF Loads, Stops, Ends, Moves, Running
        <5>. QED  BY <1>4, <3>5, <5>1 DEF KeyKnown
      <4>2. CASE step[j] > 2
        <5>1. result'[j] \in {"ok", "kept"} => view'[j] = Kept(j)
          BY <3>1, <3>5 DEF Loads, Ends, Moves, Running
        <5>2. Kept(j)["config"] = files["config"] /\ files["config"] # {}
          BY <1>0, <1>4, <2>1, <4>2 DEF Kept
        <5>. QED  BY <1>4, <3>5, <5>1, <5>2 DEF KeyKnown
      <4>. QED  BY <3>2, <3>3, <4>1, <4>2
    <3>. QED  BY <3>4, <3>5
  <2>5. CASE UNCHANGED <<step, view, result>>
    BY <1>1, <1>4, <2>5 DEF KeyKnown, Running
  <2>6. CASE \E f \in Files : Saves(j, f)
    <3>1. PICK f \in Files : Saves(j, f) /\ f # "config"
      BY <1>4, <2>6
    <3>2. step[j] > 2
      <4>1. /\ f = "wallet" => \/ cmd[j] = "setup" /\ step[j] = 4
                               \/ cmd[j] = "proxy" /\ step[j] = 3
            /\ f = "credentials" => cmd[j] \in CreditCommands /\ step[j] = 2
            /\ f = "history" => step[j] > 2
        BY <3>1, WhoSaves DEF Saves
      <4>2. f \in {"wallet", "credentials", "history"} /\ cmd[j] = "setup"
        BY <1>0, <1>4, <3>1 DEF Files
      <4>. QED  BY <4>1, <4>2 DEF CreditCommands
    <3>3. EndsOrMoves(j, locks') 
      BY <3>1 DEF Saves, EndsOrMoves, Moves
    <3>4. Kept(j)["config"] = files["config"] /\ files["config"] # {}
      BY <1>0, <1>4, <2>1, <3>2 DEF Kept
    <3>5. CASE Ends(j, "ok")
      BY <1>4, <3>4, <3>5 DEF KeyKnown, Ends, Running
    <3>6. CASE view' = view /\ result'[j] = "running"
      BY <1>4, <2>1, <3>2, <3>6 DEF KeyKnown
    <3>. QED  BY <3>3, <3>5, <3>6 DEF EndsOrMoves, Moves
  <2>. QED  BY <2>3, <2>4, <2>5, <2>6, WorkDoes
<1>. QED  BY <1>0, <1>2, <1>3, <1>4, SavedOrSame

LEMMA StepConfig ==
  BaseInv /\ TornInv /\ ValuesInv /\ SoloInv /\ ConfigInv /\ [HomeNext]_homeVars => ConfigInv'
<1>. SUFFICES ASSUME BaseInv, TornInv, ValuesInv, SoloInv, ConfigInv, [HomeNext]_homeVars,
                     kills' = 0, "config" \notin overlapped', NEW k \in Setups'
              PROVE  KeyKnown(k)'
  BY DEF ConfigInv, KeyKnown
<1>0. "config" \in Shared
  BY DEF Shared
<1>1. ASSUME NEW j \in Jobs, Work(j) PROVE KeyKnown(k)'
  <2>1. kills = 0 /\ overlapped \subseteq overlapped' /\ cmd' = cmd
    BY <1>1, WorkDoes DEF Frame, Passes, Loads, Saves
  <2>2. Solo("config") /\ k \in Setups
    BY <1>0, <2>1 DEF SoloInv, Setups
  <2>3. KeyKnown(k)
    BY <2>1, <2>2 DEF ConfigInv, KeyKnown
  <2>. QED  BY <1>1, <2>2, <2>3, WorkKeys
<1>2. ASSUME NEW j \in Jobs, NEW c \in CommandsOf[j], Start(j, c) PROVE KeyKnown(k)'
  <2>1. /\ \A i \in Jobs \ {j} : Same(i)
        /\ UNCHANGED <<files, kills, overlapped, view, step>> /\ result[j] = "waiting"
        /\ cmd'[j] = c
        /\ result'[j] = "running" <=> Program[c] # <<>>
    BY <1>2, StartDoes DEF BaseInv
  <2>2. CASE k = j
    <3>1. c = "setup" /\ step'[j] = 1 /\ result'[j] = "running"
      BY <2>1, <2>2, SomeAreNotEmpty DEF Setups, BaseInv, WaitsAtStart
    <3>. QED  BY <2>2, <3>1 DEF KeyKnown
  <2>3. CASE k # j
    <3>1. k \in Setups /\ Same(k)
      BY <2>1, <2>3 DEF Setups, Same
    <3>. QED  BY <2>1, <3>1 DEF Same, KeyKnown, ConfigInv, Running
  <2>. QED  BY <2>2, <2>3
<1>3. ASSUME NEW p, Kill(p) PROVE FALSE
  BY <1>3, KillDoes DEF BaseInv
<1>4. CASE UNCHANGED homeVars
  BY <1>4 DEF homeVars, ConfigInv, KeyKnown, Running, Setups
<1>5. CASE Expire
  <2>1. /\ UNCHANGED <<kills, overlapped>> /\ \A i \in Jobs : Same(i)
        /\ files'["config"] = files["config"]
    BY <1>5, ExpireDoes DEF BaseInv, Files
  <2>2. k \in Setups /\ Same(k)
    BY <2>1 DEF Setups, Same
  <2>. QED  BY <2>1, <2>2 DEF Same, KeyKnown, ConfigInv, Running
<1>. QED  BY <1>1, <1>2, <1>3, <1>4, <1>5 DEF HomeNext

-----------------------------------------------------------------------------
(* The balance.                                                            *)

Deductions == {j \in Jobs : Deducted(j)}

\* With one setup: an empty file has not paid, a balance tells the deductions,
\* and the proxy that is about to save knows the balance.
BalanceTold ==
  /\ files["wallet"] = {} => Deductions = {}
  /\ files["wallet"] # {} => files["wallet"] = {Initial - Price * Cardinality(Deductions)}
  /\ \A j \in Jobs : Running(j) /\ cmd[j] = "proxy" /\ step[j] = 3 => view[j]["wallet"] = files["wallet"]
  /\ \A j \in Setups : Running(j) /\ step[j] <= 4 => files["wallet"] = {}
  /\ files["wallet"] # {} => Setups # {}
OneSetup   == \A j, k \in Setups : j = k
WalletTold == kills = 0 /\ OneSetup => BalanceTold

\* A deduction is made by the save of a proxied request.
LEMMA DeductsBySaving ==
  ASSUME BaseInv, ValuesInv, NEW j \in Jobs, Work(j), cmd[j] = "proxy"
  PROVE  /\ Saves(j, "wallet") => ~Deducted(j) /\ Deducted(j)' /\ step[j] = 3 /\ step'[j] = 4
         /\ ~Saves(j, "wallet") => (Deducted(j)' <=> Deducted(j))
<1>1. /\ Frame(j) /\ Running(j) /\ cmd' = cmd
  BY WorkDoes DEF Frame
<1>2. ASSUME NEW o, NEW f, At(j, o, f)
      PROVE  /\ Placed("proxy", step[j], Len(Program[cmd[j]]), o, f) /\ step[j] \in 1 .. Len(Program[cmd[j]])
             /\ Len(Program[cmd[j]]) \in Nat
             /\ f = "wallet" /\ o = IF step[j] = 1 THEN "hold" ELSE IF step[j] = 2 THEN "read"
                                   ELSE IF step[j] = 3 THEN "replace" ELSE "drop"
  <2>1. /\ cmd[j] = "proxy" /\ step[j] \in 1 .. Len(Program[cmd[j]]) /\ Len(Program[cmd[j]]) \in Nat
        /\ Placed(cmd[j], step[j], Len(Program[cmd[j]]), o, f)
    BY <1>2, AtPlace DEF BaseInv
  <2>. QED  BY <2>1 DEF Placed
<1>3. Len(Program[cmd[j]]) = 4 /\ Program["proxy"][4] = Op("drop", "wallet")
  BY ProgramsAre DEF AtomicDeduct
<1>4. CASE \E f \in Files : Saves(j, f)
  <2>1. PICK f \in Files : Saves(j, f)
    BY <1>4
  <2>2. PICK o \in {"save", "ensure", "replace"} : At(j, o, f)
    BY <2>1 DEF Saves, Saving
  <2>3. f = "wallet" /\ step[j] = 3
    BY <1>2, <2>2
  <2>4. step'[j] = 4 /\ result'[j] = "running"
    BY <1>3, <2>1, <2>3 DEF Saves, EndsOrMoves, Moves
  <2>5. At(j, "drop", "wallet")'
    BY <1>1, <1>3, <2>4 DEF At, Running
  <2>6. ~At(j, "drop", "wallet") /\ result[j] # "ok"
    BY <1>1, <2>2, AtOnce DEF Running
  <2>. QED  BY <1>1, <2>1, <2>3, <2>4, <2>5, <2>6 DEF Deducted
<1>5. CASE Passes(j)
  <2>1. PICK o \in {"hold", "drop", "ensure", "present"}, f \in Files : At(j, o, f)
    BY <1>5 DEF Passes
  <2>2. CASE o = "drop"
    <3>1. Deducted(j)
      BY <1>2, <2>1, <2>2 DEF Deducted
    <3>2. result'[j] = "ok"
      BY <1>2, <1>5, <2>1, <2>2, AtOnce DEF Passes, Ends
    <3>3. ~Saves(j, "wallet")
      BY <2>1, <2>2, AtOnce DEF Saves, Saving
    <3>. QED  BY <1>1, <3>1, <3>2, <3>3 DEF Deducted
  <2>3. CASE o = "hold"
    <3>1. step[j] = 1
      BY <1>2, <2>1, <2>3
    <3>2. step'[j] = 2 /\ result'[j] = "running"
      BY <1>5, <2>1, <2>3, <3>1, AtOnce DEF Passes, Moves
    <3>3. ~At(j, "drop", "wallet")'
      BY <1>1, <3>2, ProgramsAre DEF At, AtomicDeduct, Op
    <3>4. ~At(j, "drop", "wallet") /\ result[j] # "ok" /\ ~Saves(j, "wallet")
      BY <1>1, <2>1, <2>3, AtOnce DEF Running, Saves, Saving
    <3>. QED  BY <3>2, <3>3, <3>4 DEF Deducted
  <2>. QED  BY <1>2, <2>1, <2>2, <2>3
<1>6. CASE \E f \in Files, o \in {"load", "read"} : At(j, o, f) /\ Loads(j, o, f)
  <2>1. PICK f \in Files, o \in {"load", "read"} : At(j, o, f) /\ Loads(j, o, f)
    BY <1>6
  <2>2. step[j] = 2
    BY <1>2, <2>1
  <2>3. result'[j] # "ok" /\ (result'[j] = "running" => step'[j] = 3)
    BY <1>1, <1>3, <2>1, <2>2 DEF Loads, Ends, Moves, StopsWith, Purges
  <2>4. ~At(j, "drop", "wallet")'
    BY <1>1, <2>3, ProgramsAre DEF At, AtomicDeduct, Op, Running
  <2>5. ~At(j, "drop", "wallet") /\ result[j] # "ok" /\ ~Saves(j, "wallet")
    BY <1>1, <2>1, AtOnce DEF Running, Saves, Saving
  <2>. QED  BY <2>3, <2>4, <2>5 DEF Deducted
<1>7. CASE /\ UNCHANGED <<files, step, view, result, overlapped>>
           /\ \E f \in Files : SavesWhole(j, f)
  <2>1. PICK f \in Files, o \in {"save", "ensure"} : At(j, o, f)
    BY <1>7 DEF SavesWhole
  <2>. QED  BY <1>2, <2>1
<1>. QED  BY <1>4, <1>5, <1>6, <1>7, WorkDoes

\* The proxied request has the wallet for itself.
LEMMA ProxyAlone ==
  ASSUME BaseInv, NEW j \in Jobs, Running(j), cmd[j] = "proxy", step[j] > 1
  PROVE  /\ \A k \in Jobs : Running(k) /\ cmd[k] = "proxy" /\ step[k] > 1 => k = j
         /\ ReadsWhole => "wallet" \notin torn
<1>1. Outer(j) \in locks
  BY DEF BaseInv, HoldsOuter
<1>2. \A k \in Jobs : Running(k) /\ cmd[k] = "proxy" /\ step[k] > 1 => k = j
  <2>. SUFFICES ASSUME NEW k \in Jobs, Running(k), cmd[k] = "proxy", step[k] > 1 PROVE k = j
    OBVIOUS
  <2>1. Outer(k) \in locks
    BY DEF BaseInv, HoldsOuter
  <2>. QED  BY <1>1, <2>1 DEF BaseInv, LocksOK, Outer, Lock
<1>3. ASSUME ReadsWhole, "wallet" \in torn PROVE FALSE
  <2>1. PICK k \in Jobs : phase[k] = "truncated" /\ SavesWhole(k, "wallet")
    BY <1>3 DEF ReadsWhole, TornHasWriter, Files
  <2>2. PICK o \in {"save", "ensure"} : At(k, o, "wallet")
    BY <2>1 DEF SavesWhole
  <2>3. Inner(k, "wallet") \in locks
    BY <2>1, <2>2, MidSave DEF Guarded
  <2>. QED  BY <1>1, <2>3 DEF BaseInv, LocksOK, Outer, Inner, Lock
<1>. QED  BY <1>2, <1>3

LEMMA OthersDeduct ==
  ASSUME NEW k, Same(k)
  PROVE  Deducted(k)' <=> Deducted(k)
BY OthersStay DEF Same, Deducted

\* The save of the one setup, and that of a proxied request.
LEMMA SavesBalance ==
  ASSUME BaseInv, ValuesInv, OneSetup, BalanceTold, NEW j \in Jobs, Work(j), Saves(j, "wallet")
  PROVE  BalanceTold'
<1>0. "wallet" \in Files
  BY DEF Files
<1>1. Frame(j) /\ Running(j) /\ cmd' = cmd
  BY WorkDoes DEF Frame
<1>2. /\ Setups' = Setups /\ \A k \in Jobs \ {j} : Same(k) /\ (Deducted(k)' <=> Deducted(k))
  BY <1>1, OthersDeduct DEF Setups, Frame
<1>3. files'["wallet"] = Change(j, "wallet")
  BY <1>0, SavesTheFile
<1>4. CASE cmd[j] = "setup" /\ step[j] = 4
  <2>1. files["wallet"] = {} /\ j \in Setups
    BY <1>1, <1>4 DEF BalanceTold, Setups
  <2>2. files'["wallet"] = {Initial}
    BY <1>3, <1>4 DEF Change
  <2>3. Deductions' = {}
    BY <1>1, <1>2, <1>4, <2>1 DEF BalanceTold, Deductions, Deducted
  <2>4. Initial - Price * Cardinality(Deductions') = Initial
    BY <2>3, FS_EmptySet, AmountAssumption
  <2>5. \A k \in Jobs : ~(Running(k) /\ cmd[k] = "proxy" /\ step[k] = 3)
    <3>. SUFFICES ASSUME NEW k \in Jobs, Running(k), cmd[k] = "proxy", step[k] = 3 PROVE FALSE
      OBVIOUS
    <3>1. view[k]["wallet"] # {}
      BY DEF ValuesInv, Prepared
    <3>. QED  BY <2>1, <3>1 DEF BalanceTold
  <2>6. \A k \in Jobs : ~(Running(k) /\ cmd[k] = "proxy" /\ step[k] = 3)'
    BY <1>1, <1>2, <1>4, <2>5 DEF Same, Running
  <2>7. step'[j] = 5 \/ ~Running(j)'
    BY <1>4 DEF Saves, EndsOrMoves, Ends, Moves, Running
  <2>8. \A k \in Setups' : ~(Running(k) /\ step[k] <= 4)'
    BY <1>2, <2>1, <2>7 DEF OneSetup
  <2>. QED  BY <1>2, <2>1, <2>2, <2>3, <2>4, <2>6, <2>8 DEF BalanceTold
<1>5. CASE cmd[j] = "proxy" /\ step[j] = 3
  <2>1. view[j]["wallet"] = files["wallet"] /\ view[j]["wallet"] # {} /\ The(view[j]["wallet"]) >= Price
    BY <1>1, <1>5 DEF BalanceTold, ValuesInv, Prepared
  <2>. DEFINE n == Cardinality(Deductions)
  <2>2. files["wallet"] = {Initial - Price * n}
    BY <2>1 DEF BalanceTold
  <2>3. The(files["wallet"]) = Initial - Price * n
    BY <2>2 DEF The
  <2>4. files'["wallet"] = {(Initial - Price * n) - Price}
    BY <1>3, <1>5, <2>1, <2>3 DEF Change
  <2>5. ~Deducted(j) /\ Deducted(j)' /\ step'[j] = 4
    BY <1>5, DeductsBySaving
  <2>6. Deductions' = Deductions \cup {j} /\ j \notin Deductions /\ Deductions \in SUBSET Jobs
    BY <1>2, <2>5 DEF Deductions
  <2>7. n \in Nat /\ Cardinality(Deductions') = n + 1
    BY <2>6, OneMore
  <2>8. (Initial - Price * n) - Price = Initial - Price * (n + 1)
    <3>. HIDE DEF n
    <3>. QED  BY <2>7, AmountAssumption
  <2>9. files'["wallet"] = {Initial - Price * Cardinality(Deductions')}
    BY <2>4, <2>7, <2>8
  <2>10. \A k \in Jobs : ~(Running(k) /\ cmd[k] = "proxy" /\ step[k] = 3)'
    BY <1>1, <1>2, <1>5, <2>5, ProxyAlone DEF Same, Running
  <2>11. \A k \in Setups' : ~(Running(k) /\ step[k] <= 4)'
    BY <1>1, <1>2, <1>5, <2>1 DEF BalanceTold, Setups, Same, Running
  <2>12. Setups' # {}
    BY <1>2, <2>1 DEF BalanceTold
  <2>. HIDE DEF n
  <2>. QED  BY <2>9, <2>10, <2>11, <2>12 DEF BalanceTold
<1>. QED  BY <1>4, <1>5, WhoSaves DEF Saves

LEMMA WorkBalance ==
  ASSUME BaseInv, ValuesInv, ReadsWhole, OneSetup, BalanceTold, NEW j \in Jobs, Work(j)
  PROVE  BalanceTold'
<1>0. "wallet" \in Files
  BY DEF Files
<1>1. Frame(j) /\ Running(j) /\ cmd' = cmd
  BY WorkDoes DEF Frame
<1>2. /\ Setups' = Setups /\ \A k \in Jobs \ {j} : Same(k) /\ (Deducted(k)' <=> Deducted(k))
  BY <1>1, OthersDeduct DEF Setups, Frame
<1>3. CASE Saves(j, "wallet")
  BY <1>3, SavesBalance
<1>4. CASE ~Saves(j, "wallet")
  <2>1. files'["wallet"] = files["wallet"]
    BY <1>0, <1>4, SavedOrSame
  <2>2. Deducted(j)' <=> Deducted(j)
    BY <1>1, <1>4, DeductsBySaving DEF Deducted
  <2>3. Deductions' = Deductions
    BY <1>2, <2>2 DEF Deductions
  <2>4. step'[j] = step[j] \/ step'[j] = step[j] + 1 
    BY WorkDoes DEF Passes, Loads, Saves, EndsOrMoves, Ends, Moves
  <2>5. \A k \in Setups' : (Running(k) /\ step[k] <= 4)' => files["wallet"] = {}
    BY <1>1, <1>2, <2>4 DEF BalanceTold, Setups, Same, Running, BaseInv, JobsOK
  <2>6. ASSUME Running(j)', cmd[j] = "proxy", step'[j] = 3
        PROVE  view'[j]["wallet"] = files["wallet"]
    <3>1. CASE step[j] = 3 /\ view' = view
      BY <1>1, <2>6, <3>1 DEF BalanceTold
    <3>2. ASSUME NEW f \in Files, NEW o \in {"load", "read"}, At(j, o, f), Loads(j, o, f)
          PROVE  view'[j]["wallet"] = files["wallet"]
      <4>1. o = "read" /\ f = "wallet" /\ step[j] = 2
        <5>1. Placed("proxy", step[j], Len(Program[cmd[j]]), o, f)
          BY <2>6, <3>2, AtPlace DEF BaseInv
        <5>. QED  BY <3>2, <5>1 DEF Placed
      <4>2. "wallet" \notin torn
        BY <1>1, <2>6, <4>1, ProxyAlone
      <4>3. Found("wallet") = files["wallet"]
        BY <1>0, <4>2 DEF Found, ValuesInv
      <4>4. view'[j]["wallet"] = Found("wallet")
        BY <2>6, <3>2, <4>1 DEF Loads, Ends, StopsWith, Running
      <4>. QED  BY <4>3, <4>4
    <3>3. CASE Passes(j) \/ \E f \in Files : Saves(j, f)
      <4>1. view' = view /\ step'[j] = step[j] + 1
        BY <2>6, <3>3 DEF Passes, Saves, EndsOrMoves, Ends, Moves, Running
      <4>2. PICK f \in Files, o \in {"hold", "drop", "ensure", "present", "save", "replace"} : At(j, o, f)
        BY <3>3 DEF Passes, Saves, Saving
      <4>3. Placed("proxy", step[j], Len(Program[cmd[j]]), o, f) /\ step[j] \in Nat
        BY <2>6, <4>2, AtPlace DEF BaseInv
      <4>4. step[j] = 2
        BY <2>6, <4>1, <4>3
      <4>. QED  BY <4>2, <4>3, <4>4 DEF Placed
    <3>. QED  BY <2>6, <3>1, <3>2, <3>3, WorkDoes
  <2>7. \A k \in Jobs : (Running(k) /\ cmd[k] = "proxy" /\ step[k] = 3)' => view'[k]["wallet"] = files["wallet"]
    BY <1>1, <1>2, <2>6 DEF BalanceTold, Same, Running
  <2>. QED  BY <1>2, <2>1, <2>3, <2>5, <2>7 DEF BalanceTold
<1>. QED  BY <1>3, <1>4

LEMMA StartBalance ==
  ASSUME BaseInv, OneSetup', BalanceTold, NEW j \in Jobs, NEW c \in CommandsOf[j], Start(j, c)
  PROVE  OneSetup /\ BalanceTold'
<1>1. /\ \A k \in Jobs \ {j} : Same(k)
      /\ UNCHANGED <<files, view, step>> /\ result[j] = "waiting"
      /\ cmd'[j] = c
      /\ result'[j] = "running" <=> Program[c] # <<>>
      /\ cmd[j] = "doctor" /\ step'[j] = 1
  BY StartDoes DEF BaseInv, WaitsAtStart
<1>2. Setups \subseteq Setups' /\ j \notin Setups
  BY <1>1 DEF Setups, Same
<1>3. ~Deducted(j) /\ ~Deducted(j)'
  <2>1. c = "proxy" => result'[j] = "running"
    BY <1>1, SomeAreNotEmpty
  <2>2. c = "proxy" => ~At(j, "drop", "wallet")'
    BY <1>1, ProgramsAre DEF At, AtomicDeduct, Op
  <2>. QED  BY <1>1, <2>1, <2>2 DEF Deducted
<1>4. Deductions' = Deductions
  BY <1>1, <1>3, OthersDeduct DEF Deductions
<1>5. \A k \in Jobs : (Running(k) /\ cmd[k] = "proxy" /\ step[k] = 3)' => view'[k]["wallet"] = files["wallet"]
  BY <1>1 DEF BalanceTold, Same, Running
<1>6. \A k \in Setups' : (Running(k) /\ step[k] <= 4)' => files["wallet"] = {}
  <2>1. j \in Setups' => files["wallet"] = {}
    BY <1>2 DEF BalanceTold, OneSetup
  <2>2. \A k \in Setups' \ {j} : (Running(k) /\ step[k] <= 4)' => files["wallet"] = {}
    BY <1>1 DEF BalanceTold, Same, Setups, Running
  <2>. QED  BY <2>1, <2>2
<1>. QED  BY <1>1, <1>2, <1>4, <1>5, <1>6 DEF BalanceTold, OneSetup

LEMMA StepWallet ==
  BaseInv /\ TornInv /\ ValuesInv /\ WalletTold /\ [HomeNext]_homeVars => WalletTold'
<1>. SUFFICES ASSUME BaseInv, TornInv, ValuesInv, WalletTold, [HomeNext]_homeVars, kills' = 0, OneSetup'
              PROVE  BalanceTold'
  BY DEF WalletTold
<1>1. ASSUME NEW j \in Jobs, Work(j) PROVE BalanceTold'
  <2>1. kills = 0 /\ Setups' = Setups
    BY <1>1, WorkDoes DEF Frame, Setups
  <2>2. OneSetup
    BY <2>1 DEF OneSetup
  <2>. QED  BY <1>1, <2>1, <2>2, WorkBalance DEF WalletTold, TornInv
<1>2. ASSUME NEW j \in Jobs, NEW c \in CommandsOf[j], Start(j, c) PROVE BalanceTold'
  <2>1. kills = 0 /\ OneSetup
    <3>1. cmd[j] = "doctor" /\ kills' = kills /\ \A k \in Jobs \ {j} : Same(k)
      BY <1>2, StartDoes DEF BaseInv, WaitsAtStart
    <3>. QED  BY <3>1 DEF OneSetup, Setups, Same
  <2>. QED  BY <1>2, <2>1, StartBalance DEF WalletTold
<1>3. ASSUME NEW p, Kill(p) PROVE FALSE
  BY <1>3, KillDoes DEF BaseInv
<1>4. CASE UNCHANGED homeVars
  <2>1. OneSetup /\ Deductions' = Deductions /\ Setups' = Setups
    BY <1>4 DEF homeVars, OneSetup, Setups, Deductions, Deducted, At, Running
  <2>. QED  BY <1>4, <2>1 DEF homeVars, WalletTold, BalanceTold, Running
<1>5. CASE Expire
  <2>1. /\ UNCHANGED <<kills, view>> /\ \A i \in Jobs : Same(i)
        /\ files'["wallet"] = files["wallet"]
    BY <1>5, ExpireDoes DEF BaseInv, Files
  <2>2. Deductions' = Deductions
    BY <2>1, OthersDeduct DEF Deductions
  <2>3. OneSetup /\ Setups' = Setups
    BY <2>1 DEF OneSetup, Setups, Same
  <2>. QED  BY <2>1, <2>2, <2>3 DEF WalletTold, BalanceTold, Same, Running, Setups
<1>. QED  BY <1>1, <1>2, <1>3, <1>4, <1>5 DEF HomeNext

-----------------------------------------------------------------------------
(* The calls in the credentials file.                                      *)

\* The calls of some credentials and of the others.
LEMMA CallsSplit ==
  ASSUME NEW C \in SUBSET Credential, IsFiniteSet(C), NEW U \in SUBSET C
  PROVE  CallsIn(C) = CallsIn(U) + CallsIn(C \ U)
<1>. DEFINE R == C \ U
            f == [x \in C |-> x.calls]
            g == [x \in U |-> x.calls]
            h == [x \in R |-> x.calls]
<1>1. \A x \in U \cup R : f[x] \in Int
  BY CallsAreNat
<1>2. (\A x \in U : f[x] = g[x]) /\ (\A x \in R : f[x] = h[x])
  OBVIOUS
<1>3. CallsIn(U) = SumFunctionOnSet(g, U) /\ CallsIn(R) = SumFunctionOnSet(h, R)
  BY DEF CallsIn
<1>4. CallsIn(C) = SumFunctionOnSet(f, C)
  BY DEF CallsIn
<1>5. IsFiniteSet(U) /\ IsFiniteSet(R) /\ U \cup R = C /\ U \cap R = {}
  BY FS_Subset
<1>. HIDE DEF R, f, g, h
<1>6. SumFunctionOnSet(f, U \cup R) = SumFunctionOnSet(f, U) + SumFunctionOnSet(f, R)
  BY <1>1, <1>5, SumUnion
<1>7. SumFunctionOnSet(f, U) = SumFunctionOnSet(g, U) /\ SumFunctionOnSet(f, R) = SumFunctionOnSet(h, R)
  BY <1>2, <1>5, SumSame
<1>8. CallsIn(C) = CallsIn(U) + CallsIn(R)
  BY <1>3, <1>4, <1>5, <1>6, <1>7
<1>. QED  BY <1>8 DEF R

LEMMA NoCalls ==
  ASSUME NEW C \in SUBSET Credential, IsFiniteSet(C), \A c \in C : c.calls = 0
  PROVE  CallsIn(C) = 0
<1>. DEFINE f == [x \in C |-> x.calls]
<1>1. \A x \in C : f[x] \in Nat /\ f[x] \in Int /\ f[x] <= 0
  OBVIOUS
<1>2. CallsIn(C) = SumFunctionOnSet(f, C)
  BY DEF CallsIn
<1>. HIDE DEF f
<1>3. SumFunctionOnSet(f, C) \in Nat
  BY <1>1, SumNat
<1>4. SumFunctionOnSet(f, C) <= 0 * Cardinality(C)
  BY <1>1, SumBound
<1>5. Cardinality(C) \in Nat
  BY FS_CardinalityType
<1>. QED  BY <1>2, <1>3, <1>4, <1>5

\* What a purge keeps and what it drops are all the calls there are.
LEMMA CallsOfUsable ==
  ASSUME NEW C \in SUBSET Credential, IsFiniteSet(C)
  PROVE  CallsIn(C) = CallsIn(Usable(C)) + CallsIn(OutOfDate(C))
<1>. DEFINE R == C \ Usable(C)
            Z == R \ OutOfDate(C)
<1>1. Usable(C) \in SUBSET C /\ OutOfDate(C) \in SUBSET R /\ R \in SUBSET C /\ Z \in SUBSET C
  BY DEF Usable, OutOfDate
<1>2. \A c \in Z : c.calls = 0
  BY CallsAreNat DEF Usable, OutOfDate, Credential
<1>. HIDE DEF R, Z
<1>3. IsFiniteSet(R) /\ IsFiniteSet(Z) /\ IsFiniteSet(OutOfDate(C)) /\ IsFiniteSet(Usable(C))
  BY <1>1, FS_Subset
<1>4. CallsIn(C) = CallsIn(Usable(C)) + CallsIn(R)
  BY <1>1, CallsSplit DEF R
<1>5. CallsIn(R) = CallsIn(OutOfDate(C)) + CallsIn(Z)
  BY <1>1, <1>3, CallsSplit DEF Z
<1>6. CallsIn(Z) = 0
  BY <1>1, <1>2, <1>3, NoCalls
<1>7. CallsIn(OutOfDate(C)) \in Nat
  BY <1>1, <1>3, CallsNumber
<1>. QED  BY <1>4, <1>5, <1>6, <1>7

\* A credential that is written over.
LEMMA CallsOfChanged ==
  ASSUME NEW C, NEW B, Purse(C, B), NEW c \in C, NEW d \in Credential, d.id = c.id
  PROVE  CallsIn((C \ {c}) \cup {d}) = CallsIn(C) + d.calls - c.calls
<1>1. C \in SUBSET Credential /\ IsFiniteSet(C) /\ c \in Credential
  BY DEF Purse
<1>2. d \notin C \ {c}
  BY DEF Purse
<1>3. IsFiniteSet(C \ {c}) /\ C \ {c} \in SUBSET Credential /\ (C \ {c}) \cup {c} = C
  BY <1>1, FS_RemoveElement
<1>4. CallsIn((C \ {c}) \cup {d}) = d.calls + CallsIn(C \ {c})
  BY <1>2, <1>3, CallsOfMore
<1>5. CallsIn(C) = c.calls + CallsIn(C \ {c})
  <2>1. CallsIn((C \ {c}) \cup {c}) = c.calls + CallsIn(C \ {c})
    <3>1. c \notin C \ {c}
      OBVIOUS
    <3>. QED  BY <1>1, <1>3, <3>1, CallsOfMore
  <2>. QED  BY <1>3, <2>1
<1>6. CallsIn(C \ {c}) \in Nat /\ c.calls \in Nat /\ d.calls \in Nat
  BY <1>1, <1>3, CallsNumber, CallsAreNat
<1>. QED  BY <1>4, <1>5, <1>6

\* A deduction takes one call.
LEMMA CallsOfDeducted ==
  ASSUME NEW C, NEW B, Purse(C, B), Usable(C) # {}, NEW a \in {"core", "skill"}
  PROVE  LET c == First(Usable(C)) IN
         CallsIn((C \ {c}) \cup {[c EXCEPT !.calls = @ - 1, !.by = a]}) = CallsIn(C) - 1
<1>. DEFINE c == First(Usable(C))
            d == [c EXCEPT !.calls = @ - 1, !.by = a]
<1>1. C \in SUBSET Credential /\ IsFiniteSet(C)
  BY DEF Purse
<1>2. c \in Usable(C)
  <2>1. Usable(C) \in SUBSET C
    BY DEF Usable
  <2>. QED  BY <1>1, <2>1, FS_Subset, OldestIsIn
<1>. HIDE DEF c
<1>3. c \in C /\ c \in Credential /\ c.calls > 0
  BY <1>1, <1>2 DEF Usable
<1>4. d \in Credential /\ d.id = c.id /\ d.calls = c.calls - 1 /\ c.calls \in Nat
  <2>1. c.calls \in Nat /\ c.calls - 1 \in 0 .. PackageCalls
    BY <1>3, AmountAssumption DEF Credential
  <2>2. d.id = c.id /\ d.calls = c.calls - 1
    BY <1>3 DEF Credential
  <2>3. d \in Credential
    BY <1>3, <2>1 DEF Credential
  <2>. QED  BY <2>1, <2>2, <2>3
<1>. HIDE DEF d
<1>5. CallsIn((C \ {c}) \cup {d}) = CallsIn(C) + d.calls - c.calls
  BY <1>3, <1>4, CallsOfChanged
<1>6. CallsIn(C) \in Nat
  BY <1>1, CallsNumber
<1>7. CallsIn((C \ {c}) \cup {d}) = CallsIn(C) - 1
  BY <1>4, <1>5, <1>6
<1>. QED  BY <1>7 DEF c, d

Purchases == {j \in Jobs : Credited(j)}
Uses  == {j \in Jobs : Used(j)}

\* The calls in the file and those that lapsed are those bought less those used.
CallsTold == CallsIn(files["credentials"]) + lapsed
               = PackageCalls * Cardinality(Purchases) - Cardinality(Uses)
CreditTold == kills = 0 /\ "credentials" \notin overlapped => CallsTold

LEMMA OthersCount ==
  ASSUME NEW k, Same(k)
  PROVE  (Credited(k)' <=> Credited(k)) /\ (Used(k)' <=> Used(k))
BY OthersStay DEF Same, Credited, Used

\* What a step of a credentials command makes of the counts.
LEMMA CreditSteps ==
  ASSUME BaseInv, ValuesInv, NEW j \in Jobs, Work(j), cmd[j] \in CreditCommands
  PROVE  /\ ~Saves(j, "credentials") => (Credited(j)' <=> Credited(j)) /\ (Used(j)' <=> Used(j))
         /\ Saves(j, "credentials") =>
              /\ ~Credited(j) /\ ~Used(j)
              /\ Credited(j)' <=> cmd[j] \in {"skill_add", "core_add"}
              /\ Used(j)' <=> cmd[j] \in {"skill_deduct", "core_deduct"}
<1>1. /\ Frame(j) /\ Running(j) /\ cmd' = cmd
  BY WorkDoes DEF Frame
<1>. DEFINE n == Len(Program[cmd[j]])
<1>2. ASSUME NEW o, NEW f, At(j, o, f)
      PROVE  /\ step[j] \in 1 .. n
             /\ f = "credentials" 
             /\ o = IF step[j] = 1 THEN "load" ELSE IF step[j] = 3 THEN "present"
                    ELSE IF cmd[j] \in {"core_add", "core_deduct", "core_purge"} THEN "replace" ELSE "save"
  <2>1. /\ step[j] \in 1 .. n /\ Placed(cmd[j], step[j], n, o, f)
    BY <1>2, AtPlace DEF BaseInv
  <2>. QED  BY <2>1 DEF Placed
<1>3. n = IF cmd[j] = "skill_deduct" THEN 3 ELSE 2
  <2>1. PICK o, f : At(j, o, f)
    BY WorkDoes DEF Passes, Saves, Saving
  <2>2. Placed(cmd[j], step[j], n, o, f)
    BY <2>1, AtPlace DEF BaseInv
  <2>. QED  BY <2>2 DEF Placed
<1>4. Program["skill_deduct"][3] = Op("present", "credentials")
  BY ProgramsAre DEF SkillDeduct
<1>5. ~Credited(j)
  BY <1>1 DEF Credited, Running
<1>6. Used(j) <=> cmd[j] = "skill_deduct" /\ At(j, "present", "credentials")
  BY <1>1 DEF Used, Running
<1>. HIDE DEF n
<1>7. CASE \E f \in Files : Saves(j, f)
  <2>1. PICK f \in Files : Saves(j, f)
    BY <1>7
  <2>2. PICK o \in {"save", "ensure", "replace"} : At(j, o, f)
    BY <2>1 DEF Saves, Saving
  <2>3. f = "credentials" /\ step[j] = 2 /\ ~At(j, "present", "credentials")
    <3>1. step[j] # 1 /\ step[j] # 3 /\ f = "credentials" /\ step[j] \in 1 .. n
      BY <1>2, <2>2
    <3>. QED  BY <1>3, <2>2, <3>1, AtOnce
  <2>4. IF cmd[j] = "skill_deduct" THEN result'[j] = "running" /\ step'[j] = 3 ELSE result'[j] = "ok"
    BY <1>3, <2>1, <2>3 DEF Saves, EndsOrMoves, Ends, Moves, n
  <2>5. cmd[j] = "skill_deduct" => At(j, "present", "credentials")'
    BY <1>1, <1>3, <1>4, <2>4 DEF At, Running, n
  <2>. QED  BY <1>1, <1>5, <1>6, <2>1, <2>3, <2>4, <2>5 DEF Credited, Used
<1>8. CASE Passes(j)
  <2>1. PICK o \in {"hold", "drop", "ensure", "present"}, f \in Files : At(j, o, f)
    BY <1>8 DEF Passes
  <2>2. o = "present" /\ f = "credentials" /\ step[j] = 3
    BY <1>2, <2>1
  <2>3. cmd[j] = "skill_deduct"
    BY <1>2, <1>3, <2>1, <2>2
  <2>4. result'[j] \in {"ok", "not_served"}
    BY <1>8, <2>1, <2>2, AtOnce DEF Passes, Ends
  <2>5. ~Saves(j, "credentials")
    BY <2>1, <2>2, AtOnce DEF Saves, Saving
  <2>. QED  BY <1>1, <1>5, <1>6, <2>1, <2>2, <2>3, <2>4, <2>5 DEF Credited, Used
<1>9. CASE \E f \in Files, o \in {"load", "read"} : At(j, o, f) /\ Loads(j, o, f)
  <2>1. PICK f \in Files, o \in {"load", "read"} : At(j, o, f) /\ Loads(j, o, f)
    BY <1>9
  <2>2. step[j] = 1 /\ f = "credentials" /\ ~At(j, "present", "credentials") /\ ~Saves(j, "credentials")
    BY <1>2, <2>1, AtOnce DEF Saves, Saving
  <2>3. /\ cmd[j] \notin {"skill_purge", "core_purge"} => result'[j] \notin {"ok", "not_served"}
        /\ result'[j] = "running" => step'[j] = 2
    BY <1>1, <1>3, <2>1, <2>2 DEF Loads, Ends, Moves, StopsWith, Purges, n
  <2>4. ~At(j, "present", "credentials")'
    <3>. SUFFICES ASSUME At(j, "present", "credentials")' PROVE FALSE
      OBVIOUS
    <3>1. step'[j] = 2 /\ Program[cmd[j]][2] = Op("present", "credentials")
      BY <1>1, <2>3 DEF At, Running
    <3>2. Placed(cmd[j], 2, n, "present", "credentials")
      BY <1>1, <1>3, <3>1, OpsArePlaced DEF Op, n, BaseInv, JobsOK
    <3>. QED  BY <3>2 DEF Placed
  <2>. QED  BY <1>1, <1>5, <1>6, <2>2, <2>3, <2>4 DEF Credited, Used
<1>10. CASE /\ UNCHANGED <<files, step, view, result, overlapped>>
            /\ \E f \in Files : /\ SavesWhole(j, f) /\ phase'[j] = "truncated"
  <2>1. ~Saves(j, "credentials")
    BY <1>10 DEF Saves
  <2>2. At(j, "present", "credentials")' <=> At(j, "present", "credentials")
    BY <1>1, <1>10 DEF At, Running
  <2>. QED  BY <1>1, <1>10, <2>1, <2>2 DEF Credited, Used
<1>. QED  BY <1>7, <1>8, <1>9, <1>10, WorkDoes

LEMMA SavesCalls ==
  ASSUME BaseInv, ValuesInv, Solo("credentials"), CallsTold, NEW j \in Jobs, Work(j), Saves(j, "credentials")
  PROVE  CallsTold'
<1>0. "credentials" \in Files
  BY DEF Files
<1>1. Frame(j) /\ cmd[j] \in CreditCommands
  BY WorkDoes, WhoSaves DEF Saves
<1>2. \A k \in Jobs \ {j} : (Credited(k)' <=> Credited(k)) /\ (Used(k)' <=> Used(k))
  BY <1>1, OthersCount DEF Frame
<1>3. /\ ~Credited(j) /\ ~Used(j)
      /\ Credited(j)' <=> cmd[j] \in {"skill_add", "core_add"}
      /\ Used(j)' <=> cmd[j] \in {"skill_deduct", "core_deduct"}
  BY <1>1, CreditSteps
<1>. DEFINE C == Credits(j)
            B == Cardinality(Purchases)
            S == Cardinality(Uses)
<1>4. /\ files'["credentials"] = Change(j, "credentials") /\ files["credentials"] = C
      /\ lapsed' = lapsed + Lapses(j, "credentials") /\ lapsed \in Nat
  BY <1>0, SavesTheFile DEF Credits, Saves, ValuesInv
<1>5. Purse(C, Holders) /\ Prepared(j) /\ Running(j) /\ step[j] = 2
  BY WhoSaves DEF ValuesInv, ContentsOK, Credits, Saves
<1>6. C \in SUBSET Credential /\ IsFiniteSet(C) /\ CallsIn(C) \in Nat
  BY <1>5, CallsNumber DEF Purse
<1>7. B \in Nat /\ S \in Nat
  <2>1. Purchases \in SUBSET Jobs /\ Uses \in SUBSET Jobs
    BY DEF Purchases, Uses
  <2>. QED  BY <2>1, JobsAssumption, FS_Subset, FS_CardinalityType
<1>8. CallsIn(C) + lapsed = PackageCalls * B - S
  BY <1>4 DEF CallsTold
<1>9. CASE cmd[j] \in {"skill_add", "core_add"}
  <2>. DEFINE c == [id |-> j, calls |-> PackageCalls, by |-> Author(j), live |-> TRUE,
                     no |-> Newest(C) + 1]
  <2>1. files'["credentials"] = C \cup {c}
    BY <1>4, <1>9 DEF Change
  <2>2. c \in Credential /\ c \notin C /\ c.calls = PackageCalls
    <3>1. j \notin Holders /\ Holders \in SUBSET Jobs
      BY <1>5 DEF Holders, Running
    <3>2. Newest(C) \in Nat
      BY <1>6, NewestIs DEF Credential
    <3>3. Author(j) \in {"core", "skill"} /\ PackageCalls \in 0 .. PackageCalls
      BY AmountAssumption DEF Author
    <3>. HIDE DEF C
    <3>4. c.id = j /\ c \in Credential
      BY <3>2, <3>3 DEF Credential
    <3>5. c \notin C
      BY <1>5, <3>1, <3>4 DEF Purse
    <3>. QED  BY <3>4, <3>5
  <2>3. Purchases' = Purchases \cup {j} /\ j \notin Purchases /\ Purchases \in SUBSET Jobs /\ Uses' = Uses
    BY <1>2, <1>3, <1>9 DEF Purchases, Uses
  <2>4. Cardinality(Purchases') = B + 1 /\ Cardinality(Uses') = S
    BY <2>3, OneMore
  <2>9. lapsed' = lapsed
    BY <1>4, <1>9 DEF Lapses, Purges
  <2>. HIDE DEF C, B, S, c
  <2>5. CallsIn(C \cup {c}) = PackageCalls + CallsIn(C)
    BY <1>6, <2>2, CallsOfMore
  <2>6. PackageCalls * (B + 1) = PackageCalls * B + PackageCalls
    BY <1>7, AmountAssumption
  <2>7. PackageCalls * B \in Nat
    BY <1>7, AmountAssumption
  <2>8. (PackageCalls + CallsIn(C)) + lapsed = (PackageCalls * B + PackageCalls) - S
    BY <1>4, <1>6, <1>7, <1>8, <2>7, AmountAssumption
  <2>. QED  BY <2>1, <2>4, <2>5, <2>6, <2>8, <2>9 DEF CallsTold
<1>10. CASE cmd[j] \in {"skill_deduct", "core_deduct"}
  <2>1. Usable(C) # {} /\ Author(j) \in {"core", "skill"}
    BY <1>5, <1>10 DEF Prepared, Author
  <2>. DEFINE c == First(Usable(C))
              D == (C \ {c}) \cup {[c EXCEPT !.calls = @ - 1, !.by = Author(j)]}
  <2>2. files'["credentials"] = D
    BY <1>4, <1>10 DEF Change
  <2>3. Uses' = Uses \cup {j} /\ j \notin Uses /\ Uses \in SUBSET Jobs /\ Purchases' = Purchases
    BY <1>2, <1>3, <1>10 DEF Purchases, Uses
  <2>4. Cardinality(Uses') = S + 1 /\ Cardinality(Purchases') = B
    BY <2>3, OneMore
  <2>5. CallsIn(D) = CallsIn(C) - 1
    <3>. HIDE DEF C
    <3>. QED  BY <1>5, <2>1, CallsOfDeducted
  <2>8. lapsed' = lapsed
    BY <1>4, <1>10 DEF Lapses, Purges
  <2>. HIDE DEF C, B, S, D
  <2>6. PackageCalls * B \in Nat
    BY <1>7, AmountAssumption
  <2>7. (CallsIn(C) - 1) + lapsed = PackageCalls * B - (S + 1)
    BY <1>4, <1>6, <1>7, <1>8, <2>6
  <2>. QED  BY <2>2, <2>4, <2>5, <2>7, <2>8 DEF CallsTold
<1>11. CASE cmd[j] \in {"skill_purge", "core_purge"}
  <2>1. files'["credentials"] = Usable(C)
    BY <1>4, <1>11 DEF Change
  <2>2. Purchases' = Purchases /\ Uses' = Uses
    BY <1>2, <1>3, <1>11 DEF Purchases, Uses
  <2>3. CallsIn(C) = CallsIn(Usable(C)) + CallsIn(OutOfDate(C)) 
    BY <1>6, CallsOfUsable
  <2>4. lapsed' = lapsed + CallsIn(OutOfDate(C))
    BY <1>4, <1>11 DEF Lapses, Purges
  <2>. HIDE DEF C
  <2>5. CallsIn(Usable(C)) \in Nat /\ CallsIn(OutOfDate(C)) \in Nat
    <3>1. Usable(C) \in SUBSET C /\ OutOfDate(C) \in SUBSET C
      BY DEF Usable, OutOfDate
    <3>. QED  BY <1>6, <3>1, FS_Subset, CallsNumber
  <2>6. CallsIn(Usable(C)) + (lapsed + CallsIn(OutOfDate(C))) = CallsIn(C) + lapsed
    BY <1>4, <2>3, <2>5
  <2>. QED  BY <1>8, <2>1, <2>2, <2>4, <2>6 DEF CallsTold
<1>. QED  BY <1>1, <1>9, <1>10, <1>11 DEF CreditCommands

LEMMA WorkCalls ==
  ASSUME BaseInv, ValuesInv, Solo("credentials"), CallsTold, NEW j \in Jobs, Work(j)
  PROVE  CallsTold'
<1>0. "credentials" \in Files
  BY DEF Files
<1>1. CASE Saves(j, "credentials")
  BY <1>1, SavesCalls
<1>2. CASE ~Saves(j, "credentials")
  <2>1. Frame(j) /\ cmd' = cmd
    BY WorkDoes DEF Frame
  <2>2. \A k \in Jobs \ {j} : (Credited(k)' <=> Credited(k)) /\ (Used(k)' <=> Used(k))
    BY <2>1, OthersCount DEF Frame
  <2>3. (Credited(j)' <=> Credited(j)) /\ (Used(j)' <=> Used(j))
    BY <1>2, <2>1, CreditSteps DEF CreditCommands, Credited, Used
  <2>4. Purchases' = Purchases /\ Uses' = Uses /\ files'["credentials"] = files["credentials"]
    BY <1>0, <1>2, <2>2, <2>3, SavedOrSame DEF Purchases, Uses
  <2>5. lapsed' = lapsed
    <3>1. lapsed' = lapsed \/ \E f \in Files \ {"credentials"} : lapsed' = lapsed + Lapses(j, f)
      BY <1>2, WorkDoes DEF Passes, Saves
    <3>2. \A f \in Files \ {"credentials"} : Lapses(j, f) = 0
      BY DEF Lapses
    <3>. QED  BY <3>1, <3>2 DEF ValuesInv
  <2>. QED  BY <2>4, <2>5 DEF CallsTold
<1>. QED  BY <1>1, <1>2

LEMMA StepCredit ==
  BaseInv /\ TornInv /\ ValuesInv /\ SoloInv /\ CreditTold /\ [HomeNext]_homeVars => CreditTold'
<1>. SUFFICES ASSUME BaseInv, TornInv, ValuesInv, SoloInv, CreditTold, [HomeNext]_homeVars,
                     kills' = 0, "credentials" \notin overlapped'
              PROVE  CallsTold'
  BY DEF CreditTold
<1>0. "credentials" \in Shared
  BY DEF Shared
<1>1. ASSUME NEW j \in Jobs, Work(j) PROVE CallsTold'
  <2>1. kills = 0 /\ overlapped \subseteq overlapped'
    BY <1>1, WorkDoes DEF Frame, Passes, Loads, Saves
  <2>2. Solo("credentials")
    BY <1>0, <2>1 DEF SoloInv
  <2>. QED  BY <1>1, <2>1, <2>2, WorkCalls DEF CreditTold
<1>2. ASSUME NEW j \in Jobs, NEW c \in CommandsOf[j], Start(j, c) PROVE CallsTold'
  <2>1. /\ \A k \in Jobs \ {j} : Same(k)
        /\ UNCHANGED <<files, kills, overlapped, step, lapsed>> /\ result[j] = "waiting"
        /\ cmd'[j] = c
        /\ result'[j] = "running" <=> Program[c] # <<>>
        /\ cmd[j] = "doctor" /\ step'[j] = 1 /\ c \in Commands
    BY <1>2, StartDoes DEF BaseInv, WaitsAtStart
  <2>2. ~Credited(j) /\ ~Used(j)
    BY <2>1 DEF Credited, Used
  <2>3. ~At(j, "present", "credentials")'
    <3>. SUFFICES ASSUME At(j, "present", "credentials")' PROVE FALSE
      OBVIOUS
    <3>1. Program[c][1].op = "present" /\ Program[c][1].file = "credentials" /\ 1 <= Len(Program[c])
      BY <2>1 DEF At, Op
    <3>2. Placed(c, 1, Len(Program[c]), "present", "credentials")
      BY <2>1, <3>1, OpsArePlaced
    <3>. QED  BY <3>2 DEF Placed
  <2>4. ~Credited(j)' /\ ~Used(j)'
    <3>1. c \in CreditCommands => result'[j] = "running"
      BY <2>1, SomeAreNotEmpty
    <3>. QED  BY <2>1, <2>3, <3>1 DEF Credited, Used, CreditCommands
  <2>5. Purchases' = Purchases /\ Uses' = Uses
    BY <2>1, <2>2, <2>4, OthersCount DEF Purchases, Uses
  <2>. QED  BY <2>1, <2>5 DEF CreditTold, CallsTold
<1>3. ASSUME NEW p, Kill(p) PROVE FALSE
  BY <1>3, KillDoes DEF BaseInv
<1>4. CASE UNCHANGED homeVars
  <2>1. Purchases' = Purchases /\ Uses' = Uses
    BY <1>4 DEF homeVars, Purchases, Uses, Credited, Used, At, Running
  <2>. QED  BY <1>4, <2>1 DEF homeVars, CreditTold, CallsTold
<1>5. CASE Expire
  <2>1. /\ UNCHANGED <<kills, overlapped, lapsed>> /\ \A i \in Jobs : Same(i)
    BY <1>5, ExpireDoes DEF BaseInv
  <2>2. Purchases' = Purchases /\ Uses' = Uses
    BY <2>1, OthersCount DEF Purchases, Uses
  <2>3. PICK c \in files["credentials"] :
          files'["credentials"] = (files["credentials"] \ {c}) \cup {[c EXCEPT !.live = FALSE]}
    BY <1>5, ExpireDoes DEF BaseInv
  <2>4. Purse(files["credentials"], Holders)
    BY DEF ValuesInv, ContentsOK
  <2>5. CallsIn(files'["credentials"]) = CallsIn(files["credentials"])
    <3>. DEFINE C == files["credentials"]
                d == [c EXCEPT !.live = FALSE]
    <3>1. d \in Credential /\ d.id = c.id /\ d.calls = c.calls
      BY <2>4, PurseExpires
    <3>2. CallsIn(C) \in Nat /\ c.calls \in Nat
      BY <2>4, CallsNumber, CallsAreNat DEF Purse
    <3>. HIDE DEF C, d
    <3>3. CallsIn((C \ {c}) \cup {d}) = CallsIn(C) + d.calls - c.calls
      BY <2>4, <3>1, CallsOfChanged DEF C
    <3>. QED  BY <2>3, <3>1, <3>2, <3>3 DEF C, d
  <2>. QED  BY <2>1, <2>2, <2>5 DEF CreditTold, CallsTold
<1>. QED  BY <1>1, <1>2, <1>3, <1>4, <1>5 DEF HomeNext

-----------------------------------------------------------------------------
(* All of it together.                                                     *)

HomeInv == /\ BaseInv /\ TornInv /\ ValuesInv /\ SoloInv
           /\ HistoryInv /\ ConfigInv /\ WalletTold /\ CreditTold

LEMMA InitHome == HomeInit => HomeInv
<1>. SUFFICES ASSUME HomeInit PROVE HomeInv
  OBVIOUS
<1>1. HistoryInv
  <2>1. files["history"] = {} /\ Records = {}
    BY DEF HomeInit, Records, Recorded, Files
  <2>2. Cardinality(Records) = 0
    BY <2>1, FS_EmptySet
  <2>3. {k \in 1 .. 0 : k > 0 - HistoryLimit} = {}
    OBVIOUS
  <2>. QED  BY <2>1, <2>2, <2>3 DEF HistoryInv, HistoryTold, Numbered
<1>2. ConfigInv
  BY DEF HomeInit, ConfigInv, KeyKnown, Setups, Running
<1>3. WalletTold
  <2>1. files["wallet"] = {} /\ \A j \in Jobs : ~Running(j) /\ result[j] # "ok"
    BY DEF HomeInit, Files, Running
  <2>2. Deductions = {}
    BY <2>1 DEF Deductions, Deducted, At
  <2>. QED  BY <2>1, <2>2 DEF WalletTold, BalanceTold
<1>4. CreditTold
  <2>1. \A j \in Jobs : ~Running(j) /\ result[j] \notin {"ok", "not_served"}
    BY DEF HomeInit, Running
  <2>2. Purchases = {} /\ Uses = {} /\ files["credentials"] = {}
    BY <2>1 DEF HomeInit, Purchases, Uses, Credited, Used, At, Files
  <2>3. CallsIn({}) = 0 /\ lapsed = 0
    BY SumEmpty DEF CallsIn, HomeInit
  <2>. QED  BY <2>2, <2>3, FS_EmptySet, AmountAssumption DEF CreditTold, CallsTold
<1>. QED  BY <1>1, <1>2, <1>3, <1>4, InitBase, InitTorn, InitValues, InitSolo DEF HomeInv

LEMMA StepHome == HomeInv /\ [HomeNext]_homeVars => HomeInv'
<1>. SUFFICES ASSUME HomeInv, [HomeNext]_homeVars PROVE HomeInv'
  OBVIOUS
<1>1. /\ BaseInv /\ TornInv /\ ValuesInv /\ SoloInv
      /\ HistoryInv /\ ConfigInv /\ WalletTold /\ CreditTold
  BY DEF HomeInv
<1>. QED  BY <1>1, StepBase, StepTorn, StepValues, StepSolo, StepHistory, StepConfig, StepWallet, StepCredit
          DEF HomeInv

\* The inductive invariant holds in every behaviour.
LEMMA SpecHome == HomeSpec => []HomeInv
BY InitHome, StepHome, PTL DEF HomeSpec

LEMMA AtMostOne ==
  ASSUME NEW S, IsFiniteSet(S), Cardinality(S) <= 1, NEW a \in S, NEW b \in S
  PROVE  a = b
<1>. SUFFICES ASSUME a # b PROVE FALSE
  OBVIOUS
<1>1. IsFiniteSet(S \ {a}) /\ Cardinality(S \ {a}) = Cardinality(S) - 1 /\ Cardinality(S) \in Nat
  BY FS_RemoveElement, FS_CardinalityType
<1>2. Cardinality(S \ {a}) \in Nat
  BY <1>1, FS_CardinalityType
<1>3. Cardinality(S \ {a}) = 0
  BY <1>1, <1>2
<1>4. S \ {a} = {}
  BY <1>1, <1>3, FS_EmptySet
<1>. QED  BY <1>4

LEMMA KeptFollows == HomeInv => FilesAreKept
<1>. SUFFICES ASSUME HomeInv PROVE FilesAreKept
  OBVIOUS
<1>1. HomeTypeOK
  BY TypesFollow DEF HomeInv
<1>2. DeductionsAreKept
  <2>. SUFFICES ASSUME Cardinality(Setups) <= 1, kills = 0, files["wallet"] # {}
                PROVE  files["wallet"] = {Initial - Price * Count(Deducted)}
    BY DEF DeductionsAreKept
  <2>1. Setups \in SUBSET Jobs
    BY DEF Setups
  <2>2. IsFiniteSet(Setups)
    BY <2>1, JobsAssumption, FS_Subset
  <2>3. OneSetup
    BY <2>2, AtMostOne DEF OneSetup
  <2>4. files["wallet"] = {Initial - Price * Cardinality(Deductions)}
    BY <2>3 DEF HomeInv, WalletTold, BalanceTold
  <2>. QED  BY <2>4 DEF Count, Deductions
<1>3. KeptUnlessOverlapped
  BY DEF HomeInv, HistoryInv, HistoryTold, Numbered, HistoryIsLast, Records, CreditTold, CallsTold,
         KeptUnlessOverlapped, Count, Purchases, Uses
<1>4. SetupsAgree
  BY DEF HomeInv, ConfigInv, KeyKnown, SetupsAgree
<1>. QED  BY <1>1, <1>2, <1>3, <1>4 DEF FilesAreKept

\* bridge.py:160-201, skill.py:255-276 and :416-440, client.py:102: the balance
\* tells every deduction, the history the last transactions up to its limit, the
\* credentials every call bought, used or purged with an expired package, and
\* setups agree on the key, unless two jobs overlapped on a file that no lock
\* keeps between load and save or one was killed.
THEOREM FilesAlwaysKept == HomeSpec => []FilesAreKept
BY SpecHome, KeptFollows, PTL

-----------------------------------------------------------------------------
(* Who waits for whom.                                                     *)

\* A lock of a save is held in the middle of it; a caller's own lock is on the
\* wallet, and a deposit or a payment holds it at its load of the wallet.
InPlace(j) == Running(j) => step[j] <= Len(Program[cmd[j]])
HoldsInPlace(l) ==
  IF l.handle = "inner" THEN phase[l.job] = "truncated" /\ At(l.job, "save", l.file)
  ELSE /\ l.file = "wallet"
       /\ IF cmd[l.job] = "proxy" THEN step[l.job] > 1
          ELSE cmd[l.job] \in {"deposit", "pay"} /\ step[l.job] = 3
PlacesInv ==
  /\ \A j \in Jobs : InPlace(j)
  /\ \A l \in locks : HoldsInPlace(l)

LEMMA OthersInPlace ==
  ASSUME NEW k, Same(k)
  PROVE  /\ InPlace(k) => InPlace(k)'
         /\ \A l : l.job = k /\ HoldsInPlace(l) => HoldsInPlace(l)'
BY OthersStay DEF Same, InPlace, HoldsInPlace

\* A step of one job keeps the invariant if it does so for this job.
LEMMA FramePlaces ==
  ASSUME BaseInv, PlacesInv, NEW j \in Jobs, Frame(j), InPlace(j)',
         \A l \in locks' : l.job = j => HoldsInPlace(l)',
         \A l \in locks' : l.job \in Jobs
  PROVE  PlacesInv'
<1>1. \A k \in Jobs \ {j} : InPlace(k)'
  BY OthersInPlace DEF PlacesInv, Frame
<1>2. ASSUME NEW l \in locks', l.job # j PROVE HoldsInPlace(l)'
  <2>1. l.job \in Jobs \ {j} /\ l \in locks
    BY <1>2 DEF Frame, LocksStay
  <2>. QED  BY <2>1, OthersInPlace DEF PlacesInv, Frame
<1>. QED  BY <1>1, <1>2 DEF PlacesInv

LEMMA PlacesEnd ==
  ASSUME BaseInv, PlacesInv, NEW j \in Jobs, Frame(j), NEW r, Ends(j, r), r # "running"
  PROVE  PlacesInv'
<1>1. InPlace(j)'
  BY DEF InPlace, Running, Ends
<1>2. \A l \in locks' : l.job # j /\ l.job \in Jobs
  BY DEF Ends, HeldBy, BaseInv, LocksOK
<1>. QED  BY <1>1, <1>2, FramePlaces

\* A job goes on with the locks of a caller only, and new ones at a hold.
LEMMA PlacesMove ==
  ASSUME BaseInv, PlacesInv, NEW j \in Jobs, Frame(j), NEW held, Moves(j, held),
         NEW o, NEW f, At(j, o, f),
         cmd[j] \in {"deposit", "pay"} => step[j] # 3,
         \A l \in held : l.job = j => l.handle = "outer",
         \A l \in held \ locks : o = "hold" /\ l = Outer(j)
  PROVE  PlacesInv'
<1>1. /\ step[j] \in Nat /\ step'[j] = step[j] + 1 /\ cmd' = cmd /\ locks' = held
      /\ step[j] < Len(Program[cmd[j]]) /\ Len(Program[cmd[j]]) \in Nat
      /\ Placed(cmd[j], step[j], Len(Program[cmd[j]]), o, f)
  BY AtPlace DEF Moves, Frame, BaseInv
<1>2. InPlace(j)'
  BY <1>1 DEF InPlace
<1>3. ASSUME NEW l \in locks', l.job = j PROVE HoldsInPlace(l)'
  <2>1. l.handle = "outer"
    BY <1>1, <1>3
  <2>2. CASE l \in locks
    <3>1. l.file = "wallet" /\ cmd[j] = "proxy" /\ step[j] > 1
      BY <1>3, <2>1, <2>2 DEF PlacesInv, HoldsInPlace
    <3>. QED  BY <1>1, <1>3, <2>1, <3>1 DEF HoldsInPlace
  <2>3. CASE l \notin locks
    <3>1. o = "hold" /\ l.file = "wallet"
      BY <1>1, <2>3 DEF Outer, Lock
    <3>2. cmd[j] \in {"deposit", "pay", "proxy"} /\ step[j] = (IF cmd[j] = "proxy" THEN 1 ELSE 2)
      BY <1>1, <3>1 DEF Placed
    <3>. QED  BY <1>1, <1>3, <2>1, <3>1, <3>2 DEF HoldsInPlace
  <2>. QED  BY <2>2, <2>3
<1>4. \A l \in locks' : l.job \in Jobs
  BY <1>1 DEF Outer, Lock, BaseInv, LocksOK
<1>. QED  BY <1>2, <1>3, <1>4, FramePlaces

LEMMA ReadyHoldsOuter ==
  ASSUME BaseInv, PlacesInv, NEW j \in Jobs, phase[j] = "ready"
  PROVE  \A l \in locks : l.job = j => l.handle = "outer"
BY DEF BaseInv, LocksOK, PlacesInv, HoldsInPlace

LEMMA WorkPlaces ==
  ASSUME BaseInv, PlacesInv, NEW j \in Jobs, Work(j)
  PROVE  PlacesInv'
<1>0. JobsOK /\ phase[j] \in {"ready", "truncated"}
  BY DEF BaseInv, JobsOK
<1>1. CASE Hold(j)
  <2>1. Frame(j) /\ At(j, "hold", "wallet") /\ Moves(j, locks \cup {Outer(j)})
    BY <1>0, <1>1, HoldDoes
  <2>2. phase[j] = "ready"
    BY <1>0, <2>1, MidSave
  <2>3. cmd[j] \in {"deposit", "pay"} => step[j] # 3
    BY <1>0, <2>1, AtPlace DEF Placed
  <2>4. Outer(j).handle = "outer"
    BY DEF Outer, Lock
  <2>. QED  BY <2>1, <2>2, <2>3, <2>4, ReadyHoldsOuter, PlacesMove
<1>2. CASE Drop(j)
  BY <1>0, <1>2, DropDoes, PlacesEnd
<1>3. CASE Load(j)
  <2>1. PICK f \in Files, o \in {"load", "read"} :
           At(j, o, f) /\ Shares(j, o, f) /\ Frame(j) /\ Loads(j, o, f)
    BY <1>0, <1>3, LoadDoes
  <2>2. CASE \E r \in {"raised", StopsWith(j), "ok"} : Ends(j, r)
    BY <2>1, <2>2, PlacesEnd DEF StopsWith
  <2>3. CASE Moves(j, locks) /\ ~Stops(j, f, Found(f))
    <3>1. cmd[j] \in {"deposit", "pay"} => step[j] # 3
      BY <2>1, <2>3, NoLoadUnderLock
    <3>2. phase[j] = "ready"
      BY <1>0, <2>1, MidSave
    <3>. QED  BY <2>1, <2>3, <3>1, <3>2, ReadyHoldsOuter, PlacesMove
  <2>. QED  BY <2>1, <2>2, <2>3 DEF Loads
<1>4. CASE Truncate(j)
  <2>1. PICK f \in Files :
           /\ SavesWhole(j, f) /\ phase[j] = "ready" /\ phase'[j] = "truncated"
           /\ locks' = IF f \in Guarded THEN locks \cup {Inner(j, f)} ELSE locks
           /\ Frame(j)
    BY <1>0, <1>4, TruncateDoes
  <2>2. cmd' = cmd /\ step' = step /\ result' = result
    BY <1>4 DEF Truncate
  <2>3. InPlace(j)'
    BY <2>2 DEF InPlace, Running, PlacesInv
  <2>4. f \in Guarded => At(j, "save", f)
    BY <1>0, <2>1, AtPlace DEF SavesWhole, Placed, Guarded
  <2>5. Inner(j, f).job = j /\ Inner(j, f).file = f /\ Inner(j, f).handle = "inner"
    BY DEF Inner, Lock
  <2>6. ASSUME NEW l \in locks', l.job = j PROVE HoldsInPlace(l)'
    <3>1. CASE l \in locks
      BY <2>1, <2>2, <2>6, <3>1, ReadyHoldsOuter DEF PlacesInv, HoldsInPlace
    <3>2. CASE l \notin locks
      BY <2>1, <2>2, <2>4, <2>5, <2>6, <3>2 DEF HoldsInPlace, At, Running
    <3>. QED  BY <3>1, <3>2
  <2>7. \A l \in locks' : l.job \in Jobs
    BY <2>1, <2>5 DEF BaseInv, LocksOK
  <2>. QED  BY <2>1, <2>3, <2>6, <2>7, FramePlaces
<1>5. CASE Write(j)
  <2>0. DEFINE held == {l \in locks : ~(l.job = j /\ l.handle = "inner")}
  <2>1. PICK f \in Files : /\ At(j, "save", f) \/ At(j, "ensure", f)
                           /\ Frame(j) /\ EndsOrMoves(j, held)
    BY <1>0, <1>5, WriteDoes
  <2>2. CASE Ends(j, "ok")
    BY <2>1, <2>2, PlacesEnd
  <2>3. CASE Moves(j, held)
    <3>1. PICK o \in {"save", "ensure"} : At(j, o, f)
      BY <2>1
    <3>2. cmd[j] \in {"deposit", "pay"} => step[j] # 3
      BY <1>0, <3>1, AtPlace DEF Placed
    <3>3. \A l \in held : l.job = j => l.handle = "outer"
      BY DEF BaseInv, LocksOK
    <3>. QED  BY <2>1, <2>3, <3>1, <3>2, <3>3, PlacesMove
  <2>. QED  BY <2>1, <2>2, <2>3 DEF EndsOrMoves
<1>6. CASE SkipEnsure(j)
  <2>1. At(j, "ensure", "config") /\ ~Missing(view[j]["config"]) /\ Frame(j) /\ Moves(j, locks)
    BY <1>0, <1>6, SkipEnsureDoes
  <2>2. phase[j] = "ready"
    BY <1>0, <2>1, MidSave
  <2>3. cmd[j] \in {"deposit", "pay"} => step[j] # 3
    BY <1>0, <2>1, AtPlace DEF Placed
  <2>. QED  BY <2>1, <2>2, <2>3, ReadyHoldsOuter, PlacesMove
<1>7. CASE Replace(j)
  <2>1. PICK f \in Files : At(j, "replace", f) /\ Frame(j) /\ EndsOrMoves(j, locks)
    BY <1>0, <1>7, ReplaceDoes
  <2>2. CASE Ends(j, "ok")
    BY <2>1, <2>2, PlacesEnd
  <2>3. CASE Moves(j, locks)
    <3>1. phase[j] = "ready"
      BY <1>0, <2>1, MidSave
    <3>2. cmd[j] \in {"deposit", "pay"} => step[j] # 3
      BY <1>0, <2>1, AtPlace DEF Placed
    <3>. QED  BY <2>1, <2>3, <3>1, <3>2, ReadyHoldsOuter, PlacesMove
  <2>. QED  BY <2>1, <2>2, <2>3 DEF EndsOrMoves
<1>8. CASE Present(j)
  BY <1>0, <1>8, PresentDoes, PlacesEnd
<1>. QED  BY <1>1, <1>2, <1>3, <1>4, <1>5, <1>6, <1>7, <1>8 DEF Work

LEMMA EmptyOrLonger == \A c \in Commands : Program[c] = <<>> \/ Len(Program[c]) >= 1
<1>. SUFFICES ASSUME NEW c \in Commands PROVE Program[c] = <<>> \/ Len(Program[c]) >= 1
  OBVIOUS
<1>1. CASE c \in {"status", "history", "doctor", "free_proxy", "lost_proxy"}
  BY <1>1, ProgramsAre DEF WalletStatus, WalletHistory, Doctor, FreeProxy, LostProxy
<1>2. CASE c \in {"deposit", "pay"}
  BY <1>2, ProgramsAre, DepositIs, PayIs
<1>3. CASE c \in {"setup", "blocked_pay", "proxy"}
  BY <1>3, ProgramsAre DEF Setup, BlockedPay, AddTransaction, AtomicDeduct
<1>4. CASE c \in CreditCommands
  BY <1>4, ProgramsAre DEF CreditCommands, SkillAdd, SkillDeduct, SkillPurge, CoreAdd, CoreDeduct, CorePurge
<1>. QED  BY <1>1, <1>2, <1>3, <1>4, CommandsAre DEF CreditCommands

LEMMA StartPlaces ==
  ASSUME BaseInv, PlacesInv, NEW j \in Jobs, NEW c \in CommandsOf[j], Start(j, c)
  PROVE  PlacesInv'
<1>1. /\ result[j] = "waiting" /\ cmd'[j] = c /\ c \in Commands
      /\ result'[j] = "running" <=> Program[c] # <<>>
      /\ \A k \in Jobs \ {j} : Same(k)
      /\ locks' = locks /\ step' = step
  BY StartDoes DEF BaseInv
<1>2. step[j] = 1 /\ ~Running(j)
  BY <1>1 DEF BaseInv, WaitsAtStart, Running
<1>3. InPlace(j)'
  BY <1>1, <1>2, EmptyOrLonger DEF InPlace, Running
<1>4. \A k \in Jobs \ {j} : InPlace(k)'
  BY <1>1, OthersInPlace DEF PlacesInv
<1>5. \A l \in locks : l.job \in Jobs \ {j} /\ HoldsInPlace(l)
  BY <1>2 DEF BaseInv, LocksOK, PlacesInv
<1>6. \A l \in locks' : HoldsInPlace(l)'
  BY <1>1, <1>5, OthersInPlace
<1>. QED  BY <1>3, <1>4, <1>6 DEF PlacesInv

LEMMA KillPlaces ==
  ASSUME BaseInv, PlacesInv, NEW p, Kill(p)
  PROVE  PlacesInv'
<1>1. /\ \A k \in Jobs : IF Process[k] = p /\ Running(k) THEN result'[k] = "killed" ELSE Same(k)
      /\ locks' = {l \in locks : ~(l.job \in Jobs /\ Process[l.job] = p /\ Running(l.job))}
  BY KillDoes DEF BaseInv
<1>2. \A j \in Jobs : InPlace(j)'
  BY <1>1, OthersInPlace DEF PlacesInv, InPlace, Running
<1>3. ASSUME NEW l \in locks' PROVE HoldsInPlace(l)'
  <2>1. l \in locks /\ l.job \in Jobs /\ Same(l.job) /\ HoldsInPlace(l)
    BY <1>1, <1>3 DEF BaseInv, LocksOK, PlacesInv
  <2>. QED  BY <2>1, OthersInPlace
<1>. QED  BY <1>2, <1>3 DEF PlacesInv

LEMMA InitPlaces == HomeInit => PlacesInv
BY DEF HomeInit, PlacesInv, InPlace, Running

LEMMA StepPlaces == BaseInv /\ PlacesInv /\ [HomeNext]_homeVars => PlacesInv'
<1>. SUFFICES ASSUME BaseInv, PlacesInv, [HomeNext]_homeVars PROVE PlacesInv'
  OBVIOUS
<1>1. CASE UNCHANGED homeVars
  BY <1>1 DEF homeVars, PlacesInv, InPlace, HoldsInPlace, At, Running
<1>2. CASE Expire
  <2>1. locks' = locks /\ \A k \in Jobs : Same(k)
    BY <1>2, ExpireDoes DEF BaseInv
  <2>. QED  BY <2>1, OthersInPlace DEF PlacesInv, BaseInv, LocksOK
<1>. QED  BY <1>1, <1>2, WorkPlaces, StartPlaces, KillPlaces DEF HomeNext

\* Who holds a lock can go on, or waits for the very lock it holds.
LEMMA HolderWorks ==
  ASSUME BaseInv, PlacesInv, NEW l \in locks
  PROVE  l.job \in Jobs /\ (CanWork(l.job) \/ Wedged)
<1>1. /\ l.job \in Jobs /\ l.file \in Files /\ l.handle \in {"outer", "inner"}
      /\ Running(l.job) /\ HoldsInPlace(l) /\ InPlace(l.job)
  BY DEF BaseInv, LocksOK, PlacesInv, Guarded, Files
<1>2. CASE l.handle = "inner"
  BY <1>1, <1>2 DEF HoldsInPlace, CanWork
<1>3. CASE l.handle = "outer"
  <2> DEFINE j == l.job
             o == Program[cmd[j]][step[j]].op
             f == Program[cmd[j]][step[j]].file
  <2>1. /\ l.file = "wallet"
        /\ \/ cmd[j] = "proxy" /\ step[j] > 1
           \/ cmd[j] \in {"deposit", "pay"} /\ step[j] = 3
    BY <1>1, <1>3 DEF HoldsInPlace
  <2>2. CASE cmd[j] = "proxy" /\ step[j] > 1
    <3>1. \E p \in {"read", "replace", "drop"} : At(j, p, "wallet")
      <4>1. step[j] \in Nat /\ step[j] <= Len(AtomicDeduct) /\ Program["proxy"] = AtomicDeduct
        BY <1>1, <2>2, ProgramsAre DEF InPlace, BaseInv, JobsOK
      <4>2. /\ Len(AtomicDeduct) = 4 /\ AtomicDeduct[2] = Op("read", "wallet")
            /\ AtomicDeduct[3] = Op("replace", "wallet") /\ AtomicDeduct[4] = Op("drop", "wallet")
        BY DEF AtomicDeduct
      <4>3. step[j] \in {2, 3, 4}
        BY <2>2, <4>1, <4>2
      <4>. QED  BY <1>1, <2>2, <4>1, <4>2, <4>3 DEF At
    <3>2. Shares(j, "read", "wallet")
      BY DEF Shares
    <3>. QED  BY <1>1, <3>1, <3>2 DEF CanWork, Files
  <2>3. CASE cmd[j] \in {"deposit", "pay"} /\ step[j] = 3
    <3>1. At(j, "load", "wallet")
      <4>1. Program[cmd[j]][3] = Op("load", "wallet")
        <5>1. WalletDeposit[3] = Op("load", "wallet")
          BY DepositIs
        <5>2. Pay[3] = Op("load", "wallet")
          BY PayIs
        <5>. QED  BY <2>3, <5>1, <5>2, ProgramsAre
      <4>2. step[j] <= Len(Program[cmd[j]])
        BY <1>1 DEF InPlace
      <4>. QED  BY <1>1, <2>3, <4>1, <4>2 DEF At
    <3>2. CASE "wallet" \in exists
      BY <1>1, <1>3, <2>1, <3>1, <3>2 DEF Wedged, HeldBy
    <3>3. CASE "wallet" \notin exists
      BY <1>1, <3>1, <3>3 DEF CanWork, Shares, Files
    <3>. QED  BY <3>2, <3>3
  <2>. QED  BY <2>1, <2>2, <2>3
<1>. QED  BY <1>1, <1>2, <1>3

Operations == {"load", "read", "save", "ensure", "hold", "drop", "replace", "present"}

LEMMA OpsAre ==
  \A c \in Commands : \A i \in 1 .. Len(Program[c]) :
    \E o \in Operations, f \in Files : Program[c][i] = Op(o, f)
<1>. SUFFICES ASSUME NEW c \in Commands, NEW i \in 1 .. Len(Program[c])
     PROVE  \E o \in Operations, f \in Files : Program[c][i] = Op(o, f)
  OBVIOUS
<1>. USE DEF Operations, Files
<1>1. CASE c = "setup"
  BY <1>1, ProgramsAre DEF Setup, AddTransaction
<1>2. CASE c \in {"status", "history", "doctor", "free_proxy", "lost_proxy"}
  BY <1>2, ProgramsAre DEF WalletStatus, WalletHistory, Doctor, FreeProxy, LostProxy
<1>3. CASE c = "deposit"
  BY <1>3, ProgramsAre, DepositIs
<1>4. CASE c = "pay"
  BY <1>4, ProgramsAre, PayIs
<1>5. CASE c = "blocked_pay"
  BY <1>5, ProgramsAre DEF BlockedPay, AddTransaction
<1>6. CASE c = "proxy"
  BY <1>6, ProgramsAre DEF AtomicDeduct
<1>7. CASE c \in {"skill_add", "skill_deduct", "skill_purge"}
  BY <1>7, ProgramsAre DEF SkillAdd, SkillDeduct, SkillPurge
<1>8. CASE c \in {"core_add", "core_deduct", "core_purge"}
  BY <1>8, ProgramsAre DEF CoreAdd, CoreDeduct, CorePurge
<1>. QED  BY <1>1, <1>2, <1>3, <1>4, <1>5, <1>6, <1>7, <1>8, CommandsAre

\* A running job waits for nothing but a lock that somebody holds.
LEMMA NoLockNoWait ==
  ASSUME BaseInv, PlacesInv, locks = {}, NEW j \in Jobs, Running(j)
  PROVE  CanWork(j)
<1>1. step[j] \in 1 .. Len(Program[cmd[j]]) /\ cmd[j] \in Commands
  BY OpsArePlaced DEF BaseInv, JobsOK, PlacesInv, InPlace
<1>2. PICK o \in Operations, f \in Files : Program[cmd[j]][step[j]] = Op(o, f)
  BY <1>1, OpsAre
<1>3. At(j, o, f) /\ Free(f, "exclusive") /\ Shares(j, o, f)
  BY <1>1, <1>2 DEF At, Free, Shares
<1>. QED  BY <1>3 DEF CanWork, Operations

\* skill.py:81-93 and bridge.py:199-201: whatever locks, overlaps and kills there
\* were, a running job leaves some job that can go on, but for a deposit or a
\* payment that waits for the lock it holds itself (skill.py:496 and :590).
THEOREM OnlyWedgesEverBlock == HomeSpec => []OnlyWedgesBlock
<1>1. BaseInv /\ PlacesInv => OnlyWedgesBlock
  <2>. SUFFICES ASSUME BaseInv, PlacesInv, NEW j \in Jobs, Running(j)
                PROVE  Wedged \/ \E k \in Jobs : CanWork(k)
    BY DEF OnlyWedgesBlock
  <2>1. CASE locks = {}
    BY <2>1, NoLockNoWait
  <2>2. CASE locks # {}
    BY <2>2, HolderWorks
  <2>. QED  BY <2>1, <2>2
<1>. QED  BY <1>1, InitBase, InitPlaces, StepBase, StepPlaces, PTL DEF HomeSpec
==============================================================================
