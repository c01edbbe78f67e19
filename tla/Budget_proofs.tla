--------------------------- MODULE Budget_proofs ---------------------------
(***************************************************************************)
(* For any number of processes and calls, any prices, limits and faults: a *)
(* process that pays through the middleware keeps its limits, all together *)
(* exceed the file's by no more than one payment for each process but one, *)
(* every charge and every old view has its reason, and a breaker of three  *)
(* failures or more holds for its cooldown.                                *)
(***************************************************************************)
EXTENDS Budget, SumTheorems

\* Who may have written a row that is not committed, and where it is now.
Writing(c, r) ==
  \/ r = Take(c) /\ pc[c] \in {"commit", "cancelled"}
  \/ r = Undo(c) /\ pc[c] \in {"commit_undo", "cancelled"}
  \/ r.kind = "top" /\ pc[c] \in {"commit_top", "cancelled"}

HasCause(p) == \E c \in Calls : Home[c] = p /\ pc[c] \in {"refused", "charged", "unrecorded"}

ConnInv(p) ==
  /\ IsFiniteSet(conn[p].dirty)
  /\ \A r \in conn[p].dirty : Home[r.call] = p /\ Writing(r.call, r)
  /\ conn[p].frozen # {} => \E S \in SUBSET ledger : conn[p].frozen = {S}
  /\ conn[p].tx /\ conn[p].dirty = {} => HasCause(p)
  /\ conn[p].frozen # {} => HasCause(p)

\* What the place of a call says of its rows.
Unpaid == {"idle", "deduct", "limit", "insert", "commit", "sync", "top", "commit_top",
           "denied", "refused", "unrecorded"} \cup CheckSteps
RowInv(c) ==
  /\ pc[c] \in Unpaid \/ (pc[c] = "pay" /\ entry[c] = "cli_production") => Take(c) \notin ledger
  /\ pc[c] \in {"answer", "undo", "commit_undo", "done", "charged"}
       \/ (pc[c] = "pay" /\ entry[c] # "cli_production") => Take(c) \in ledger
  /\ pc[c] = "failed" => c \notin Confirmed(ledger)
  /\ Undo(c) \in ledger => pc[c] \in {"failed", "cancelled"}
  /\ pc[c] = "commit" => Take(c) \in conn[Home[c]].dirty
  /\ pc[c] = "commit_undo" => Undo(c) \in conn[Home[c]].dirty
  /\ pc[c] = "commit_top" => conn[Home[c]].dirty # {}
  /\ pc[c] \in {"sync", "top", "commit_top"} => entry[c] = "cli_production"

\* The wallet's lock is held by one call of a process, the payment lock by one
\* call of the middleware.
HoldsWallet(c)  == pc[c] \in DeductSteps \cup {"commit_undo", "commit_top"}
HoldsPayment(c) == entry[c] = "middleware"
                   /\ pc[c] \in CheckSteps \cup {"deduct"} \cup DeductSteps
LocksExclude ==
  \A c, d \in Calls : c # d /\ Home[c] = Home[d] =>
    /\ ~(HoldsWallet(c) /\ HoldsWallet(d))
    /\ ~(HoldsPayment(c) /\ HoldsPayment(d))

\* The deductions of the middleware's calls in a view.
Seen(p)    == ledger \cup conn[p].dirty
Mids(p, S) == {c \in Confirmed(S) : Home[c] = p /\ entry[c] = "middleware"}

\* Limits among calls whose deductions have these time stamps.
Window(stamp, C, t) == {d \in C : stamp[d] \in (t - Minute)..t}
DayOf(stamp, C, d)  == {c \in C : stamp[c] \div Day = d}
KeepsLimits(stamp, C) ==
  \A c \in C : /\ Cost(Window(stamp, C, stamp[c])) <= MinuteLimit
               /\ Cardinality(Window(stamp, C, stamp[c])) <= MinuteCount
               /\ Cost(DayOf(stamp, C, stamp[c] \div Day)) <= DailyLimit

\* What a call has tested stays so until it inserts, unless its view is old and
\* it will be refused.
Past(c, places) == HoldsPayment(c) /\ pc[c] \notin places /\ pc[c] # "commit"
Checked(c) ==
  ~Outdated(Home[c]) =>
    LET M == Mids(Home[c], Seen(Home[c]))
    IN /\ Past(c, {"spend"}) => Cost(Window(at, M, now)) + Amount[c] <= MinuteLimit
       /\ Past(c, {"spend", "count"}) => Cardinality(Window(at, M, now)) + 1 <= MinuteCount
       /\ Past(c, {"spend", "count", "daily"}) =>
            Cost(DayOf(at, M, now \div Day)) + Amount[c] <= DailyLimit

\* Deductions that passed the balance test and may still be committed: of calls
\* whose process has the current view and no row that nobody will commit.
StrayIn(S) == \E r \in S : pc[r.call] = "cancelled"
Clean(p)   == ~Outdated(p) /\ ~StrayIn(conn[p].dirty)
Approved   == {c \in Calls : pc[c] \in DeductSteps /\ Clean(Home[c])}
Limited    == {c \in Approved : pc[c] # "limit"}
DayNow(c)  == IF pc[c] = "insert" THEN now \div Day ELSE at[c] \div Day
Counted(d) == DayOf(at, Confirmed(ledger), d) \cup {c \in Limited : DayNow(c) = d}

Slack == (Cardinality(Procs) - 1) * MostExpensive

BalanceKept == Cost(Confirmed(ledger) \cup Approved) <= Deposits(ledger) + Slack
DaysKept    == \A d \in 0..(now \div Day) : Cost(Counted(d)) <= DailyLimit + Slack
LimitedFit  == \A c \in Limited : Amount[c] <= DailyLimit
Overspend   == ~StrayIn(ledger) => BalanceKept /\ DaysKept /\ LimitedFit

IInv ==
  /\ TypeOK
  /\ entry \in [Calls -> Entries]
  /\ IsFiniteSet(ledger)
  /\ \A p \in Procs : ConnInv(p)
  /\ \A c \in Calls : RowInv(c) /\ Checked(c)
  /\ LocksExclude
  /\ \A p \in Procs : KeepsLimits(at, Mids(p, ledger)) /\ KeepsLimits(at, Mids(p, Seen(p)))
  /\ Overspend

-----------------------------------------------------------------------------
(* Amounts.                                                                *)

LEMMA CostNat ==
  ASSUME NEW C \in SUBSET Calls
  PROVE  IsFiniteSet(C) /\ Cost(C) \in Nat /\ Cardinality(C) \in Nat
<1>1. IsFiniteSet(C)
  BY CallsAssumption, FS_Subset
<1>2. \A c \in C : Amount[c] \in Nat
  BY CallsAssumption
<1>. QED  BY <1>1, <1>2, SumNat, FS_CardinalityType DEF Cost

LEMMA CostSubset ==
  ASSUME NEW C \in SUBSET Calls, NEW D \in SUBSET C
  PROVE  Cost(D) <= Cost(C) /\ Cardinality(D) <= Cardinality(C)
<1>1. \A c \in C : Amount[c] \in Nat
  BY CallsAssumption
<1>. QED  BY <1>1, CostNat, SumSubset, FS_Subset DEF Cost

LEMMA CostAdd ==
  ASSUME NEW C \in SUBSET Calls, NEW c \in Calls
  PROVE  /\ Cost(C \cup {c}) <= Cost(C) + Amount[c]
         /\ Cardinality(C \cup {c}) <= Cardinality(C) + 1
<1>1. IsFiniteSet(C) /\ Cost(C) \in Nat /\ Cardinality(C) \in Nat /\ Amount[c] \in Nat
  BY CostNat, CallsAssumption
<1>2. Cardinality(C \cup {c}) <= Cardinality(C) + 1
  <2>1. Cardinality(C \cup {c}) = IF c \in C THEN Cardinality(C) ELSE Cardinality(C) + 1
    BY <1>1, FS_AddElement
  <2>. QED  BY <1>1, <2>1
<1>3. CASE c \in C
  <2>1. Cost(C \cup {c}) = Cost(C)
    <3>1. C \cup {c} = C
      BY <1>3
    <3>. QED  BY <3>1
  <2>. QED  BY <1>1, <1>2, <2>1
<1>4. CASE c \notin C
  <2>1. \A d \in C \cup {c} : Amount[d] \in Int
    BY CallsAssumption
  <2>2. Cost(C \cup {c}) = Amount[c] + Cost(C)
    BY <1>1, <1>4, <2>1, SumAdd DEF Cost
  <2>. QED  BY <1>1, <1>2, <2>2
<1>. QED  BY <1>3, <1>4

LEMMA CostUnion ==
  ASSUME NEW C \in SUBSET Calls, NEW D \in SUBSET Calls
  PROVE  Cost(C \cup D) <= Cost(C) + Cost(D)
<1>. DEFINE E == D \ C
<1>1. E \in SUBSET D /\ E \in SUBSET Calls /\ C \cup E = C \cup D /\ C \cap E = {}
  OBVIOUS
<1>2. \A c \in C \cup E : Amount[c] \in Int
  BY CallsAssumption
<1>3. /\ IsFiniteSet(C) /\ IsFiniteSet(E) /\ Cost(C) \in Nat
      /\ Cost(D) \in Nat /\ Cost(E) \in Nat
  BY <1>1, CostNat
<1>4. Cost(E) <= Cost(D)
  BY <1>1, CostSubset
<1>. HIDE DEF E
<1>5. Cost(C \cup E) = Cost(C) + Cost(E)
  BY <1>1, <1>2, <1>3, SumUnion DEF Cost
<1>6. Cost(C \cup D) = Cost(C \cup E)
  BY <1>1
<1>. QED  BY <1>3, <1>4, <1>5, <1>6

\* No call costs more than the most expensive.
LEMMA MostExpensiveIsMost ==
  /\ MostExpensive \in Nat /\ \A c \in Calls : Amount[c] <= MostExpensive
  /\ Calls = {} => MostExpensive = 0
<1>. DEFINE S == {0} \cup {Amount[c] : c \in Calls}
            N == {0 - x : x \in S}
<1>1. IsFiniteSet(S)
  <2>. DEFINE T == {Amount[c] : c \in Calls}
  <2>1. Amount \in Surjection(Calls, T)
    BY CallsAssumption DEF Surjection
  <2>2. IsFiniteSet(T)
    <3>. HIDE DEF T
    <3>. QED  BY <2>1, CallsAssumption, FS_Surjection
  <2>3. IsFiniteSet({0})
    BY FS_Singleton
  <2>. HIDE DEF T
  <2>4. IsFiniteSet({0} \cup T)
    BY <2>2, <2>3, FS_Union
  <2>. QED  BY <2>4 DEF T
<1>2. S \subseteq Nat /\ 0 \in S
  BY CallsAssumption
<1>3. IsFiniteSet(N) /\ N # {} /\ \A x \in N : x \in Int
  <2>1. IsFiniteSet(N)
    <3>. DEFINE neg == [x \in S |-> 0 - x]
    <3>1. neg \in Surjection(S, N)
      <4>. HIDE DEF S
      <4>. QED  BY DEF Surjection
    <3>. HIDE DEF S, N, neg
    <3>. QED  BY <1>1, <3>1, FS_Surjection
  <2>. QED  BY <1>2, <2>1
<1>4. PICK x \in N : \A y \in N : x <= y
  <2>. HIDE DEF N
  <2>. QED  BY <1>3, LeastElement
<1>5. PICK m \in S : x = 0 - m
  OBVIOUS
<1>6. \A n \in S : m >= n
  <2>1. ASSUME NEW n \in S PROVE m >= n
    <3>1. 0 - n \in N
      OBVIOUS
    <3>2. x <= 0 - n
      BY <1>4, <3>1
    <3>3. m \in Nat /\ n \in Nat
      BY <1>2
    <3>. QED  BY <1>5, <3>2, <3>3
  <2>. QED  BY <2>1
<1>7. MostExpensive \in S /\ \A n \in S : MostExpensive >= n
  <2>1. \E z \in S : \A n \in S : z >= n
    BY <1>6
  <2>2. MostExpensive = CHOOSE z \in S : \A n \in S : z >= n
    BY DEF MostExpensive, Max
  <2>. HIDE DEF S
  <2>. QED  BY <2>1, <2>2
<1>8. ASSUME NEW c \in Calls PROVE Amount[c] <= MostExpensive
  <2>1. Amount[c] \in S /\ Amount[c] \in Nat
    BY CallsAssumption
  <2>. HIDE DEF S
  <2>. QED  BY <1>2, <1>7, <2>1
<1>9. ASSUME Calls = {} PROVE MostExpensive = 0
  BY <1>7, <1>9
<1>. QED  BY <1>2, <1>7, <1>8, <1>9

\* Calls of different processes, none of them p's, cost no more than the slack.
LEMMA CostOfOthers ==
  ASSUME NEW p \in Procs, NEW C \in SUBSET Calls,
         \A c \in C : Home[c] # p,
         \A c, d \in C : Home[c] = Home[d] => c = d
  PROVE  Cost(C) <= Slack
<1>. DEFINE Q == Procs \ {p}
            f == [c \in C |-> Home[c]]
<1>1. IsFiniteSet(Q) /\ Cardinality(Q) = Cardinality(Procs) - 1 /\ Cardinality(Procs) \in Nat
  BY CallsAssumption, FS_RemoveElement, FS_CardinalityType
<1>2. f \in Injection(C, Q)
  <2>1. \A c \in C : Home[c] \in Q
    BY CallsAssumption
  <2>2. f \in [C -> Q]
    BY <2>1
  <2>3. DOMAIN f = C /\ \A c, d \in C : f[c] = f[d] => c = d
    OBVIOUS
  <2>. HIDE DEF f, Q
  <2>. QED  BY <2>2, <2>3 DEF Injection, IsInjective
<1>3. Cardinality(C) <= Cardinality(Q)
  <2>. HIDE DEF Q, f
  <2>. QED  BY <1>1, <1>2, FS_Injection
<1>4. IsFiniteSet(C) /\ Cost(C) \in Nat /\ Cardinality(C) \in Nat
  BY CostNat
<1>5. \A c \in C : Amount[c] \in Int /\ Amount[c] <= MostExpensive
  BY CallsAssumption, MostExpensiveIsMost
<1>6. Cost(C) <= MostExpensive * Cardinality(C)
  BY <1>4, <1>5, MostExpensiveIsMost, SumBound DEF Cost
<1>7. Cardinality(Q) \in Nat
  BY <1>1, FS_CardinalityType
<1>. HIDE DEF Q
<1>8. /\ MostExpensive * Cardinality(C) <= MostExpensive * Cardinality(Q)
      /\ MostExpensive * Cardinality(C) \in Nat /\ MostExpensive * Cardinality(Q) \in Nat
      /\ MostExpensive * Cardinality(Q) = Cardinality(Q) * MostExpensive
  BY <1>3, <1>4, <1>7, MostExpensiveIsMost
<1>. QED  BY <1>1, <1>4, <1>6, <1>8 DEF Slack

LEMMA SlackNat == Slack \in Nat
<1>1. CASE Procs # {}
  <2>1. Cardinality(Procs) \in Nat /\ Cardinality(Procs) # 0
    BY <1>1, CallsAssumption, FS_EmptySet, FS_CardinalityType
  <2>2. Cardinality(Procs) - 1 \in Nat
    BY <2>1
  <2>. QED  BY <2>2, MostExpensiveIsMost DEF Slack
<1>2. CASE Procs = {}
  <2>1. MostExpensive = 0
    BY <1>2, CallsAssumption, MostExpensiveIsMost
  <2>2. Cardinality(Procs) = 0
    BY <1>2, FS_EmptySet
  <2>. QED  BY <2>1, <2>2 DEF Slack
<1>. QED  BY <1>1, <1>2

\* One call that was tested and others that were not add to what was there.
LEMMA OneJoins ==
  ASSUME NEW B \in SUBSET Calls, NEW O \in SUBSET Calls, NEW c \in Calls, NEW bound \in Int,
         \A d \in O : Home[d] # Home[c],
         \A d, e \in O : Home[d] = Home[e] => d = e,
         Cost(B) + Amount[c] <= bound
  PROVE  \A D \in SUBSET (B \cup O \cup {c}) : Cost(D) <= bound + Slack
<1>1. Home[c] \in Procs
  BY CallsAssumption
<1>2. Cost(O) <= Slack
  BY <1>1, CostOfOthers
<1>3. B \cup {c} \in SUBSET Calls /\ (B \cup {c}) \cup O \in SUBSET Calls
  OBVIOUS
<1>4. Cost(B \cup {c}) <= Cost(B) + Amount[c] /\ Cost((B \cup {c}) \cup O) <= Cost(B \cup {c}) + Cost(O)
  BY <1>3, CostAdd, CostUnion
<1>5. /\ Cost(B) \in Nat /\ Cost(O) \in Nat /\ Cost(B \cup {c}) \in Nat /\ Amount[c] \in Nat
      /\ Cost((B \cup {c}) \cup O) \in Nat
  BY <1>3, CostNat, CallsAssumption
<1>6. ASSUME NEW D \in SUBSET (B \cup O \cup {c}) PROVE Cost(D) <= bound + Slack
  <2>1. D \in SUBSET ((B \cup {c}) \cup O) /\ D \in SUBSET Calls
    OBVIOUS
  <2>2. Cost(D) <= Cost((B \cup {c}) \cup O) /\ Cost(D) \in Nat
    BY <1>3, <2>1, CostSubset, CostNat
  <2>. QED  BY <1>2, <1>4, <1>5, <2>2, SlackNat
<1>. QED  BY <1>6

-----------------------------------------------------------------------------
(* Days.                                                                   *)

LEMMA TimesDay ==
  ASSUME NEW x \in Nat, NEW y \in Nat, x < y
  PROVE  x * Day + Day <= y * Day /\ x * Day \in Nat /\ y * Day \in Nat
<1>1. PICK k \in Nat : y = x + 1 + k
  <2>1. y - x - 1 \in Nat /\ y = x + 1 + (y - x - 1)
    OBVIOUS
  <2>. QED  BY <2>1
<1>2. y * Day = x * Day + Day + k * Day
  BY <1>1, ClockAssumption
<1>3. k * Day \in Nat /\ x * Day \in Nat
  BY ClockAssumption
<1>. QED  BY <1>2, <1>3, ClockAssumption

LEMMA DayBounds ==
  ASSUME NEW t \in Nat
  PROVE  /\ t \div Day \in Nat
         /\ (t \div Day) * Day <= t /\ t < (t \div Day) * Day + Day
  BY ClockAssumption

LEMMA DayMonotone ==
  ASSUME NEW s \in Nat, NEW t \in Nat, s <= t
  PROVE  s \div Day <= t \div Day
<1>1. ASSUME t \div Day < s \div Day PROVE FALSE
  BY <1>1, DayBounds, TimesDay, ClockAssumption
<1>. QED  BY <1>1, DayBounds

\* A time stamp is of today exactly if it is not before today's first tick.
LEMMA TodayStarts ==
  ASSUME NEW s \in Nat, NEW t \in Nat, s <= t
  PROVE  s >= (t \div Day) * Day <=> s \div Day = t \div Day
<1>1. ASSUME s \div Day < t \div Day PROVE s < (t \div Day) * Day
  BY <1>1, DayBounds, TimesDay, ClockAssumption
<1>2. s \div Day <= t \div Day
  BY DayMonotone
<1>3. s \div Day = t \div Day => s >= (t \div Day) * Day
  BY DayBounds
<1>. QED  BY <1>1, <1>2, <1>3, DayBounds, ClockAssumption

-----------------------------------------------------------------------------
(* Views.                                                                  *)

LEMMA DepositsGrow ==
  ASSUME NEW S \in SUBSET Rows, IsFiniteSet(S), NEW T \in SUBSET S
  PROVE  Deposits(T) \in Nat /\ Deposits(S) \in Nat /\ Deposits(T) <= Deposits(S)
<1>. DEFINE f == [r \in Tops(S) |-> r.amount]
            g == [r \in Tops(T) |-> r.amount]
<1>1. Tops(T) \in SUBSET Tops(S) /\ Tops(S) \in SUBSET S
  BY DEF Tops
<1>2. IsFiniteSet(Tops(S)) /\ IsFiniteSet(Tops(T))
  BY <1>1, FS_Subset
<1>3. \A r \in Tops(S) : f[r] \in Nat
  BY DEF Tops, Rows
<1>4. \A r \in Tops(T) : f[r] = g[r] /\ f[r] \in Nat /\ g[r] \in Nat
  BY <1>1 DEF Tops, Rows
<1>5. Funds \in Nat
  BY LimitsAssumption
<1>6. Deposits(S) = Funds + SumFunctionOnSet(f, Tops(S))
      /\ Deposits(T) = Funds + SumFunctionOnSet(g, Tops(T))
  BY DEF Deposits
<1>. HIDE DEF f, g
<1>7. SumFunctionOnSet(f, Tops(T)) <= SumFunctionOnSet(f, Tops(S))
  BY <1>1, <1>2, <1>3, SumSubset
<1>8. SumFunctionOnSet(f, Tops(T)) = SumFunctionOnSet(g, Tops(T))
  BY <1>2, <1>4, SumSame
<1>9. SumFunctionOnSet(f, Tops(S)) \in Nat /\ SumFunctionOnSet(g, Tops(T)) \in Nat
  BY <1>2, <1>3, <1>4, SumNat
<1>. QED  BY <1>5, <1>6, <1>7, <1>8, <1>9

LEMMA RowsAreRows ==
  \A c \in Calls : /\ Take(c) \in Rows /\ Undo(c) \in Rows
                   /\ \A n \in Nat : Top(c, n) \in Rows
                   /\ \A d \in Calls : /\ Take(c) = Take(d) => c = d
                                       /\ Undo(c) = Undo(d) => c = d
                                       /\ Take(c) # Undo(d)
  BY CallsAssumption DEF Take, Undo, Top, Rows

ConnType == [tx : BOOLEAN, frozen : SUBSET SUBSET Rows, dirty : SUBSET Rows]

\* What a process reads is the ledger and its own rows, or an old ledger.
LEMMA ViewIs ==
  ASSUME TypeOK, IsFiniteSet(ledger), NEW p \in Procs, ConnInv(p)
  PROVE  /\ View(p) \in SUBSET Rows /\ IsFiniteSet(View(p))
         /\ ~Outdated(p) => View(p) = Seen(p)
         /\ conn[p].dirty = {} => View(p) \in SUBSET ledger
         /\ conn[p].dirty = {} /\ Outdated(p) => conn[p].frozen = {View(p)}
<1>1. conn[p] \in ConnType /\ ledger \in SUBSET Rows
  BY DEF TypeOK, ConnType
<1>2. IsFiniteSet(Seen(p)) /\ Seen(p) \in SUBSET Rows
  <2>1. IsFiniteSet(conn[p].dirty) /\ conn[p].dirty \in SUBSET Rows
    BY <1>1 DEF ConnInv, ConnType
  <2>. QED  BY <1>1, <2>1, FS_Union DEF Seen
<1>3. CASE conn[p].frozen # {} /\ conn[p].dirty = {}
  <2>1. PICK S \in SUBSET ledger : conn[p].frozen = {S}
    BY <1>3 DEF ConnInv
  <2>2. View(p) = S
    BY <1>3, <2>1 DEF View
  <2>3. IsFiniteSet(S)
    BY FS_Subset
  <2>4. ~Outdated(p) => S = ledger
    BY <1>3, <2>1 DEF Outdated
  <2>. QED  BY <1>1, <1>3, <2>1, <2>2, <2>3, <2>4 DEF Seen
<1>4. CASE ~(conn[p].frozen # {} /\ conn[p].dirty = {})
  <2>1. View(p) = Seen(p)
    BY <1>4 DEF View, Seen
  <2>. QED  BY <1>2, <1>4, <2>1 DEF Seen, Outdated
<1>. QED  BY <1>3, <1>4

\* Reading and being refused: the rows stay, and an old view stays old.
Looked(p) ==
  /\ conn' \in [Procs -> ConnType]
  /\ \A q \in Procs : conn'[q].dirty = conn[q].dirty
  /\ \A q \in Procs : conn'[q].frozen \notin {{}, {ledger}} <=> Outdated(q)
  /\ \A q \in Procs : conn[q].tx => conn'[q].tx
  /\ \A q \in Procs : conn'[q].frozen # {} =>
       HasCause(q) /\ \E S \in SUBSET ledger : conn'[q].frozen = {S}
  /\ \A q \in Procs \ {p} : conn'[q] = conn[q]

LEMMA LookAgain ==
  ASSUME TypeOK, \A q \in Procs : ConnInv(q), IsFiniteSet(ledger), NEW p \in Procs,
         \/ conn' = conn
         \/ /\ conn[p].tx /\ conn[p].dirty = {}
            /\ conn' = [conn EXCEPT ![p].frozen = {View(p)}]
         \/ conn[p].dirty = {} /\ conn' = [conn EXCEPT ![p].tx = TRUE]
  PROVE  Looked(p)
<1>1. conn \in [Procs -> ConnType]
  BY DEF TypeOK, ConnType
<1>2. View(p) \in SUBSET Rows
  BY ViewIs
<1>3. conn' \in [Procs -> ConnType] /\ \A q \in Procs \ {p} : conn'[q] = conn[q]
  <2>1. [conn[p] EXCEPT !.frozen = {View(p)}] \in ConnType
        /\ [conn[p] EXCEPT !.tx = TRUE] \in ConnType
    BY <1>1, <1>2 DEF ConnType
  <2>. QED  BY <1>1, <2>1
<1>4. conn'[p].dirty = conn[p].dirty /\ (conn[p].tx => conn'[p].tx)
  BY <1>1 DEF ConnType
<1>5. \/ conn'[p].frozen = conn[p].frozen
      \/ conn[p].tx /\ conn[p].dirty = {} /\ conn'[p].frozen = {View(p)}
  BY <1>1 DEF ConnType
<1>6. /\ conn'[p].frozen \notin {{}, {ledger}} <=> Outdated(p)
      /\ conn'[p].frozen # {} =>
           HasCause(p) /\ \E S \in SUBSET ledger : conn'[p].frozen = {S}
  <2>1. CASE conn'[p].frozen = conn[p].frozen
    BY <2>1 DEF Outdated, ConnInv
  <2>2. CASE conn[p].tx /\ conn[p].dirty = {} /\ conn'[p].frozen = {View(p)}
    <3>1. HasCause(p)
      BY <2>2 DEF ConnInv
    <3>2. /\ ~Outdated(p) => View(p) = Seen(p)
          /\ View(p) \in SUBSET ledger
          /\ Outdated(p) => conn[p].frozen = {View(p)}
      BY <2>2, ViewIs
    <3>3. Seen(p) = ledger
      BY <2>2 DEF Seen
    <3>. QED  BY <2>2, <3>1, <3>2, <3>3 DEF Outdated
  <2>. QED  BY <1>5, <2>1, <2>2
<1>7. \A q \in Procs \ {p} :
        /\ conn'[q].frozen \notin {{}, {ledger}} <=> Outdated(q)
        /\ conn'[q].frozen # {} =>
             HasCause(q) /\ \E S \in SUBSET ledger : conn'[q].frozen = {S}
  BY <1>3 DEF Outdated, ConnInv
<1>. QED  BY <1>3, <1>4, <1>6, <1>7 DEF Looked

-----------------------------------------------------------------------------
(* What a step does, by the rows it writes and not by its name.            *)

Moved(c) == pc' = [pc EXCEPT ![c] = pc'[c]]

\* Nothing is written: a call reads, is refused, or pays.
SilentMove(c) ==
  \/ /\ pc[c] = "idle" /\ entry[c] = "middleware" /\ PaymentLockFree(c)
     /\ pc'[c] \in {"denied", "spend"}
  \/ pc[c] = "idle" /\ entry[c] = "cli_test" /\ pc'[c] = "deduct"
  \/ pc[c] = "idle" /\ entry[c] = "cli_production" /\ pc'[c] = "pay"
  \/ /\ pc[c] = "spend" /\ pc'[c] \in {"count", "denied"}
     /\ pc'[c] = "count" => CalcMinuteSpend(View(Proc(c))) + Amount[c] <= MinuteLimit
  \/ /\ pc[c] = "count" /\ pc'[c] \in {"daily", "denied"}
     /\ pc'[c] = "daily" => CalcMinuteCount(View(Proc(c))) + 1 <= MinuteCount
  \/ /\ pc[c] = "daily" /\ pc'[c] \in {"balance", "denied"}
     /\ pc'[c] = "balance" => CalcDailySpend(View(Proc(c))) + Amount[c] <= DailyLimit
  \/ pc[c] = "balance" /\ pc'[c] \in {"deduct", "denied"}
  \/ /\ pc[c] = "deduct" /\ WalletLockFree(c) /\ pc'[c] \in {"limit", "refused", "unrecorded"}
     /\ pc'[c] = "limit" => CalcBalance(View(Proc(c))) >= Amount[c]
  \/ /\ pc[c] = "limit" /\ pc'[c] \in {"insert", "refused", "unrecorded"}
     /\ pc'[c] = "insert" => CalcDailySpend(View(Proc(c))) + Amount[c] <= DailyLimit
  \/ pc[c] = "insert" /\ pc'[c] \in {"refused", "unrecorded"}
  \/ pc[c] = "pay" /\ entry[c] # "cli_production" /\ pc'[c] \in {"done", "answer", "undo"}
  \/ pc[c] = "pay" /\ entry[c] = "cli_production" /\ pc'[c] \in {"sync", "failed"}
  \/ pc[c] = "answer" /\ pc'[c] \in {"done", "undo"}
  \/ pc[c] = "undo" /\ pc'[c] = "charged"
  \/ pc[c] = "sync" /\ pc'[c] \in {"top", "deduct"}
  \/ pc[c] = "top" /\ pc'[c] = "unrecorded"

Silent(c) ==
  /\ SilentMove(c) /\ Moved(c) /\ UNCHANGED <<ledger, at, now>>
  /\ Looked(Home[c])
  /\ \/ conn'[Home[c]].tx = conn[Home[c]].tx
     \/ pc'[c] \in {"refused", "charged", "unrecorded"}

\* A row is written under the wallet's lock.
Wrote(c) ==
  /\ Moved(c) /\ UNCHANGED <<ledger, now>>
  /\ \/ /\ pc[c] = "insert" /\ pc'[c] = "commit"
        /\ Write(Home[c], Take(c)) /\ at' = [at EXCEPT ![c] = now]
     \/ /\ pc[c] = "undo" /\ pc'[c] = "commit_undo" /\ WalletLockFree(c)
        /\ Write(Home[c], Undo(c)) /\ at' = at
     \/ /\ pc[c] = "top" /\ pc'[c] = "commit_top" /\ WalletLockFree(c)
        /\ Write(Home[c], Top(c, short[c] + 1)) /\ at' = at

\* The connection's rows are committed.
Committed(c) ==
  /\ Moved(c) /\ UNCHANGED <<at, now>> /\ CommitRows(Home[c])
  /\ \/ pc[c] = "commit" /\ entry[c] = "cli_production" /\ pc'[c] = "done"
     \/ pc[c] = "commit" /\ entry[c] # "cli_production" /\ pc'[c] = "pay"
     \/ pc[c] = "commit_undo" /\ pc'[c] = "failed"
     \/ pc[c] = "commit_top" /\ pc'[c] = "deduct"

\* A call's coroutine or its process dies, or only time and reports go on.
Cancelled(c) == pc[c] \notin Ends \cup {"idle"} /\ pc' = [pc EXCEPT ![c] = "cancelled"]
                /\ UNCHANGED <<ledger, conn, at, now>>
Restarted(p) ==
  /\ conn' = [conn EXCEPT ![p] = Closed]
  /\ pc' = [c \in Calls |-> IF Home[c] = p /\ pc[c] \notin Ends \cup {"idle"}
                            THEN "killed" ELSE pc[c]]
  /\ UNCHANGED <<ledger, at, now>>
Passed == UNCHANGED <<ledger, conn, pc, at>> /\ now' \in {now, now + 1}

LEMMA EntryNames ==
  Entries = {"middleware", "cli_test", "cli_production"}
  BY DEF Entries

LEMMA ReadEffect ==
  ASSUME IInv, NEW p \in Procs, Read(p)
  PROVE  Looked(p) /\ conn'[p].tx = conn[p].tx
<1>1. conn \in [Procs -> ConnType]
  BY DEF IInv, TypeOK, ConnType
<1>2. Looked(p)
  BY LookAgain DEF IInv, Read
<1>. QED  BY <1>1, <1>2 DEF Read, ConnType

LEMMA CallEffect ==
  ASSUME IInv, NEW c \in Calls, CallStep(c)
  PROVE  Silent(c) \/ Wrote(c) \/ Committed(c)
<1>. DEFINE p == Home[c]
<1>1. /\ p \in Procs /\ entry[c] \in Entries /\ conn \in [Procs -> ConnType]
      /\ pc \in [Calls -> CheckSteps \cup DeductSteps \cup OtherSteps \cup Ends]
  BY CallsAssumption DEF IInv, TypeOK, ConnType
<1>2. ASSUME conn' = conn PROVE Looked(p) /\ conn'[p].tx = conn[p].tx
  BY <1>1, <1>2, LookAgain DEF IInv
<1>3. ASSUME WriteRefused(p) \/ ReadThenRefused(p) PROVE Looked(p)
  <2>1. conn[p].dirty = {}
    BY <1>1, <1>3 DEF IInv, TypeOK, WriteRefused, ReadThenRefused
  <2>. QED  BY <1>1, <1>3, <2>1, LookAgain DEF IInv, WriteRefused, ReadThenRefused
<1>4. CASE StartGuarded(c) \/ StartCli(c)
  BY <1>1, <1>2, <1>4
     DEF StartGuarded, StartCli, Started, Goto, Moved, Silent, SilentMove, Entries
<1>5. CASE CheckSpend(c) \/ CheckCount(c) \/ CheckDaily(c) \/ CheckBalance(c)
  <2>1. Read(p)
    BY <1>5 DEF CheckSpend, CheckCount, CheckDaily, CheckBalance, Check, Proc
  <2>2. Looked(p) /\ conn'[p].tx = conn[p].tx
    BY <1>1, <2>1, ReadEffect
  <2>. QED  BY <1>1, <1>5, <2>2
            DEF CheckSpend, CheckCount, CheckDaily, CheckBalance, Check, Unmoved, Goto, Moved,
                Silent, SilentMove
<1>6. CASE DeductBalance(c)
  <2>1. Looked(p) /\ conn'[p].tx = conn[p].tx
    BY <1>1, <1>6, ReadEffect DEF DeductBalance, Check, Proc
  <2>. QED  BY <1>1, <1>6, <2>1
            DEF DeductBalance, Check, Unmoved, Goto, Moved, Refused, Silent, SilentMove
<1>7. CASE DeductLimit(c)
  <2>1. Looked(p) /\ conn'[p].tx = conn[p].tx
    BY <1>1, <1>7, ReadEffect DEF DeductLimit, Proc
  <2>. QED  BY <1>1, <1>7, <2>1
            DEF DeductLimit, Unmoved, Goto, Moved, Refused, Silent, SilentMove
<1>8. CASE Insert(c)
  BY <1>1, <1>3, <1>8 DEF Insert, Goto, Moved, Refused, Proc, Silent, SilentMove, Wrote
<1>9. CASE CommitDeduct(c) \/ CommitUndo(c) \/ CommitTop(c)
  BY <1>1, <1>9 DEF CommitDeduct, CommitUndo, CommitTop, Commit, Goto, Moved, Proc, Committed
<1>10. CASE PayOk(c) \/ PayFailed(c) \/ Answered(c)
  BY <1>1, <1>2, <1>10
     DEF PayOk, PayFailed, Answered, Unmoved, Goto, Moved, Silent, SilentMove, Entries
<1>11. CASE UndoDeduct(c) \/ InsertTop(c)
  BY <1>1, <1>3, <1>11
     DEF UndoDeduct, InsertTop, Unmoved, Goto, Moved, Proc, Silent, SilentMove, Wrote
<1>12. CASE SyncBalance(c)
  <2>1. Looked(p) /\ conn'[p].tx = conn[p].tx
    BY <1>1, <1>12, ReadEffect DEF SyncBalance, Proc
  <2>. QED  BY <1>1, <1>12, <2>1 DEF SyncBalance, Goto, Moved, Silent, SilentMove
<1>. QED  BY <1>4, <1>5, <1>6, <1>7, <1>8, <1>9, <1>10, <1>11, <1>12 DEF CallStep

LEMMA StepEffect ==
  ASSUME IInv, [Next]_vars
  PROVE  /\ entry' = entry
         /\ \/ \E c \in Calls : Silent(c) \/ Wrote(c) \/ Committed(c) \/ Cancelled(c)
            \/ \E p \in Procs : Restarted(p)
            \/ Passed
<1>1. ASSUME NEW c \in Calls, Cancel(c) PROVE Cancelled(c)
  BY <1>1 DEF Cancel, Cancelled, Goto
<1>2. ASSUME NEW p \in Procs, InitDb(p) PROVE Restarted(p)
  BY <1>2 DEF InitDb, Restarted
<1>3. ASSUME NEW p \in Procs, RecordFailure(p) \/ RecordSuccess(p) \/ Reset(p) PROVE Passed
  BY <1>3 DEF RecordFailure, RecordSuccess, Reset, Forgiven, Passed
<1>4. ASSUME Tick \/ UNCHANGED vars PROVE Passed
  BY <1>4 DEF Tick, vars, Passed
<1>5. entry' = entry
  BY DEF Next, vars
<1>. QED  BY <1>1, <1>2, <1>3, <1>4, <1>5, CallEffect DEF Next

-----------------------------------------------------------------------------
(* Types, locks and connections.                                           *)

\* The row that a call writes.
Writes(c, r) ==
  \/ pc[c] = "insert" /\ pc'[c] = "commit" /\ r = Take(c) /\ at' = [at EXCEPT ![c] = now]
  \/ pc[c] = "undo" /\ pc'[c] = "commit_undo" /\ r = Undo(c) /\ at' = at /\ WalletLockFree(c)
  \/ pc[c] = "top" /\ pc'[c] = "commit_top" /\ r.kind = "top" /\ r.call = c /\ at' = at
     /\ WalletLockFree(c)

LEMMA WroteRow ==
  ASSUME IInv, NEW c \in Calls, Wrote(c)
  PROVE  /\ \E r \in Rows : Writes(c, r) /\ conn'[Home[c]].dirty = conn[Home[c]].dirty \cup {r}
         /\ conn' \in [Procs -> ConnType]
         /\ conn'[Home[c]].tx /\ conn'[Home[c]].frozen = conn[Home[c]].frozen
         /\ \A q \in Procs \ {Home[c]} : conn'[q] = conn[q] /\ conn[q].dirty = {}
         /\ ~Outdated(Home[c])
<1>. DEFINE p == Home[c]
<1>1. p \in Procs /\ conn \in [Procs -> ConnType] /\ short[c] + 1 \in Nat
  BY CallsAssumption DEF IInv, TypeOK, ConnType
<1>2. PICK r : Write(p, r) /\ r \in Rows /\ Writes(c, r)
  <2>1. Top(c, short[c] + 1) \in Rows /\ Take(c) \in Rows /\ Undo(c) \in Rows
    BY <1>1, RowsAreRows
  <2>2. Top(c, short[c] + 1).kind = "top" /\ Top(c, short[c] + 1).call = c
    BY DEF Top
  <2>. QED  BY <2>1, <2>2 DEF Wrote, Writes
<1>3. /\ ~Outdated(p) /\ \A q \in Procs \ {p} : conn[q].dirty = {}
      /\ conn' = [conn EXCEPT ![p].tx = TRUE, ![p].dirty = @ \cup {r}]
  BY <1>2 DEF Write, Locked
<1>4. conn' = [conn EXCEPT ![p] = [[conn[p] EXCEPT !.tx = TRUE] EXCEPT !.dirty = @ \cup {r}]]
  BY <1>1, <1>3
<1>5. conn[p] \in ConnType
  BY <1>1
<1>6. /\ [[conn[p] EXCEPT !.tx = TRUE] EXCEPT !.dirty = @ \cup {r}] \in ConnType
      /\ [[conn[p] EXCEPT !.tx = TRUE] EXCEPT !.dirty = @ \cup {r}].tx
      /\ [[conn[p] EXCEPT !.tx = TRUE] EXCEPT !.dirty = @ \cup {r}].frozen = conn[p].frozen
      /\ [[conn[p] EXCEPT !.tx = TRUE] EXCEPT !.dirty = @ \cup {r}].dirty = conn[p].dirty \cup {r}
  BY <1>2, <1>5 DEF ConnType
<1>7. conn' \in [Procs -> ConnType] /\ \A q \in Procs \ {p} : conn'[q] = conn[q]
  BY <1>1, <1>4, <1>6
<1>8. conn'[p].dirty = conn[p].dirty \cup {r} /\ conn'[p].tx /\ conn'[p].frozen = conn[p].frozen
  BY <1>1, <1>4, <1>6
<1>. QED  BY <1>2, <1>3, <1>7, <1>8

LEMMA ClosedRow ==
  ASSUME IInv, NEW p \in Procs, conn' = [conn EXCEPT ![p] = Closed]
  PROVE  /\ conn' \in [Procs -> ConnType]
         /\ conn'[p].tx = FALSE /\ conn'[p].frozen = {} /\ conn'[p].dirty = {}
         /\ \A q \in Procs \ {p} : conn'[q] = conn[q]
<1>1. conn \in [Procs -> ConnType] /\ Closed \in ConnType
  BY DEF IInv, TypeOK, ConnType, Closed
<1>. QED  BY <1>1 DEF Closed

\* Every step in one shape: what becomes of the ledger and of each connection.
LEMMA ConnSteps ==
  ASSUME IInv, [Next]_vars
  PROVE  /\ conn' \in [Procs -> ConnType]
         /\ ledger' = ledger \/ \E p \in Procs : ledger' = Seen(p) /\ conn'[p].dirty = {}
         /\ ledger \subseteq ledger'
         /\ \A c \in Calls : pc[c] \in Ends => pc'[c] = pc[c]
         /\ \A c \in Calls : pc[c] # "idle" => pc'[c] # "idle"
<1>1. conn \in [Procs -> ConnType]
      /\ pc \in [Calls -> CheckSteps \cup DeductSteps \cup OtherSteps \cup Ends]
  BY DEF IInv, TypeOK, ConnType
<1>2. ASSUME NEW c \in Calls, Silent(c) \/ Wrote(c) \/ Committed(c) \/ Cancelled(c)
      PROVE  /\ pc' = [pc EXCEPT ![c] = pc'[c]]
             /\ pc[c] \notin Ends /\ pc'[c] # "idle"
  BY <1>1, <1>2
     DEF Silent, SilentMove, Wrote, Committed, Cancelled, Moved, Ends
<1>3. ASSUME NEW p \in Procs, Restarted(p)
      PROVE  \A c \in Calls : /\ pc[c] \in Ends => pc'[c] = pc[c]
                              /\ pc[c] # "idle" => pc'[c] # "idle"
  BY <1>1, <1>3 DEF Restarted
<1>4. /\ \A c \in Calls : pc[c] \in Ends => pc'[c] = pc[c]
      /\ \A c \in Calls : pc[c] # "idle" => pc'[c] # "idle"
  BY <1>1, <1>2, <1>3, StepEffect DEF Passed
<1>5. ASSUME NEW c \in Calls, Silent(c) \/ Wrote(c) \/ Cancelled(c)
      PROVE  conn' \in [Procs -> ConnType] /\ ledger' = ledger
  BY <1>1, <1>5, WroteRow DEF Silent, Looked, Wrote, Cancelled
<1>6. ASSUME NEW c \in Calls, Committed(c)
      PROVE  /\ conn' \in [Procs -> ConnType]
             /\ Home[c] \in Procs /\ ledger' = Seen(Home[c]) /\ conn'[Home[c]].dirty = {}
  BY <1>6, CallsAssumption, ClosedRow DEF Committed, CommitRows, Seen
<1>7. ASSUME NEW p \in Procs, Restarted(p)
      PROVE  conn' \in [Procs -> ConnType] /\ ledger' = ledger
  BY <1>7, ClosedRow DEF Restarted
<1>8. CASE Passed
  BY <1>1, <1>4, <1>8 DEF Passed
<1>. QED  BY <1>4, <1>5, <1>6, <1>7, <1>8, StepEffect DEF Seen

LEMMA ShortType ==
  ASSUME IInv, [Next]_vars
  PROVE  short' \in [Calls -> Nat]
<1>1. short \in [Calls -> Nat]
  BY DEF IInv, TypeOK
<1>2. ASSUME NEW c \in Calls, SyncBalance(c) PROVE short' \in [Calls -> Nat]
  <2>. DEFINE missing == Amount[c] - CalcBalance(View(Proc(c)))
  <2>1. Home[c] \in Procs /\ Amount[c] \in Nat
    BY CallsAssumption
  <2>2. Deposits(View(Home[c])) \in Nat
    BY <2>1, ViewIs, DepositsGrow DEF IInv
  <2>3. Cost(Confirmed(View(Home[c]))) \in Nat
    BY CostNat DEF Confirmed
  <2>4. missing \in Int
    BY <2>1, <2>2, <2>3 DEF CalcBalance, Proc
  <2>5. short' = [short EXCEPT ![c] = IF missing > 0 THEN missing ELSE 0]
    BY <1>2 DEF SyncBalance
  <2>. HIDE DEF missing
  <2>. QED  BY <1>1, <2>4, <2>5
<1>3. ASSUME NEW c \in Calls, CallStep(c), ~SyncBalance(c) PROVE short' = short
  BY <1>3 DEF CallStep, StartGuarded, StartCli, Started, CheckSpend, CheckCount, CheckDaily,
       CheckBalance, DeductBalance, Check, DeductLimit, Insert, CommitDeduct, CommitUndo,
       CommitTop, Commit, PayOk, PayFailed, Answered, UndoDeduct, InsertTop, Unmoved
<1>4. CASE UNCHANGED short
  BY <1>1, <1>4
<1>. QED  BY <1>2, <1>3, <1>4
          DEF Next, Cancel, RecordFailure, RecordSuccess, Reset, Forgiven, InitDb, Tick, vars

LEMMA StepConn ==
  ASSUME IInv, [Next]_vars
  PROVE  /\ IsFiniteSet(ledger')
         /\ \A p \in Procs : ConnInv(p)'
         /\ \A p \in Procs : conn'[p].dirty # {} =>
              conn'[p].tx /\ ~Locked(p)' /\ ~Outdated(p)'
<1>. DEFINE Locks(p) == conn[p].dirty # {} => conn[p].tx /\ ~Locked(p) /\ ~Outdated(p)
<1>1. /\ IsFiniteSet(ledger) /\ \A p \in Procs : ConnInv(p) /\ Locks(p)
      /\ conn \in [Procs -> ConnType] /\ ledger \in SUBSET Rows
      /\ pc \in [Calls -> CheckSteps \cup DeductSteps \cup OtherSteps \cup Ends]
      /\ \A c \in Calls : Home[c] \in Procs
  BY CallsAssumption DEF IInv, TypeOK, ConnType
<1>2. \A p \in Procs : HasCause(p) => HasCause(p)'
  BY <1>1, ConnSteps DEF HasCause, Ends
\* Rows of others keep their writers, if those are where they were or cancelled.
<1>3. ASSUME NEW c \in Calls, Moved(c), pc[c] \notin {"commit", "commit_undo", "commit_top", "cancelled"},
             NEW r \in Rows, Writing(r.call, r)
      PROVE  Writing(r.call, r)'
  BY <1>1, <1>3 DEF Writing, Moved, Rows
<1>4. ASSUME NEW c \in Calls, Silent(c)
      PROVE  IsFiniteSet(ledger') /\ \A p \in Procs : ConnInv(p)' /\ Locks(p)'
  <2>1. /\ Looked(Home[c]) /\ ledger' = ledger /\ Moved(c)
        /\ pc[c] \notin {"commit", "commit_undo", "commit_top", "cancelled"}
        /\ pc[c] \in CheckSteps \cup DeductSteps \cup OtherSteps
    BY <1>4 DEF Silent, SilentMove, CheckSteps, DeductSteps, OtherSteps
  <2>2. HasCause(Home[c])' \/ conn'[Home[c]].tx = conn[Home[c]].tx
    BY <1>1, <1>4 DEF Silent, HasCause
  <2>3. ASSUME NEW p \in Procs PROVE ConnInv(p)' /\ Locks(p)'
    <3>1. \A r \in conn'[p].dirty : Home[r.call] = p /\ Writing(r.call, r)'
      BY <1>1, <1>3, <2>1 DEF ConnInv, Looked, ConnType
    <3>2. conn'[p].frozen # {} => HasCause(p)' /\ \E S \in SUBSET ledger' : conn'[p].frozen = {S}
      BY <1>2, <2>1 DEF Looked
    <3>3. conn'[p].tx /\ conn'[p].dirty = {} => HasCause(p)'
      BY <1>1, <1>2, <2>1, <2>2 DEF ConnInv, Looked
    <3>4. Locks(p)'
      BY <1>1, <2>1 DEF Looked, Locked, Outdated
    <3>. QED  BY <1>1, <2>1, <3>1, <3>2, <3>3, <3>4 DEF ConnInv, Looked
  <2>. QED  BY <1>1, <2>1, <2>3
<1>5. ASSUME NEW c \in Calls, Wrote(c)
      PROVE  IsFiniteSet(ledger') /\ \A p \in Procs : ConnInv(p)' /\ Locks(p)'
  <2>. DEFINE p == Home[c]
  <2>1. PICK r \in Rows : Writes(c, r) /\ conn'[p].dirty = conn[p].dirty \cup {r}
    BY <1>5, WroteRow
  <2>2. /\ conn'[p].tx /\ conn'[p].frozen = conn[p].frozen /\ ~Outdated(p)
        /\ \A q \in Procs \ {p} : conn'[q] = conn[q] /\ conn[q].dirty = {}
        /\ ledger' = ledger /\ Moved(c)
    BY <1>5, WroteRow DEF Wrote
  <2>3. /\ pc[c] \notin {"commit", "commit_undo", "commit_top", "cancelled"}
        /\ r.call = c /\ Writing(c, r)'
    BY <1>1, <2>1, <2>2 DEF Writes, Writing, Moved, Take, Undo
  <2>4. ASSUME NEW q \in Procs PROVE ConnInv(q)' /\ Locks(q)'
    <3>1. CASE q # p
      <4>1. conn'[q] = conn[q] /\ conn[q].dirty = {} /\ ledger' = ledger
        BY <2>2, <3>1
      <4>2. ConnInv(q)
        BY <1>1
      <4>3. ConnInv(q)'
        BY <1>2, <4>1, <4>2 DEF ConnInv
      <4>. QED  BY <4>1, <4>3
    <3>2. CASE q = p
      <4>1. \A x \in conn'[p].dirty : Home[x.call] = p /\ Writing(x.call, x)'
        BY <1>1, <1>3, <2>1, <2>2, <2>3 DEF ConnInv, ConnType
      <4>2. IsFiniteSet(conn'[p].dirty)
        <5>1. IsFiniteSet(conn[p].dirty)
          BY <1>1 DEF ConnInv
        <5>. QED  BY <2>1, <5>1, FS_AddElement
      <4>3. ~Locked(p)' /\ ~Outdated(p)'
        BY <2>2 DEF Locked, Outdated
      <4>4. /\ conn'[p].frozen # {} => \E S \in SUBSET ledger' : conn'[p].frozen = {S}
            /\ conn'[p].frozen # {} => HasCause(p)'
        <5>1. ConnInv(p) /\ ledger' = ledger /\ conn'[p].frozen = conn[p].frozen
          BY <1>1, <2>2
        <5>2. HasCause(p) => HasCause(p)'
          BY <1>1, <1>2
        <5>. HIDE DEF p
        <5>. QED  BY <5>1, <5>2 DEF ConnInv
      <4>5. conn'[p].dirty # {}
        BY <2>1
      <4>6. ConnInv(p)'
        BY <4>1, <4>2, <4>4, <4>5 DEF ConnInv
      <4>. QED  BY <2>2, <3>2, <4>3, <4>6
    <3>. QED  BY <3>1, <3>2
  <2>. QED  BY <1>1, <2>2, <2>4
<1>6. ASSUME NEW c \in Calls, Committed(c)
      PROVE  IsFiniteSet(ledger') /\ \A p \in Procs : ConnInv(p)' /\ Locks(p)'
  <2>. DEFINE p == Home[c]
  <2>1. /\ ledger' = Seen(p) /\ Moved(c) /\ ledger \subseteq ledger'
        /\ conn'[p].tx = FALSE /\ conn'[p].frozen = {} /\ conn'[p].dirty = {}
        /\ \A q \in Procs \ {p} : conn'[q] = conn[q]
    BY <1>1, <1>6, ClosedRow DEF Committed, CommitRows, Seen
  <2>2. IsFiniteSet(ledger')
    BY <1>1, <2>1, FS_Union DEF ConnInv, Seen
  <2>3. conn[p].dirty = {} \/ \A q \in Procs \ {p} : conn[q].dirty = {}
    BY <1>1 DEF Locked
  <2>4. ASSUME NEW q \in Procs, q # p PROVE ConnInv(q)' /\ Locks(q)'
    <3>1. CASE conn[q].dirty = {}
      <4>1. conn'[q].frozen # {} => \E S \in SUBSET ledger' : conn'[q].frozen = {S}
        <5>1. conn'[q] = conn[q]
          BY <2>1, <2>4
        <5>2. CASE conn[q].frozen # {}
          <6>1. PICK S \in SUBSET ledger : conn[q].frozen = {S}
            BY <1>1, <5>2 DEF ConnInv
          <6>2. S \in SUBSET ledger'
            BY <2>1
          <6>. QED  BY <5>1, <6>1, <6>2
        <5>. QED  BY <5>1, <5>2
      <4>. QED  BY <1>1, <1>2, <2>1, <2>4, <3>1, <4>1, FS_EmptySet DEF ConnInv
    <3>2. CASE conn[q].dirty # {}
      <4>1. ledger' = ledger
        BY <2>1, <2>3, <2>4, <3>2 DEF Seen
      <4>2. \A x \in conn[q].dirty : x.call # c /\ x.call \in Calls
        BY <1>1, <2>4 DEF ConnInv, ConnType, Rows
      <4>3. \A x \in conn[q].dirty : Writing(x.call, x)'
        BY <1>1, <2>1, <4>2 DEF ConnInv, Writing, Moved
      <4>4. ~Locked(q)' /\ ~Outdated(q)'
        BY <1>1, <2>1, <2>4, <3>2, <4>1 DEF Locked, Outdated
      <4>5. conn'[q] = conn[q] /\ ConnInv(q) /\ Locks(q)
        BY <1>1, <2>1, <2>4
      <4>6. ConnInv(q)'
        BY <1>2, <4>1, <4>3, <4>5 DEF ConnInv
      <4>. QED  BY <4>4, <4>5, <4>6
    <3>. QED  BY <3>1, <3>2
  <2>5. ConnInv(p)' /\ Locks(p)'
    BY <2>1, FS_EmptySet DEF ConnInv
  <2>. QED  BY <2>2, <2>4, <2>5
<1>7. ASSUME NEW c \in Calls, Cancelled(c)
      PROVE  IsFiniteSet(ledger') /\ \A p \in Procs : ConnInv(p)' /\ Locks(p)'
  <2>1. \A r \in Rows : Writing(r.call, r) => Writing(r.call, r)'
    BY <1>1, <1>7 DEF Cancelled, Writing, Rows
  <2>. QED  BY <1>1, <1>2, <1>7, <2>1 DEF Cancelled, ConnInv, Locked, Outdated, ConnType
<1>8. ASSUME NEW p \in Procs, Restarted(p)
      PROVE  IsFiniteSet(ledger') /\ \A q \in Procs : ConnInv(q)' /\ Locks(q)'
  <2>1. /\ conn'[p].tx = FALSE /\ conn'[p].frozen = {} /\ conn'[p].dirty = {}
        /\ \A q \in Procs \ {p} : conn'[q] = conn[q]
        /\ ledger' = ledger
    BY <1>8, ClosedRow DEF Restarted
  <2>2. ConnInv(p)' /\ Locks(p)'
    BY <2>1, FS_EmptySet DEF ConnInv
  <2>3. ASSUME NEW q \in Procs, q # p PROVE ConnInv(q)' /\ Locks(q)'
    <3>1. \A x \in conn[q].dirty : x.call \in Calls /\ pc'[x.call] = pc[x.call]
      BY <1>1, <1>8, <2>3 DEF ConnInv, ConnType, Rows, Restarted
    <3>2. \A x \in conn[q].dirty : Writing(x.call, x)'
      BY <1>1, <3>1 DEF ConnInv, Writing
    <3>3. Locked(q)' => Locked(q)
      BY <2>1 DEF Locked
    <3>. QED  BY <1>1, <1>2, <2>1, <2>3, <3>2, <3>3 DEF ConnInv, Outdated
  <2>. QED  BY <1>1, <2>1, <2>2, <2>3
<1>9. CASE Passed
  <2>1. UNCHANGED <<ledger, conn, pc>>
    BY <1>9 DEF Passed
  <2>. QED  BY <1>1, <1>2, <2>1 DEF ConnInv, Locked, Outdated, Writing
<1>. QED  BY <1>4, <1>5, <1>6, <1>7, <1>8, <1>9, StepEffect

LEMMA StepType ==
  ASSUME IInv, [Next]_vars
  PROVE  TypeOK' /\ entry' \in [Calls -> Entries]
<1>1. /\ pc \in [Calls -> CheckSteps \cup DeductSteps \cup OtherSteps \cup Ends]
      /\ at \in [Calls -> 0..now] /\ now \in Nat
      /\ ledger \in SUBSET Rows /\ conn \in [Procs -> ConnType]
  BY DEF IInv, TypeOK, ConnType
<1>2. ledger' \subseteq Rows
  BY <1>1, ConnSteps DEF Seen, ConnType
<1>3. pc' \in [Calls -> CheckSteps \cup DeductSteps \cup OtherSteps \cup Ends]
  <2>1. ASSUME NEW c \in Calls, Silent(c) \/ Wrote(c) \/ Committed(c)
        PROVE  /\ pc' = [pc EXCEPT ![c] = pc'[c]]
               /\ pc'[c] \in CheckSteps \cup DeductSteps \cup OtherSteps \cup Ends
    BY <2>1 DEF Silent, SilentMove, Wrote, Committed, Moved, CheckSteps, DeductSteps, OtherSteps, Ends
  <2>. QED  BY <1>1, <2>1, StepEffect DEF Cancelled, Restarted, Passed, Ends
<1>4. at' \in [Calls -> 0..now'] /\ now' \in Nat
  <2>1. ASSUME NEW c \in Calls, Wrote(c) PROVE now' = now /\ (at' = at \/ at' = [at EXCEPT ![c] = now])
    BY <2>1 DEF Wrote
  <2>2. now' \in {now, now + 1} /\ (at' = at \/ \E c \in Calls : at' = [at EXCEPT ![c] = now])
    BY <2>1, StepEffect DEF Silent, Committed, Cancelled, Restarted, Passed
  <2>3. now' \in Nat /\ now <= now' /\ now \in 0..now' /\ \A t \in 0..now : t \in 0..now'
    BY <1>1, <2>2
  <2>. QED  BY <1>1, <2>2, <2>3
<1>. QED  BY <1>2, <1>3, <1>4, ConnSteps, StepConn, ShortType, StepEffect DEF IInv, TypeOK, ConnType

LEMMA StepRows ==
  ASSUME IInv, [Next]_vars, NEW d \in Calls
  PROVE  RowInv(d)'
<1>. DEFINE p == Home[d]
<1>1. /\ p \in Procs /\ RowInv(d) /\ ConnInv(p) /\ conn \in [Procs -> ConnType]
      /\ pc \in [Calls -> CheckSteps \cup DeductSteps \cup OtherSteps \cup Ends]
      /\ entry \in [Calls -> Entries]
  BY CallsAssumption DEF IInv, TypeOK, ConnType
<1>2. entry' = entry
  BY StepEffect
\* The rows of d in a connection are in d's own, where d has written them.
<1>3. \A q \in Procs, r \in Rows : r \in conn[q].dirty => Home[r.call] = q /\ Writing(r.call, r)
  BY DEF IInv, ConnInv
<1>4. \A q \in Procs :
        /\ Take(d) \in conn[q].dirty => q = p /\ pc[d] \in {"commit", "cancelled"}
        /\ Undo(d) \in conn[q].dirty => q = p /\ pc[d] \in {"commit_undo", "cancelled"}
  <2>1. Take(d) \in Rows /\ Take(d).call = d /\ Take(d).kind = "take"
        /\ Undo(d) \in Rows /\ Undo(d).call = d /\ Undo(d).kind = "undo"
    BY RowsAreRows DEF Take, Undo
  <2>. QED  BY <1>3, <2>1 DEF Writing
<1>5. ASSUME NEW c \in Calls, Silent(c) PROVE RowInv(d)'
  <2>1. ledger' = ledger /\ conn'[p].dirty = conn[p].dirty /\ Moved(c)
    BY <1>1, <1>5 DEF Silent, Looked
  <2>2. CASE c # d
    BY <1>1, <1>2, <2>1, <2>2 DEF RowInv, Moved, Confirmed
  <2>3. CASE c = d
    BY <1>1, <1>2, <1>5, <2>1, <2>3
       DEF RowInv, Silent, SilentMove, Unpaid, CheckSteps, Confirmed
  <2>. QED  BY <2>2, <2>3
<1>6. ASSUME NEW c \in Calls, Wrote(c) PROVE RowInv(d)'
  <2>1. /\ ledger' = ledger /\ Moved(c)
        /\ \E r \in Rows : Writes(c, r) /\ conn'[Home[c]].dirty = conn[Home[c]].dirty \cup {r}
        /\ \A q \in Procs \ {Home[c]} : conn'[q] = conn[q]
    BY <1>6, WroteRow DEF Wrote
  <2>2. CASE c # d
    BY <1>1, <1>2, <2>1, <2>2 DEF RowInv, Moved, Confirmed
  <2>3. CASE c = d
    BY <1>1, <1>2, <2>1, <2>3 DEF RowInv, Writes, Unpaid, CheckSteps, Confirmed
  <2>. QED  BY <2>2, <2>3
<1>7. ASSUME NEW c \in Calls, Committed(c) PROVE RowInv(d)'
  <2>1. /\ ledger' = Seen(Home[c]) /\ Moved(c) /\ Home[c] \in Procs
        /\ conn'[Home[c]].dirty = {} /\ \A q \in Procs \ {Home[c]} : conn'[q] = conn[q]
    BY <1>7, CallsAssumption, ClosedRow DEF Committed, CommitRows, Seen
  <2>2. CASE c # d
    <3>1. pc'[d] = pc[d]
      BY <1>1, <2>1, <2>2 DEF Moved
    <3>2. ~(Home[c] = p /\ HoldsWallet(d))
      BY <1>7, <2>2 DEF IInv, LocksExclude, HoldsWallet, Committed, DeductSteps
    <3>3. Take(d) \in ledger' => Take(d) \in ledger \/ pc[d] = "cancelled"
      BY <1>4, <2>1, <3>2 DEF Seen, HoldsWallet, DeductSteps
    <3>4. Undo(d) \in ledger' => Undo(d) \in ledger \/ pc[d] = "cancelled"
      BY <1>4, <2>1, <3>2 DEF Seen, HoldsWallet, DeductSteps
    <3>5. pc[d] \in {"commit", "commit_undo", "commit_top"} => conn'[p] = conn[p]
      BY <1>1, <2>1, <3>2 DEF HoldsWallet, DeductSteps
    <3>6. Take(d) \in ledger => Take(d) \in ledger'
      BY <2>1 DEF Seen
    <3>7. Undo(d) \in ledger => Undo(d) \in ledger'
      BY <2>1 DEF Seen
    <3>. QED  BY <1>1, <1>2, <3>1, <3>3, <3>4, <3>5, <3>6, <3>7
              DEF RowInv, Confirmed, Unpaid, CheckSteps
  <2>3. CASE c = d
    BY <1>1, <1>2, <1>4, <1>7, <2>1, <2>3
       DEF RowInv, Committed, Seen, Confirmed, Unpaid, CheckSteps
  <2>. QED  BY <2>2, <2>3
<1>8. ASSUME NEW c \in Calls, Cancelled(c) PROVE RowInv(d)'
  BY <1>1, <1>2, <1>8 DEF Cancelled, RowInv, Confirmed, Unpaid, CheckSteps, Ends
<1>9. ASSUME NEW q \in Procs, Restarted(q) PROVE RowInv(d)'
  <2>1. ledger' = ledger /\ (q # p => conn'[p] = conn[p])
    BY <1>1, <1>9, ClosedRow DEF Restarted
  <2>2. pc'[d] = IF p = q /\ pc[d] \notin Ends \cup {"idle"} THEN "killed" ELSE pc[d]
    BY <1>9 DEF Restarted
  <2>3. CASE pc'[d] = pc[d]
    <3>1. pc[d] \in {"commit", "commit_undo", "commit_top"} => q # p
      BY <2>2, <2>3 DEF Ends
    <3>. QED  BY <1>1, <1>2, <2>1, <2>3, <3>1 DEF RowInv, Confirmed
  <2>4. CASE pc'[d] = "killed" /\ pc[d] \notin Ends
    BY <1>1, <1>2, <2>1, <2>4 DEF RowInv, Unpaid, CheckSteps, Ends
  <2>. QED  BY <2>2, <2>3, <2>4
<1>10. CASE Passed
  BY <1>1, <1>2, <1>10 DEF Passed, RowInv, Confirmed
<1>. QED  BY <1>5, <1>6, <1>7, <1>8, <1>9, <1>10, StepEffect

LEMMA StepLocks ==
  ASSUME IInv, [Next]_vars
  PROVE  LocksExclude'
<1>1. /\ LocksExclude
      /\ \A c \in Calls : pc[c] \in {"sync", "top", "commit_top"} => entry[c] # "middleware"
      /\ pc \in [Calls -> CheckSteps \cup DeductSteps \cup OtherSteps \cup Ends]
  BY DEF IInv, TypeOK, RowInv
<1>2. entry' = entry
  BY StepEffect
\* A lock is taken when it is free; whoever has it keeps it or leaves it.
<1>3. ASSUME NEW c \in Calls, Silent(c) \/ Wrote(c) \/ Committed(c)
      PROVE  /\ Moved(c)
             /\ HoldsWallet(c)' => HoldsWallet(c) \/ WalletLockFree(c)
             /\ HoldsPayment(c)' => HoldsPayment(c) \/ PaymentLockFree(c)
  <2>1. CASE Silent(c)
    BY <1>1, <1>2, <2>1
       DEF Silent, SilentMove, HoldsWallet, HoldsPayment, CheckSteps, DeductSteps
  <2>2. CASE Wrote(c)
    BY <1>1, <1>2, <2>2 DEF Wrote, HoldsWallet, HoldsPayment, CheckSteps, DeductSteps
  <2>3. CASE Committed(c)
    <3>1. HoldsPayment(c)' => HoldsPayment(c)
      BY <1>1, <1>2, <2>3 DEF Committed, HoldsPayment, CheckSteps, DeductSteps
    <3>. QED  BY <1>1, <1>2, <2>3, <3>1 DEF Committed, HoldsWallet, DeductSteps
  <2>. QED  BY <1>3, <2>1, <2>2, <2>3
<1>4. ASSUME NEW c \in Calls, Silent(c) \/ Wrote(c) \/ Committed(c) PROVE LocksExclude'
  <2>1. ASSUME NEW d \in Calls, d # c
        PROVE  (HoldsWallet(d)' <=> HoldsWallet(d)) /\ (HoldsPayment(d)' <=> HoldsPayment(d))
    BY <1>1, <1>2, <1>3, <1>4, <2>1 DEF HoldsWallet, HoldsPayment, Moved
  <2>2. ASSUME NEW d \in Calls, d # c, Home[d] = Home[c]
        PROVE  /\ WalletLockFree(c) => ~HoldsWallet(d)
               /\ PaymentLockFree(c) => ~HoldsPayment(d)
    BY <2>2 DEF WalletLockFree, PaymentLockFree, Colleagues, HoldsWallet, HoldsPayment, DeductSteps
  <2>. QED  BY <1>1, <1>3, <1>4, <2>1, <2>2 DEF LocksExclude
<1>5. ASSUME \A d \in Calls : /\ HoldsWallet(d)' => HoldsWallet(d)
                              /\ HoldsPayment(d)' => HoldsPayment(d)
      PROVE  LocksExclude'
  BY <1>1, <1>5 DEF LocksExclude
<1>6. ASSUME NEW c \in Calls, Cancelled(c) PROVE LocksExclude'
  BY <1>1, <1>2, <1>5, <1>6 DEF Cancelled, HoldsWallet, HoldsPayment, CheckSteps, DeductSteps
<1>7. ASSUME NEW p \in Procs, Restarted(p) PROVE LocksExclude'
  BY <1>1, <1>2, <1>5, <1>7 DEF Restarted, HoldsWallet, HoldsPayment, CheckSteps, DeductSteps
<1>8. CASE Passed
  BY <1>2, <1>5, <1>8 DEF Passed, HoldsWallet, HoldsPayment
<1>. QED  BY <1>4, <1>6, <1>7, <1>8, StepEffect

-----------------------------------------------------------------------------
(* The limits of a process.                                                *)

LEMMA FewerKeep ==
  ASSUME NEW f, NEW g, NEW C \in SUBSET Calls, NEW D \in SUBSET C, KeepsLimits(f, C),
         \A c \in D : f[c] = g[c]
  PROVE  KeepsLimits(g, D)
<1>. SUFFICES ASSUME NEW c \in D
              PROVE  /\ Cost(Window(g, D, g[c])) <= MinuteLimit
                     /\ Cardinality(Window(g, D, g[c])) <= MinuteCount
                     /\ Cost(DayOf(g, D, g[c] \div Day)) <= DailyLimit
  BY DEF KeepsLimits
<1>2. /\ Window(g, D, g[c]) \in SUBSET Window(f, C, f[c])
      /\ Window(f, C, f[c]) \in SUBSET Calls
      /\ DayOf(g, D, g[c] \div Day) \in SUBSET DayOf(f, C, f[c] \div Day)
      /\ DayOf(f, C, f[c] \div Day) \in SUBSET Calls
  BY DEF Window, DayOf
<1>3. /\ Cost(Window(f, C, f[c])) <= MinuteLimit
      /\ Cardinality(Window(f, C, f[c])) <= MinuteCount
      /\ Cost(DayOf(f, C, f[c] \div Day)) <= DailyLimit
  BY DEF KeepsLimits
<1>4. /\ Window(g, D, g[c]) \in SUBSET Calls /\ DayOf(g, D, g[c] \div Day) \in SUBSET Calls
  BY <1>2
<1>. QED  BY <1>2, <1>3, <1>4, CostSubset, CostNat, LimitsAssumption

\* A deduction that was tested is added at the end of time.
LEMMA OneMoreKeeps ==
  ASSUME NEW C \in SUBSET Calls, NEW c \in Calls \ C, NEW n \in Nat,
         NEW f \in [Calls -> Nat], \A d \in C : f[d] <= n,
         KeepsLimits(f, C),
         Cost(Window(f, C, n)) + Amount[c] <= MinuteLimit,
         Cardinality(Window(f, C, n)) + 1 <= MinuteCount,
         Cost(DayOf(f, C, n \div Day)) + Amount[c] <= DailyLimit
  PROVE  KeepsLimits([f EXCEPT ![c] = n], C \cup {c})
<1>. DEFINE g == [f EXCEPT ![c] = n]
            D == C \cup {c}
<1>1. g \in [Calls -> Nat] /\ g[c] = n /\ \A d \in C : g[d] = f[d] /\ f[d] \in Nat
  OBVIOUS
<1>2. Window(g, D, n) \in SUBSET (Window(f, C, n) \cup {c})
      /\ DayOf(g, D, n \div Day) \in SUBSET (DayOf(f, C, n \div Day) \cup {c})
  BY <1>1 DEF Window, DayOf
<1>3. Window(f, C, n) \in SUBSET Calls /\ DayOf(f, C, n \div Day) \in SUBSET Calls
  BY DEF Window, DayOf
<1>4. Cost(Window(g, D, n)) <= MinuteLimit /\ Cardinality(Window(g, D, n)) <= MinuteCount
  <2>1. /\ Window(f, C, n) \cup {c} \in SUBSET Calls
        /\ Window(g, D, n) \in SUBSET Calls
    BY <1>2, <1>3
  <2>2. /\ Cost(Window(g, D, n)) <= Cost(Window(f, C, n) \cup {c})
        /\ Cardinality(Window(g, D, n)) <= Cardinality(Window(f, C, n) \cup {c})
    BY <1>2, <2>1, CostSubset
  <2>3. /\ Cost(Window(f, C, n) \cup {c}) <= Cost(Window(f, C, n)) + Amount[c]
        /\ Cardinality(Window(f, C, n) \cup {c}) <= Cardinality(Window(f, C, n)) + 1
    BY <1>3, CostAdd
  <2>4. /\ Cost(Window(g, D, n)) \in Nat /\ Cardinality(Window(g, D, n)) \in Nat
        /\ Cost(Window(f, C, n)) \in Nat /\ Cardinality(Window(f, C, n)) \in Nat
        /\ Cost(Window(f, C, n) \cup {c}) \in Nat
        /\ Cardinality(Window(f, C, n) \cup {c}) \in Nat
    BY <1>3, <2>1, CostNat
  <2>. QED  BY <2>2, <2>3, <2>4, LimitsAssumption, CallsAssumption
<1>5. Cost(DayOf(g, D, n \div Day)) <= DailyLimit
  <2>. DEFINE A == DayOf(f, C, n \div Day)
              B == DayOf(g, D, n \div Day)
  <2>1. A \in SUBSET Calls /\ A \cup {c} \in SUBSET Calls /\ B \in SUBSET (A \cup {c})
        /\ B \in SUBSET Calls
    BY <1>2, <1>3
  <2>2. Cost(A) + Amount[c] <= DailyLimit
    OBVIOUS
  <2>. HIDE DEF A, B
  <2>3. Cost(B) <= Cost(A \cup {c}) /\ Cost(A \cup {c}) <= Cost(A) + Amount[c]
    BY <2>1, CostSubset, CostAdd
  <2>4. Cost(A) \in Nat /\ Cost(B) \in Nat /\ Cost(A \cup {c}) \in Nat /\ Amount[c] \in Nat
    BY <2>1, CostNat, CallsAssumption
  <2>5. Cost(B) <= DailyLimit
    BY <2>2, <2>3, <2>4, LimitsAssumption
  <2>. QED  BY <2>5 DEF B
<1>. HIDE DEF g
<1>6. ASSUME NEW x \in D
      PROVE  /\ Cost(Window(g, D, g[x])) <= MinuteLimit
             /\ Cardinality(Window(g, D, g[x])) <= MinuteCount
             /\ Cost(DayOf(g, D, g[x] \div Day)) <= DailyLimit
  <2>1. CASE g[x] = n
    BY <1>4, <1>5, <2>1
  <2>2. CASE g[x] # n
    <3>1. x \in C /\ g[x] = f[x] /\ f[x] \in Nat /\ f[x] < n
      BY <1>1, <2>2
    <3>2. Window(g, D, g[x]) = Window(f, C, f[x])
      <4>1. c \notin Window(g, D, g[x])
        BY <1>1, <3>1, ClockAssumption DEF Window
      <4>. QED  BY <1>1, <3>1, <4>1 DEF Window
    <3>3. CASE g[x] \div Day = n \div Day
      BY <1>5, <3>1, <3>2, <3>3 DEF KeepsLimits
    <3>4. CASE g[x] \div Day # n \div Day
      <4>1. DayOf(g, D, g[x] \div Day) = DayOf(f, C, f[x] \div Day)
        BY <1>1, <3>1, <3>4 DEF DayOf
      <4>. QED  BY <3>1, <3>2, <4>1 DEF KeepsLimits
    <3>. QED  BY <3>3, <3>4
  <2>. QED  BY <2>1, <2>2
<1>7. KeepsLimits(g, D)
  BY <1>6 DEF KeepsLimits
<1>. QED  BY <1>7 DEF g

\* What a process sees of its own deductions changes by its own steps only.
LEMMA MidsSteps ==
  ASSUME IInv, [Next]_vars, NEW q \in Procs
  PROVE  /\ Mids(q, ledger)' \in {Mids(q, ledger), Mids(q, Seen(q))}
         /\ \/ Mids(q, Seen(q))' \in SUBSET Mids(q, Seen(q))
            \/ /\ \E p \in Procs : Restarted(p)
               /\ \A c \in Calls : Home[c] = q => ~HoldsPayment(c)'
               /\ Mids(q, Seen(q))' = Mids(q, ledger)
            \/ \E c \in Calls :
                 /\ Wrote(c) /\ pc[c] = "insert" /\ Home[c] = q /\ entry[c] = "middleware"
                 /\ Mids(q, Seen(q))' \in SUBSET (Mids(q, Seen(q)) \cup {c})
<1>1. /\ entry' = entry /\ conn \in [Procs -> ConnType] /\ \A p \in Procs : ConnInv(p)
      /\ pc \in [Calls -> CheckSteps \cup DeductSteps \cup OtherSteps \cup Ends]
  BY StepEffect DEF IInv, TypeOK, ConnType
\* Rows of other processes do not count.
<1>2. ASSUME NEW S \in SUBSET Rows, NEW p \in Procs, p # q
      PROVE  Mids(q, S \cup conn[p].dirty) = Mids(q, S)
  <2>1. ASSUME NEW c \in Calls, Home[c] = q
        PROVE  Take(c) \notin conn[p].dirty /\ Undo(c) \notin conn[p].dirty
    <3>1. Take(c).call = c /\ Undo(c).call = c
      BY DEF Take, Undo
    <3>. QED  BY <1>1, <1>2, <2>1, <3>1 DEF ConnInv
  <2>. QED  BY <2>1 DEF Mids, Confirmed
<1>3. ledger \in SUBSET Rows /\ \A p \in Procs : conn[p].dirty \in SUBSET Rows
  BY <1>1 DEF IInv, TypeOK, ConnType
<1>4. ASSUME ledger' = ledger, conn'[q].dirty = conn[q].dirty
      PROVE  Mids(q, ledger)' = Mids(q, ledger) /\ Mids(q, Seen(q))' = Mids(q, Seen(q))
  BY <1>1, <1>4 DEF Mids, Confirmed, Seen
<1>5. ASSUME NEW c \in Calls, Silent(c) \/ Cancelled(c)
      PROVE  Mids(q, ledger)' = Mids(q, ledger) /\ Mids(q, Seen(q))' = Mids(q, Seen(q))
  BY <1>4, <1>5 DEF Silent, Looked, Cancelled
<1>6. CASE Passed
  BY <1>4, <1>6 DEF Passed
<1>7. ASSUME NEW c \in Calls, Wrote(c)
      PROVE  /\ Mids(q, ledger)' = Mids(q, ledger)
             /\ \/ Mids(q, Seen(q))' \in SUBSET Mids(q, Seen(q))
                \/ /\ pc[c] = "insert" /\ Home[c] = q /\ entry[c] = "middleware"
                   /\ Mids(q, Seen(q))' \in SUBSET (Mids(q, Seen(q)) \cup {c})
  <2>1. CASE Home[c] # q
    <3>1. ledger' = ledger /\ conn'[q] = conn[q]
      BY <1>7, <2>1, WroteRow DEF Wrote
    <3>. QED  BY <1>4, <3>1
  <2>2. CASE Home[c] = q
    <3>1. PICK r \in Rows : Writes(c, r) /\ conn'[q].dirty = conn[q].dirty \cup {r}
      BY <1>7, <2>2, WroteRow
    <3>2. ledger' = ledger /\ Seen(q)' = Seen(q) \cup {r}
      BY <1>7, <3>1 DEF Wrote, Seen
    <3>3. Mids(q, ledger)' = Mids(q, ledger)
      BY <1>1, <3>2 DEF Mids, Confirmed
    <3>4. \A d \in Calls : /\ Take(d) = r => d = c /\ pc[c] = "insert"
                           /\ Undo(d) \in Seen(q) => Undo(d) \in Seen(q)'
      BY <3>1, <3>2 DEF Writes, Take, Undo
    <3>5. Mids(q, Seen(q))' \in SUBSET (Mids(q, Seen(q)) \cup {c})
      BY <1>1, <3>2, <3>4 DEF Mids, Confirmed
    <3>6. c \in Mids(q, Seen(q))' /\ c \notin Mids(q, Seen(q))
            => pc[c] = "insert" /\ entry[c] = "middleware"
      BY <1>1, <3>2, <3>4 DEF Mids, Confirmed
    <3>. QED  BY <2>2, <3>3, <3>5, <3>6
  <2>. QED  BY <2>1, <2>2
<1>8. ASSUME NEW c \in Calls, Committed(c)
      PROVE  /\ Mids(q, ledger)' \in {Mids(q, ledger), Mids(q, Seen(q))}
             /\ Mids(q, Seen(q))' = Mids(q, Seen(q))
  <2>. DEFINE p == Home[c]
  <2>1. /\ ledger' = Seen(p) /\ p \in Procs /\ conn'[p].dirty = {}
        /\ \A x \in Procs \ {p} : conn'[x] = conn[x]
    BY <1>8, CallsAssumption, ClosedRow DEF Committed, CommitRows, Seen
  <2>2. CASE p = q
    <3>1. Seen(q)' = Seen(q) /\ ledger' = Seen(q)
      BY <2>1, <2>2 DEF Seen
    <3>. QED  BY <1>1, <3>1 DEF Mids, Confirmed
  <2>3. CASE p # q
    <3>1. Seen(q)' = Seen(q) \cup conn[p].dirty /\ ledger' = ledger \cup conn[p].dirty
      BY <2>1, <2>3 DEF Seen
    <3>2. Seen(q) \in SUBSET Rows
      BY <1>3 DEF Seen
    <3>3. /\ Mids(q, Seen(q) \cup conn[p].dirty) = Mids(q, Seen(q))
          /\ Mids(q, ledger \cup conn[p].dirty) = Mids(q, ledger)
      BY <1>2, <1>3, <2>1, <2>3, <3>2
    <3>. QED  BY <1>1, <3>1, <3>3 DEF Mids, Confirmed
  <2>. QED  BY <2>2, <2>3
<1>9. ASSUME NEW p \in Procs, Restarted(p)
      PROVE  /\ Mids(q, ledger)' = Mids(q, ledger)
             /\ \/ Mids(q, Seen(q))' = Mids(q, Seen(q))
                \/ /\ \A c \in Calls : Home[c] = q => ~HoldsPayment(c)'
                   /\ Mids(q, Seen(q))' = Mids(q, ledger)
  <2>1. /\ ledger' = ledger /\ conn'[p].dirty = {}
        /\ \A x \in Procs \ {p} : conn'[x] = conn[x]
    BY <1>9, ClosedRow DEF Restarted
  <2>2. CASE p # q
    BY <1>4, <2>1, <2>2
  <2>3. CASE p = q
    <3>1. Seen(q)' = ledger
      BY <2>1, <2>3 DEF Seen
    <3>2. Mids(q, Seen(q))' = Mids(q, ledger) /\ Mids(q, ledger)' = Mids(q, ledger)
      BY <1>1, <2>1, <3>1 DEF Mids, Confirmed
    <3>3. \A c \in Calls : Home[c] = q => pc'[c] \in Ends \cup {"idle"}
      BY <1>1, <1>9, <2>3 DEF Restarted, Ends
    <3>4. \A c \in Calls : Home[c] = q => ~HoldsPayment(c)'
      BY <3>3 DEF HoldsPayment, CheckSteps, DeductSteps, Ends
    <3>. QED  BY <3>2, <3>4
  <2>. QED  BY <2>2, <2>3
<1>. QED  BY <1>5, <1>6, <1>7, <1>8, <1>9, StepEffect

\* A call stamps its deduction before anyone can see it.
LEMMA StampsStay ==
  ASSUME IInv, [Next]_vars, NEW q \in Procs, NEW d \in Calls, Take(d) \in Seen(q)
  PROVE  at'[d] = at[d] /\ at[d] \in Nat /\ at[d] <= now /\ now \in Nat
<1>1. at \in [Calls -> 0..now] /\ now \in Nat /\ conn \in [Procs -> ConnType]
  BY DEF IInv, TypeOK, ConnType
<1>2. pc[d] # "insert"
  <2>1. CASE Take(d) \in ledger
    BY <2>1 DEF IInv, RowInv, Unpaid
  <2>2. CASE Take(d) \in conn[q].dirty
    BY <2>2 DEF IInv, ConnInv, Writing, Take, Undo
  <2>. QED  BY <2>1, <2>2 DEF Seen
<1>3. at' = at \/ \E c \in Calls : pc[c] = "insert" /\ at' = [at EXCEPT ![c] = now]
  <2>1. ASSUME NEW c \in Calls, Wrote(c)
        PROVE  at' = at \/ (pc[c] = "insert" /\ at' = [at EXCEPT ![c] = now])
    <3>1. \/ pc[c] = "insert" /\ at' = [at EXCEPT ![c] = now]
          \/ at' = at
      BY <2>1 DEF Wrote
    <3>. QED  BY <3>1
  <2>. QED  BY <2>1, StepEffect DEF Silent, Committed, Cancelled, Restarted, Passed
<1>. QED  BY <1>1, <1>2, <1>3

LEMMA MidsAre ==
  ASSUME NEW q \in Procs
  PROVE  /\ Mids(q, ledger) \in SUBSET Calls /\ Mids(q, Seen(q)) \in SUBSET Calls
         /\ \A d \in Mids(q, ledger) \cup Mids(q, Seen(q)) : Take(d) \in Seen(q)
  BY DEF Mids, Confirmed, Seen

LEMMA StepKeeps ==
  ASSUME IInv, [Next]_vars, NEW q \in Procs
  PROVE  KeepsLimits(at, Mids(q, ledger))' /\ KeepsLimits(at, Mids(q, Seen(q)))'
<1>. DEFINE L == Mids(q, ledger)
            M == Mids(q, Seen(q))
            L1 == Mids(q, ledger)'
            M1 == Mids(q, Seen(q))'
<1>1. /\ L \in SUBSET Calls /\ M \in SUBSET Calls
      /\ \A d \in L \cup M : at'[d] = at[d] /\ at[d] \in Nat /\ at[d] <= now
      /\ KeepsLimits(at, L) /\ KeepsLimits(at, M)
  BY MidsAre, StampsStay DEF IInv
<1>2. L1 \in {L, M}
  BY MidsSteps
<1>. SUFFICES KeepsLimits(at', L1) /\ KeepsLimits(at', M1)
  BY DEF KeepsLimits, Window, DayOf
<1>3. KeepsLimits(at', L) /\ KeepsLimits(at', M)
  <2>. HIDE DEF L, M
  <2>. QED  BY <1>1, FewerKeep
<1>4. CASE M1 \in SUBSET M \/ M1 = L
  <2>1. \A d \in M1 : at'[d] = at[d]
    BY <1>1, <1>4
  <2>. HIDE DEF L, M, L1, M1
  <2>. QED  BY <1>1, <1>2, <1>3, <1>4, <2>1, FewerKeep
<1>5. ASSUME NEW c \in Calls,
             Wrote(c), pc[c] = "insert", Home[c] = q, entry[c] = "middleware",
             M1 \in SUBSET (M \cup {c})
      PROVE  KeepsLimits(at', M1)
  <2>1. at' = [at EXCEPT ![c] = now] /\ ~Outdated(q)
    BY <1>5, WroteRow DEF Wrote
  <2>2. c \notin M
    <3>1. Take(c) \notin ledger
      BY <1>5 DEF IInv, RowInv, Unpaid
    <3>2. Take(c) \notin conn[q].dirty
      BY <1>5 DEF IInv, ConnInv, Writing, Take, Undo
    <3>. QED  BY <3>1, <3>2 DEF Mids, Confirmed, Seen
  <2>3. Past(c, {"spend", "count", "daily"}) /\ Past(c, {"spend", "count"}) /\ Past(c, {"spend"})
    BY <1>5 DEF Past, HoldsPayment, DeductSteps
  <2>4. /\ Cost(Window(at, M, now)) + Amount[c] <= MinuteLimit
        /\ Cardinality(Window(at, M, now)) + 1 <= MinuteCount
        /\ Cost(DayOf(at, M, now \div Day)) + Amount[c] <= DailyLimit
    <3>1. Checked(c)
      BY DEF IInv
    <3>. QED  BY <1>5, <2>1, <2>3, <3>1 DEF Checked
  <2>5. at \in [Calls -> Nat] /\ now \in Nat
    BY DEF IInv, TypeOK
  <2>6. \A d \in M : at[d] <= now
    BY <1>1
  <2>7. c \in Calls \ M
    BY <2>2
  <2>. HIDE DEF M, M1
  <2>8. KeepsLimits(at', M \cup {c})
    BY <1>1, <2>1, <2>4, <2>5, <2>6, <2>7, OneMoreKeeps
  <2>9. M \cup {c} \in SUBSET Calls
    BY <1>1
  <2>. QED  BY <1>5, <2>8, <2>9, FewerKeep
<1>6. ASSUME ~(M1 \in SUBSET M \/ M1 = L) PROVE KeepsLimits(at', L1) /\ KeepsLimits(at', M1)
  <2>1. KeepsLimits(at', L1)
    <3>. HIDE DEF L, M, L1
    <3>. QED  BY <1>2, <1>3
  <2>2. \E c \in Calls : /\ Wrote(c) /\ pc[c] = "insert" /\ Home[c] = q /\ entry[c] = "middleware"
                        /\ M1 \in SUBSET (M \cup {c})
    BY <1>6, MidsSteps
  <2>. QED  BY <1>5, <2>1, <2>2
<1>. QED  BY <1>4, <1>6

\* A view that is old stays old as long as the process has calls at work.
LEMMA OldStaysOld ==
  ASSUME IInv, [Next]_vars, NEW q \in Procs, ~Outdated(q)', Outdated(q)
  PROVE  \A c \in Calls : Home[c] = q => pc'[c] \in Ends \cup {"idle"}
<1>1. conn \in [Procs -> ConnType]
      /\ pc \in [Calls -> CheckSteps \cup DeductSteps \cup OtherSteps \cup Ends]
  BY DEF IInv, TypeOK, ConnType
<1>2. ASSUME NEW c \in Calls, Silent(c) \/ Cancelled(c) PROVE FALSE
  BY <1>2 DEF Silent, Looked, Cancelled, Outdated
<1>3. ASSUME NEW c \in Calls, Wrote(c) PROVE FALSE
  <2>1. /\ ledger' = ledger /\ ~Outdated(Home[c])
        /\ \A p \in Procs \ {Home[c]} : conn'[p] = conn[p]
    BY <1>3, WroteRow DEF Wrote
  <2>. QED  BY <2>1 DEF Outdated
<1>4. ASSUME NEW c \in Calls, Committed(c) PROVE FALSE
  <2>. DEFINE p == Home[c]
  <2>1. /\ ledger' = Seen(p) /\ p \in Procs
        /\ \A x \in Procs \ {p} : conn'[x] = conn[x]
    BY <1>4, CallsAssumption, ClosedRow DEF Committed, CommitRows, Seen
  <2>2. conn[p].dirty # {}
    BY <1>4 DEF IInv, RowInv, Committed
  <2>3. ~Outdated(p)
    BY <2>1, <2>2 DEF IInv, TypeOK
  <2>4. PICK S \in SUBSET ledger : conn[q].frozen = {S}
    BY DEF IInv, ConnInv, Outdated
  <2>5. S # ledger
    BY <2>4 DEF Outdated
  <2>6. conn'[q].frozen = {S} /\ S # ledger'
    BY <2>1, <2>3, <2>4, <2>5 DEF Seen
  <2>. QED  BY <2>6 DEF Outdated
<1>5. ASSUME NEW p \in Procs, Restarted(p)
      PROVE  \A c \in Calls : Home[c] = q => pc'[c] \in Ends \cup {"idle"}
  <2>1. /\ ledger' = ledger /\ \A x \in Procs \ {p} : conn'[x] = conn[x]
    BY <1>5, ClosedRow DEF Restarted
  <2>2. p = q
    BY <2>1 DEF Outdated
  <2>. QED  BY <1>1, <1>5, <2>2 DEF Restarted, Ends
<1>6. CASE Passed
  BY <1>6 DEF Passed, Outdated
<1>. QED  BY <1>2, <1>3, <1>4, <1>5, <1>6, StepEffect

\* A limit that a call has behind it, it has tested against the process's own
\* deductions at least.
LEMMA TestsPass ==
  ASSUME IInv, [Next]_vars, NEW d \in Calls, ~Outdated(Home[d])
  PROVE  LET M == Mids(Home[d], Seen(Home[d]))
         IN /\ Past(d, {"spend"})' => Cost(Window(at, M, now)) + Amount[d] <= MinuteLimit
            /\ Past(d, {"spend", "count"})' => Cardinality(Window(at, M, now)) + 1 <= MinuteCount
            /\ Past(d, {"spend", "count", "daily"})' =>
                 Cost(DayOf(at, M, now \div Day)) + Amount[d] <= DailyLimit
<1>. DEFINE q == Home[d]
            M == Mids(q, Seen(q))
            Spend == Cost(Window(at, M, now)) + Amount[d] <= MinuteLimit
            Count == Cardinality(Window(at, M, now)) + 1 <= MinuteCount
            Daily == Cost(DayOf(at, M, now \div Day)) + Amount[d] <= DailyLimit
<1>1. /\ q \in Procs /\ entry' = entry /\ now \in Nat /\ at \in [Calls -> 0..now]
      /\ pc \in [Calls -> CheckSteps \cup DeductSteps \cup OtherSteps \cup Ends]
      /\ pc[d] \in {"sync", "commit_top"} => entry[d] # "middleware"
  BY CallsAssumption, StepEffect DEF IInv, TypeOK, RowInv
<1>2. /\ Past(d, {"spend"}) => Spend
      /\ Past(d, {"spend", "count"}) => Count
      /\ Past(d, {"spend", "count", "daily"}) => Daily
  BY DEF IInv, Checked
<1>3. View(q) = Seen(q) /\ M \in SUBSET Confirmed(View(q)) /\ Confirmed(View(q)) \in SUBSET Calls
  <2>1. View(q) = Seen(q)
    BY <1>1, ViewIs DEF IInv
  <2>. QED  BY <2>1 DEF Mids, Confirmed
<1>4. /\ CalcMinuteSpend(View(q)) + Amount[d] <= MinuteLimit => Spend
      /\ CalcMinuteCount(View(q)) + 1 <= MinuteCount => Count
  <2>1. RecentMinute(View(q)) \in SUBSET Calls
        /\ Window(at, M, now) \in SUBSET RecentMinute(View(q))
    BY <1>1, <1>3, ClockAssumption DEF RecentMinute, Window
  <2>2. Window(at, M, now) \in SUBSET Calls
    BY <2>1
  <2>. HIDE DEF M
  <2>. QED  BY <2>1, <2>2, CostSubset, CostNat, LimitsAssumption, CallsAssumption
            DEF CalcMinuteSpend, CalcMinuteCount
<1>5. CalcDailySpend(View(q)) + Amount[d] <= DailyLimit => Daily
  <2>. DEFINE A == {c \in Confirmed(View(q)) : at[c] >= (now \div Day) * Day}
              B == DayOf(at, M, now \div Day)
  <2>1. A \in SUBSET Calls /\ B \in SUBSET A
    <3>1. \A c \in M : at[c] \in Nat /\ at[c] <= now
      BY <1>1, <1>3
    <3>2. \A c \in M : at[c] \div Day = now \div Day => at[c] >= (now \div Day) * Day
      BY <1>1, <3>1, TodayStarts
    <3>. QED  BY <1>3, <3>2 DEF DayOf
  <2>2. CalcDailySpend(View(q)) = Cost(A)
    BY DEF CalcDailySpend
  <2>3. B \in SUBSET Calls
    BY <2>1
  <2>. HIDE DEF A, B
  <2>4. Cost(B) <= Cost(A) /\ Cost(A) \in Nat /\ Cost(B) \in Nat /\ Amount[d] \in Nat
    BY <2>1, <2>3, CostSubset, CostNat, CallsAssumption
  <2>5. Cost(A) + Amount[d] <= DailyLimit => Cost(B) + Amount[d] <= DailyLimit
    BY <2>4, LimitsAssumption
  <2>. QED  BY <2>2, <2>5 DEF B
<1>6. ASSUME pc'[d] = pc[d]
      PROVE  \A places : Past(d, places)' => Past(d, places)
  BY <1>1, <1>6 DEF Past, HoldsPayment
<1>7. CASE pc'[d] = pc[d]
  <2>. HIDE DEF Spend, Count, Daily, M
  <2>1. (Past(d, {"spend"})' => Spend) /\ (Past(d, {"spend", "count"})' => Count)
        /\ (Past(d, {"spend", "count", "daily"})' => Daily)
    BY <1>2, <1>6, <1>7
  <2>. QED  BY <2>1 DEF Spend, Count, Daily, M
<1>8. CASE pc'[d] # pc[d]
  <2>1. \/ Silent(d)
        \/ pc'[d] \in {"commit", "commit_undo", "commit_top", "done", "pay", "failed",
                       "cancelled", "killed"}
        \/ pc'[d] = "deduct" /\ entry[d] # "middleware"
    <3>1. ASSUME NEW c \in Calls, Moved(c) PROVE c = d
      BY <1>1, <1>8, <3>1 DEF Moved
    <3>2. ASSUME NEW c \in Calls, Silent(c) PROVE Silent(d)
      BY <3>1, <3>2 DEF Silent
    <3>3. ASSUME NEW c \in Calls, Wrote(c)
          PROVE  pc'[d] \in {"commit", "commit_undo", "commit_top"}
      BY <3>1, <3>3 DEF Wrote
    <3>4. ASSUME NEW c \in Calls, Committed(c)
          PROVE  pc'[d] \in {"done", "pay", "failed"}
                 \/ (pc'[d] = "deduct" /\ entry[d] # "middleware")
      BY <1>1, <3>1, <3>4 DEF Committed
    <3>5. ASSUME NEW c \in Calls, Cancelled(c) PROVE pc'[d] = "cancelled"
      BY <1>1, <1>8, <3>5 DEF Cancelled
    <3>6. ASSUME NEW p \in Procs, Restarted(p) PROVE pc'[d] = "killed"
      BY <1>1, <1>8, <3>6 DEF Restarted
    <3>. QED  BY <1>8, <3>2, <3>3, <3>4, <3>5, <3>6, StepEffect DEF Passed
  <2>2. CASE ~Silent(d)
    <3>1. ~Past(d, {"spend"})' /\ ~Past(d, {"spend", "count"})'
          /\ ~Past(d, {"spend", "count", "daily"})'
      BY <1>1, <2>1, <2>2 DEF Past, HoldsPayment, CheckSteps, DeductSteps
    <3>. QED  BY <3>1
  <2>3. CASE Silent(d)
    <3>1. /\ Past(d, {"spend"})' => Past(d, {"spend"}) \/ pc'[d] = "count"
          /\ pc'[d] = "count" => CalcMinuteSpend(View(q)) + Amount[d] <= MinuteLimit
      BY <1>1, <2>3 DEF Silent, SilentMove, Past, HoldsPayment, CheckSteps, DeductSteps, Proc
    <3>2. /\ Past(d, {"spend", "count"})' => Past(d, {"spend", "count"}) \/ pc'[d] = "daily"
          /\ pc'[d] = "daily" => CalcMinuteCount(View(q)) + 1 <= MinuteCount
      BY <1>1, <2>3 DEF Silent, SilentMove, Past, HoldsPayment, CheckSteps, DeductSteps, Proc
    <3>3. /\ Past(d, {"spend", "count", "daily"})' =>
               Past(d, {"spend", "count", "daily"}) \/ pc'[d] = "balance"
          /\ pc'[d] = "balance" => CalcDailySpend(View(q)) + Amount[d] <= DailyLimit
      BY <1>1, <2>3 DEF Silent, SilentMove, Past, HoldsPayment, CheckSteps, DeductSteps, Proc
    <3>4. (Past(d, {"spend"})' => Spend) /\ (Past(d, {"spend", "count"})' => Count)
          /\ (Past(d, {"spend", "count", "daily"})' => Daily)
      <4>. HIDE DEF Spend, Count, Daily, q
      <4>. QED  BY <1>2, <1>4, <1>5, <3>1, <3>2, <3>3
    <3>. QED  BY <3>4
  <2>. QED  BY <2>2, <2>3
<1>. QED  BY <1>7, <1>8

LEMMA StepChecked ==
  ASSUME IInv, [Next]_vars, NEW d \in Calls
  PROVE  Checked(d)'
<1>. DEFINE q == Home[d]
            M == Mids(q, Seen(q))
            M1 == Mids(q, Seen(q))'
            W == Window(at, M, now)
            W1 == Window(at', M1, now')
            D == DayOf(at, M, now \div Day)
            D1 == DayOf(at', M1, now' \div Day)
<1>. SUFFICES ASSUME ~Outdated(q)', Past(d, {"spend"})'
              PROVE  /\ Cost(W1) + Amount[d] <= MinuteLimit
                     /\ Past(d, {"spend", "count"})' => Cardinality(W1) + 1 <= MinuteCount
                     /\ Past(d, {"spend", "count", "daily"})' => Cost(D1) + Amount[d] <= DailyLimit
  <2>1. \/ Past(d, {"spend"})'
        \/ ~Past(d, {"spend"})' /\ ~Past(d, {"spend", "count"})'
           /\ ~Past(d, {"spend", "count", "daily"})'
    BY DEF Past
  <2>. QED  BY <2>1 DEF Checked, Window, DayOf
<1>1. /\ q \in Procs /\ entry' = entry
      /\ pc \in [Calls -> CheckSteps \cup DeductSteps \cup OtherSteps \cup Ends]
  BY CallsAssumption, StepEffect DEF IInv, TypeOK
<1>2. HoldsPayment(d)' /\ pc'[d] # "commit"
  BY DEF Past
<1>3. ~Outdated(q)
  <2>1. pc'[d] \notin Ends \cup {"idle"}
    BY <1>2 DEF HoldsPayment, CheckSteps, DeductSteps, Ends
  <2>. QED  BY <1>1, <2>1, OldStaysOld
<1>4. M1 \in SUBSET M
  <2>1. ASSUME NEW c \in Calls, Wrote(c), pc[c] = "insert", Home[c] = q, entry[c] = "middleware"
        PROVE  FALSE
    <3>1. c # d
      BY <1>2, <2>1 DEF Wrote
    <3>2. HoldsPayment(c) /\ HoldsPayment(d)
      BY <1>1, <1>2, <2>1, <3>1 DEF HoldsPayment, Wrote, Moved, DeductSteps
    <3>. QED  BY <2>1, <3>1, <3>2 DEF IInv, LocksExclude
  <2>. QED  BY <1>1, <1>2, <2>1, MidsSteps
<1>5. /\ M \in SUBSET Calls
      /\ \A e \in M : at'[e] = at[e] /\ at[e] \in Nat /\ at[e] <= now
      /\ now \in Nat
  BY <1>1, MidsAre, StampsStay DEF IInv, TypeOK
<1>6. now' \in {now, now + 1}
  BY StepEffect DEF Silent, Wrote, Committed, Cancelled, Restarted, Passed
<1>7. W1 \in SUBSET W /\ W \in SUBSET Calls /\ W1 \in SUBSET Calls
  BY <1>4, <1>5, <1>6, ClockAssumption DEF Window
<1>8. D1 \in SUBSET D /\ D \in SUBSET Calls /\ D1 \in SUBSET Calls
  <2>1. ASSUME NEW e \in D1 PROVE e \in D
    <3>1. e \in M /\ at[e] \div Day = now' \div Day
      BY <1>4, <1>5 DEF DayOf
    <3>2. at[e] \div Day <= now \div Day /\ now \div Day <= now' \div Day
      BY <1>5, <1>6, <3>1, DayMonotone
    <3>3. now \div Day \in Nat /\ now' \div Day \in Nat
      BY <1>5, <1>6, DayBounds
    <3>. QED  BY <3>1, <3>2, <3>3 DEF DayOf
  <2>. QED  BY <1>4, <1>5, <2>1 DEF DayOf
<1>9. /\ Cost(W) + Amount[d] <= MinuteLimit
      /\ Past(d, {"spend", "count"})' => Cardinality(W) + 1 <= MinuteCount
      /\ Past(d, {"spend", "count", "daily"})' => Cost(D) + Amount[d] <= DailyLimit
  BY <1>3, TestsPass
<1>. HIDE DEF W, W1, D, D1
<1>10. /\ Cost(W1) <= Cost(W) /\ Cardinality(W1) <= Cardinality(W) /\ Cost(D1) <= Cost(D)
       /\ Cost(W) \in Nat /\ Cost(W1) \in Nat /\ Cost(D) \in Nat /\ Cost(D1) \in Nat
       /\ Cardinality(W) \in Nat /\ Cardinality(W1) \in Nat /\ Amount[d] \in Nat
  BY <1>7, <1>8, CostSubset, CostNat, CallsAssumption
<1>. QED  BY <1>9, <1>10, LimitsAssumption

-----------------------------------------------------------------------------
(* The limits of the file.                                                 *)

\* A call that will be committed tests what is committed: its process has no
\* other rows and no old view.
LEMMA CleanSeesLedger ==
  ASSUME IInv, NEW c \in Calls, Clean(Home[c]),
         pc[c] = "limit" \/ (pc[c] = "deduct" /\ WalletLockFree(c))
  PROVE  View(Home[c]) = ledger
<1>. DEFINE p == Home[c]
<1>1. p \in Procs /\ ConnInv(p) /\ conn[p].dirty \in SUBSET Rows
  BY CallsAssumption DEF IInv, TypeOK
<1>2. \A d \in Calls \ {c} : Home[d] = p => ~HoldsWallet(d)
  BY DEF IInv, LocksExclude, WalletLockFree, Colleagues, HoldsWallet, DeductSteps
<1>3. conn[p].dirty = {}
  <2>1. ASSUME NEW r \in conn[p].dirty PROVE FALSE
    <3>1. r.call \in Calls /\ Home[r.call] = p /\ Writing(r.call, r) /\ pc[r.call] # "cancelled"
      BY <1>1, <2>1 DEF ConnInv, Rows, Clean, StrayIn
    <3>2. HoldsWallet(r.call)
      BY <3>1 DEF Writing, HoldsWallet, DeductSteps
    <3>3. r.call # c
      BY <3>1 DEF Writing
    <3>. QED  BY <1>2, <3>1, <3>2, <3>3
  <2>. QED  BY <2>1
<1>4. View(p) = Seen(p)
  BY <1>1, ViewIs DEF IInv, Clean
<1>. QED  BY <1>3, <1>4 DEF Seen

\* Where a deduction that may be committed comes from.
LEMMA ApprovedFrom ==
  ASSUME IInv, [Next]_vars, ~StrayIn(ledger)', NEW x \in Approved'
  PROVE  /\ x \in Calls /\ Clean(Home[x])
         /\ \/ pc'[x] = pc[x] /\ pc[x] \in DeductSteps
            \/ Silent(x) /\ pc[x] = "deduct" /\ pc'[x] = "limit"
            \/ Silent(x) /\ pc[x] = "limit" /\ pc'[x] = "insert"
            \/ Wrote(x) /\ pc[x] = "insert" /\ pc'[x] = "commit"
<1>. DEFINE q == Home[x]
<1>1. /\ x \in Calls /\ pc'[x] \in DeductSteps /\ Clean(q)' /\ q \in Procs
      /\ pc \in [Calls -> CheckSteps \cup DeductSteps \cup OtherSteps \cup Ends]
      /\ conn \in [Procs -> ConnType]
  BY CallsAssumption DEF Approved, IInv, TypeOK, ConnType
<1>2. \/ pc'[x] = pc[x] /\ pc[x] \in DeductSteps
      \/ Silent(x) /\ pc[x] = "deduct" /\ pc'[x] = "limit"
      \/ Silent(x) /\ pc[x] = "limit" /\ pc'[x] = "insert"
      \/ Wrote(x) /\ pc[x] = "insert" /\ pc'[x] = "commit"
  <2>1. ASSUME NEW c \in Calls, Moved(c), c # x PROVE pc'[x] = pc[x]
    BY <1>1, <2>1 DEF Moved
  <2>2. CASE Silent(x)
    BY <1>1, <2>2 DEF Silent, SilentMove, DeductSteps
  <2>3. CASE Wrote(x)
    BY <1>1, <2>3 DEF Wrote, DeductSteps
  <2>4. CASE Committed(x)
    BY <1>1, <2>4 DEF Committed, DeductSteps
  <2>5. ASSUME NEW c \in Calls, c # x, Silent(c) \/ Wrote(c) \/ Committed(c) PROVE pc'[x] = pc[x]
    BY <2>1, <2>5 DEF Silent, Wrote, Committed
  <2>6. ASSUME NEW c \in Calls, Cancelled(c) PROVE pc'[x] = pc[x]
    BY <1>1, <2>6 DEF Cancelled, DeductSteps
  <2>7. ASSUME NEW p \in Procs, Restarted(p) PROVE pc'[x] = pc[x]
    BY <1>1, <2>7 DEF Restarted, DeductSteps
  <2>8. CASE Passed
    BY <1>1, <2>8 DEF Passed
  <2>. QED  BY <1>1, <2>2, <2>3, <2>4, <2>5, <2>6, <2>7, <2>8, StepEffect
<1>3. ~Outdated(q)
  <2>1. pc'[x] \notin Ends \cup {"idle"}
    BY <1>1 DEF DeductSteps, Ends
  <2>. QED  BY <1>1, <2>1, OldStaysOld DEF Clean
<1>4. ASSUME NEW r \in conn[q].dirty, pc[r.call] = "cancelled" PROVE FALSE
  <2>1. r.call \in Calls /\ pc'[r.call] = "cancelled"
    BY <1>1, <1>4, ConnSteps DEF ConnType, Rows, Ends
  <2>2. r \notin conn'[q].dirty /\ r \notin ledger'
    BY <1>1, <2>1 DEF Clean, StrayIn
  <2>3. ASSUME NEW c \in Calls, Silent(c) \/ Cancelled(c) PROVE FALSE
    BY <1>1, <1>4, <2>2, <2>3 DEF Silent, Looked, Cancelled
  <2>4. ASSUME NEW c \in Calls, Wrote(c) PROVE FALSE
    BY <1>1, <1>4, <2>2, <2>4, WroteRow
  <2>5. ASSUME NEW c \in Calls, Committed(c) PROVE FALSE
    <3>1. Home[c] \in Procs /\ ledger' = Seen(Home[c])
          /\ \A p \in Procs \ {Home[c]} : conn'[p] = conn[p]
      BY <2>5, CallsAssumption, ClosedRow DEF Committed, CommitRows, Seen
    <3>. QED  BY <1>1, <1>4, <2>2, <3>1 DEF Seen
  <2>6. ASSUME NEW p \in Procs, Restarted(p) PROVE FALSE
    <3>1. p # q
      BY <1>1, <2>6 DEF Restarted, DeductSteps, Ends
    <3>. QED  BY <1>1, <1>4, <2>2, <2>6, <3>1, ClosedRow DEF Restarted
  <2>7. CASE Passed
    BY <1>4, <2>2, <2>7 DEF Passed
  <2>. QED  BY <2>3, <2>4, <2>5, <2>6, <2>7, StepEffect
<1>. QED  BY <1>1, <1>2, <1>3, <1>4 DEF Clean, StrayIn

\* A deduction is committed by the call that made it.
LEMMA ConfirmedFrom ==
  ASSUME IInv, [Next]_vars, ~StrayIn(ledger)', NEW x \in Confirmed(ledger)'
  PROVE  /\ x \in Calls /\ at'[x] = at[x]
         /\ x \in Confirmed(ledger) \/ (x \in Approved /\ pc[x] = "commit")
<1>1. /\ x \in Calls /\ Take(x) \in ledger' /\ Undo(x) \notin ledger' /\ ledger \subseteq ledger'
      /\ conn \in [Procs -> ConnType]
      /\ pc \in [Calls -> CheckSteps \cup DeductSteps \cup OtherSteps \cup Ends]
  BY ConnSteps DEF Confirmed, IInv, TypeOK, ConnType
<1>2. CASE Take(x) \in ledger
  <2>1. Home[x] \in Procs /\ Take(x) \in Seen(Home[x])
    BY <1>1, <1>2, CallsAssumption DEF Seen
  <2>. QED  BY <1>1, <1>2, <2>1, StampsStay DEF Confirmed
<1>3. CASE Take(x) \notin ledger
  <2>1. PICK c \in Calls : Committed(c)
    BY <1>1, <1>3, StepEffect DEF Silent, Wrote, Cancelled, Restarted, Passed
  <2>. DEFINE p == Home[c]
  <2>2. p \in Procs /\ ledger' = Seen(p)
    BY <2>1, CallsAssumption DEF Committed, CommitRows, Seen
  <2>3. Take(x) \in conn[p].dirty
    BY <1>1, <1>3, <2>2 DEF Seen
  <2>4. \A r \in conn[p].dirty : r \in ledger' /\ r.call \in Calls
    BY <1>1, <2>2 DEF Seen, ConnType, Rows
  <2>5. ~StrayIn(conn[p].dirty)
    <3>1. ASSUME NEW r \in conn[p].dirty, pc[r.call] = "cancelled" PROVE FALSE
      <4>1. pc'[r.call] = "cancelled"
        BY <1>1, <2>4, <3>1, ConnSteps DEF Ends
      <4>. QED  BY <2>4, <4>1 DEF StrayIn
    <3>. QED  BY <3>1 DEF StrayIn
  <2>6. Take(x).call = x /\ Take(x).kind = "take" /\ \A d \in Calls : Take(x) # Undo(d)
    BY <1>1, RowsAreRows DEF Take
  <2>7. Home[x] = p /\ Writing(x, Take(x)) /\ pc[x] # "cancelled"
    <3>1. ConnInv(p)
      BY <2>2 DEF IInv
    <3>. QED  BY <2>3, <2>5, <2>6, <3>1 DEF ConnInv, StrayIn
  <2>8. pc[x] = "commit"
    BY <1>1, <2>6, <2>7 DEF Writing
  <2>9. ~Outdated(p)
    BY <2>2, <2>3 DEF IInv, TypeOK
  <2>10. x \in Approved
    BY <1>1, <2>5, <2>7, <2>8, <2>9 DEF Approved, Clean, DeductSteps
  <2>11. at'[x] = at[x]
    BY <1>1, <2>2, <2>3, StampsStay DEF Seen
  <2>. QED  BY <1>1, <2>8, <2>10, <2>11
<1>. QED  BY <1>2, <1>3

\* Of each process, one call at most is deducting.
LEMMA OneDeducts ==
  ASSUME IInv
  PROVE  \A c, d \in Calls :
           pc[c] \in DeductSteps /\ pc[d] \in DeductSteps /\ Home[c] = Home[d] => c = d
  BY DEF IInv, LocksExclude, HoldsWallet

LEMMA StepBalance ==
  ASSUME IInv, [Next]_vars, ~StrayIn(ledger)', ~StrayIn(ledger)
  PROVE  BalanceKept'
<1>. DEFINE C == Confirmed(ledger)
            A == Approved
            D == (Confirmed(ledger) \cup Approved)'
<1>1. /\ Deposits(ledger) \in Nat /\ Deposits(ledger') \in Nat
      /\ Deposits(ledger) <= Deposits(ledger')
  BY ConnSteps, StepConn, StepType, DepositsGrow DEF TypeOK
<1>2. C \in SUBSET Calls /\ A \in SUBSET Calls /\ C \cup A \in SUBSET Calls /\ D \in SUBSET Calls
  BY DEF Confirmed, Approved
<1>3. ASSUME NEW x \in D, x \notin C \cup A
      PROVE  x \in Calls /\ Silent(x) /\ pc[x] = "deduct" /\ pc'[x] = "limit" /\ Clean(Home[x])
  <2>1. x \in Approved'
    BY <1>3, ConfirmedFrom
  <2>. QED  BY <1>3, <2>1, ApprovedFrom DEF Approved, DeductSteps
<1>4. Cost(D) <= Deposits(ledger') + Slack => BalanceKept'
  BY DEF BalanceKept, Deposits, Tops, Cost
<1>. HIDE DEF D
<1>5. CASE D \in SUBSET (C \cup A)
  <2>1. Cost(C \cup A) <= Deposits(ledger) + Slack
    BY DEF IInv, Overspend, BalanceKept
  <2>. HIDE DEF C, A
  <2>2. Cost(D) <= Cost(C \cup A) /\ Cost(D) \in Nat /\ Cost(C \cup A) \in Nat
    BY <1>2, <1>5, CostSubset, CostNat
  <2>. QED  BY <1>1, <1>4, <2>1, <2>2, SlackNat
<1>6. CASE ~(D \in SUBSET (C \cup A))
  <2>1. PICK c \in D : c \notin C \cup A
    BY <1>6
  <2>2. c \in Calls /\ Silent(c) /\ pc[c] = "deduct" /\ pc'[c] = "limit" /\ Clean(Home[c])
    BY <1>3, <2>1
  <2>3. \A x \in D : x \in C \cup A \cup {c}
    <3>1. ASSUME NEW x \in D, x \notin C \cup A PROVE x = c
      <4>1. x \in Calls /\ pc[x] = "deduct" /\ pc'[x] = "limit"
        BY <1>3, <3>1
      <4>2. pc \in [Calls -> CheckSteps \cup DeductSteps \cup OtherSteps \cup Ends]
        BY DEF IInv, TypeOK
      <4>. QED  BY <2>2, <4>1, <4>2 DEF Silent, Moved
    <3>. QED  BY <3>1
  <2>4. CalcBalance(ledger) >= Amount[c] /\ WalletLockFree(c)
    <3>1. WalletLockFree(c) /\ CalcBalance(View(Home[c])) >= Amount[c]
      BY <2>2 DEF Silent, SilentMove, Proc
    <3>. QED  BY <2>2, <3>1, CleanSeesLedger
  <2>5. Cost(C) + Amount[c] <= Deposits(ledger)
    BY <1>1, <1>2, <2>2, <2>4, CostNat, CallsAssumption DEF CalcBalance
  <2>6. /\ \A x \in A : Home[x] # Home[c]
        /\ \A x, y \in A : Home[x] = Home[y] => x = y
    <3>1. \A x \in A : x \in Calls /\ pc[x] \in DeductSteps
      BY DEF Approved
    <3>2. \A x \in A : Home[x] # Home[c]
      BY <2>2, <2>4, <3>1 DEF WalletLockFree, Colleagues, DeductSteps
    <3>. QED  BY <3>1, <3>2, OneDeducts
  <2>. HIDE DEF C, A
  <2>7. D \in SUBSET (C \cup A \cup {c})
    BY <2>3
  <2>8. Deposits(ledger) \in Int
    BY <1>1
  <2>9. Cost(D) <= Deposits(ledger) + Slack
    BY <1>2, <2>2, <2>5, <2>6, <2>7, <2>8, OneJoins
  <2>10. Cost(D) \in Nat
    BY <1>2, CostNat
  <2>. QED  BY <1>1, <1>4, <2>9, <2>10, SlackNat
<1>. QED  BY <1>5, <1>6

\* What counts for a day: what did already, or what has just been tested, or
\* what was tested the day before and will be inserted today.
LEMMA CountedFrom ==
  ASSUME IInv, [Next]_vars, ~StrayIn(ledger)', NEW d \in Int, NEW x \in Counted(d)'
  PROVE  \/ x \in Counted(d)
         \/ /\ x \in Calls /\ Silent(x) /\ pc[x] = "limit" /\ pc'[x] = "insert"
            /\ Clean(Home[x]) /\ d = now \div Day /\ now' = now
         \/ x \in Limited /\ pc[x] = "insert" /\ d = now' \div Day /\ now' # now
<1>1. /\ now \in Nat /\ at \in [Calls -> 0..now]
      /\ pc \in [Calls -> CheckSteps \cup DeductSteps \cup OtherSteps \cup Ends]
  BY DEF IInv, TypeOK
<1>2. CASE x \in DayOf(at, Confirmed(ledger), d)'
  <2>1. x \in Confirmed(ledger)' /\ at'[x] \div Day = d
    BY <1>2 DEF DayOf
  <2>2. at'[x] = at[x] /\ (x \in Confirmed(ledger) \/ (x \in Approved /\ pc[x] = "commit"))
    BY <2>1, ConfirmedFrom
  <2>. QED  BY <2>1, <2>2 DEF Counted, DayOf, Limited, DayNow
<1>3. CASE x \in Limited' /\ DayNow(x)' = d
  <2>1. x \in Approved' /\ pc'[x] # "limit"
    BY <1>3 DEF Limited
  <2>2. /\ x \in Calls /\ Clean(Home[x])
        /\ \/ pc'[x] = pc[x] /\ pc[x] \in DeductSteps
           \/ Silent(x) /\ pc[x] = "deduct" /\ pc'[x] = "limit"
           \/ Silent(x) /\ pc[x] = "limit" /\ pc'[x] = "insert"
           \/ Wrote(x) /\ pc[x] = "insert" /\ pc'[x] = "commit"
    BY <2>1, ApprovedFrom
  <2>3. CASE pc'[x] = pc[x] /\ pc[x] \in DeductSteps
    <3>1. x \in Limited
      BY <2>1, <2>2, <2>3 DEF Limited, Approved
    <3>2. CASE pc[x] = "insert"
      BY <1>3, <2>3, <3>1, <3>2 DEF DayNow, Counted
    <3>3. CASE pc[x] = "commit"
      <4>1. Home[x] \in Procs /\ Take(x) \in Seen(Home[x])
        BY <2>2, <3>3, CallsAssumption DEF IInv, RowInv, Seen
      <4>2. at'[x] = at[x]
        BY <2>2, <4>1, StampsStay
      <4>. QED  BY <1>3, <2>3, <3>1, <3>3, <4>2 DEF DayNow, Counted
    <3>. QED  BY <2>1, <2>3, <3>2, <3>3 DEF DeductSteps
  <2>4. CASE Silent(x) /\ pc[x] = "limit" /\ pc'[x] = "insert"
    BY <1>3, <2>2, <2>4 DEF DayNow, Silent
  <2>5. CASE Wrote(x) /\ pc[x] = "insert" /\ pc'[x] = "commit"
    <3>1. at'[x] = now
      BY <1>1, <2>2, <2>5 DEF Wrote
    <3>2. x \in Limited
      BY <2>2, <2>5 DEF Limited, Approved, DeductSteps
    <3>. QED  BY <1>3, <2>5, <3>1, <3>2 DEF DayNow, Counted
  <2>. QED  BY <2>1, <2>2, <2>3, <2>4, <2>5
<1>. QED  BY <1>2, <1>3 DEF Counted

LEMMA StepDays ==
  ASSUME IInv, [Next]_vars, ~StrayIn(ledger)', ~StrayIn(ledger)
  PROVE  DaysKept' /\ LimitedFit'
<1>1. /\ now \in Nat /\ at \in [Calls -> 0..now] /\ now' \in {now, now + 1}
      /\ pc \in [Calls -> CheckSteps \cup DeductSteps \cup OtherSteps \cup Ends]
      /\ DaysKept /\ LimitedFit
  <2>1. now' \in {now, now + 1}
    BY StepEffect DEF Silent, Wrote, Committed, Cancelled, Restarted, Passed
  <2>. QED  BY <2>1 DEF IInv, TypeOK, Overspend
<1>2. now \div Day \in Nat /\ now' \div Day \in Nat /\ now \div Day <= now' \div Day
  BY <1>1, DayBounds, DayMonotone
\* A call that has just been tested has room for its price.
<1>3. ASSUME NEW c \in Calls, Silent(c), pc[c] = "limit", pc'[c] = "insert", Clean(Home[c])
      PROVE  Cost(DayOf(at, Confirmed(ledger), now \div Day)) + Amount[c] <= DailyLimit
  <2>1. CalcDailySpend(ledger) + Amount[c] <= DailyLimit
    <3>1. CalcDailySpend(View(Home[c])) + Amount[c] <= DailyLimit
      BY <1>3 DEF Silent, SilentMove, Proc
    <3>. QED  BY <1>3, <3>1, CleanSeesLedger
  <2>. DEFINE X == {x \in Confirmed(ledger) : at[x] >= (now \div Day) * Day}
  <2>2. X = DayOf(at, Confirmed(ledger), now \div Day)
    <3>1. \A x \in Confirmed(ledger) : at[x] \in Nat /\ at[x] <= now
      BY <1>1 DEF Confirmed
    <3>2. \A x \in Confirmed(ledger) : at[x] >= (now \div Day) * Day <=> at[x] \div Day = now \div Day
      BY <1>1, <3>1, TodayStarts
    <3>. QED  BY <3>2 DEF DayOf
  <2>3. CalcDailySpend(ledger) = Cost(X)
    BY DEF CalcDailySpend
  <2>. QED  BY <2>1, <2>2, <2>3
<1>4. \A d \in Int : DayOf(at, Confirmed(ledger), d) \in SUBSET Calls /\ Counted(d) \in SUBSET Calls
      /\ Counted(d)' \in SUBSET Calls
  BY DEF Counted, DayOf, Confirmed, Limited, Approved
<1>5. LimitedFit'
  <2>. SUFFICES ASSUME NEW x \in Limited' PROVE Amount[x] <= DailyLimit
    BY DEF LimitedFit
  <2>1. x \in Approved' /\ pc'[x] # "limit"
    BY DEF Limited
  <2>2. /\ x \in Calls /\ Clean(Home[x])
        /\ \/ pc'[x] = pc[x] /\ pc[x] \in DeductSteps
           \/ Silent(x) /\ pc[x] = "limit" /\ pc'[x] = "insert"
           \/ Wrote(x) /\ pc[x] = "insert"
    BY <2>1, ApprovedFrom
  <2>3. CASE Silent(x) /\ pc[x] = "limit" /\ pc'[x] = "insert"
    <3>. DEFINE B == DayOf(at, Confirmed(ledger), now \div Day)
    <3>1. Cost(B) + Amount[x] <= DailyLimit
      BY <1>3, <2>2, <2>3
    <3>2. Cost(B) \in Nat /\ Amount[x] \in Nat
      BY <1>2, <1>4, <2>2, CostNat, CallsAssumption
    <3>. HIDE DEF B
    <3>. QED  BY <3>1, <3>2, LimitsAssumption
  <2>4. CASE (pc'[x] = pc[x] /\ pc[x] \in DeductSteps) \/ (Wrote(x) /\ pc[x] = "insert")
    BY <1>1, <2>1, <2>2, <2>4 DEF LimitedFit, Limited, Approved, DeductSteps
  <2>. QED  BY <2>2, <2>3, <2>4
<1>6. ASSUME NEW d \in 0..(now' \div Day) PROVE Cost(Counted(d)') <= DailyLimit + Slack
  <2>. DEFINE N == Counted(d)'
  <2>1. d \in Int /\ N \in SUBSET Calls /\ Cost(N) \in Nat /\ DailyLimit \in Int
    <3>1. d \in Int
      BY <1>2
    <3>. QED  BY <1>4, <3>1, CostNat, LimitsAssumption
  <2>2. CASE \E c \in N : c \notin Counted(d) /\ Silent(c)
    <3>1. PICK c \in N : c \notin Counted(d) /\ Silent(c)
      BY <2>2
    <3>. DEFINE B == DayOf(at, Confirmed(ledger), now \div Day)
                O == {x \in Limited : x # c}
    <3>2. /\ c \in Calls /\ pc[c] = "limit" /\ pc'[c] = "insert" /\ Clean(Home[c])
          /\ d = now \div Day /\ now' = now
      <4>1. now' = now
        BY <3>1 DEF Silent
      <4>. QED  BY <2>1, <3>1, <4>1, CountedFrom
    <3>3. N \in SUBSET (B \cup O \cup {c})
      <4>1. ASSUME NEW x \in N, x \notin Counted(d) PROVE x = c
        <5>1. pc[x] = "limit" /\ pc'[x] = "insert" /\ x \in Calls
          BY <2>1, <3>2, <4>1, CountedFrom
        <5>. QED  BY <1>1, <3>1, <3>2, <5>1 DEF Silent, Moved
      <4>2. Counted(d) \in SUBSET (B \cup O \cup {c})
        BY <3>2 DEF Counted
      <4>. QED  BY <4>1, <4>2
    <3>4. /\ O \in SUBSET Calls /\ \A x \in O : Home[x] # Home[c]
          /\ \A x, y \in O : Home[x] = Home[y] => x = y
      <4>1. \A x \in O : x \in Calls /\ pc[x] \in DeductSteps /\ x # c
        BY DEF Limited, Approved
      <4>2. pc[c] \in DeductSteps
        BY <3>2 DEF DeductSteps
      <4>. QED  BY <3>2, <4>1, <4>2, OneDeducts
    <3>5. Cost(B) + Amount[c] <= DailyLimit /\ B \in SUBSET Calls
      BY <1>2, <1>3, <1>4, <3>1, <3>2
    <3>. HIDE DEF N, B, O
    <3>6. Cost(N) <= DailyLimit + Slack
      BY <2>1, <3>2, <3>3, <3>4, <3>5, OneJoins
    <3>. QED  BY <3>6 DEF N
  <2>3. CASE ~(\E c \in N : c \notin Counted(d) /\ Silent(c)) /\ d <= now \div Day
    <3>1. N \in SUBSET Counted(d)
      <4>1. ASSUME NEW x \in N, x \notin Counted(d) PROVE FALSE
        <5>1. d = now' \div Day /\ x \in Limited /\ pc[x] = "insert"
          BY <2>1, <2>3, <4>1, CountedFrom
        <5>2. d = now \div Day
          BY <1>2, <2>3, <5>1
        <5>. QED  BY <4>1, <5>1, <5>2 DEF Counted, DayNow
      <4>. QED  BY <4>1
    <3>2. Cost(Counted(d)) <= DailyLimit + Slack
      <4>1. d \in 0..(now \div Day)
        BY <1>2, <2>3
      <4>. QED  BY <1>1, <4>1 DEF DaysKept
    <3>3. Counted(d) \in SUBSET Calls
      BY <1>4, <2>1
    <3>. HIDE DEF N
    <3>4. Cost(N) <= Cost(Counted(d)) /\ Cost(Counted(d)) \in Nat
      BY <3>1, <3>3, CostSubset, CostNat
    <3>5. Cost(N) <= DailyLimit + Slack
      BY <2>1, <3>2, <3>4, SlackNat
    <3>. QED  BY <3>5 DEF N
  <2>4. CASE ~(\E c \in N : c \notin Counted(d) /\ Silent(c)) /\ ~(d <= now \div Day)
    <3>1. Counted(d) = {}
      <4>1. \A x \in Calls : DayNow(x) <= now \div Day /\ at[x] \div Day <= now \div Day
            /\ DayNow(x) \in Int /\ at[x] \div Day \in Int
        <5>1. ASSUME NEW x \in Calls PROVE at[x] \div Day <= now \div Day /\ at[x] \div Day \in Int
          <6>1. at[x] \in Nat /\ at[x] <= now
            BY <1>1
          <6>. QED  BY <1>1, <6>1, DayMonotone, DayBounds
        <5>. QED  BY <1>2, <5>1 DEF DayNow
      <4>2. \A x \in Calls : DayNow(x) # d /\ at[x] \div Day # d
        BY <1>2, <2>1, <2>4, <4>1
      <4>. QED  BY <4>2 DEF Counted, DayOf, Confirmed, Limited, Approved
    <3>2. \A x \in N : x \in Limited
      BY <2>1, <2>4, <3>1, CountedFrom
    <3>3. CASE N = {}
      <4>1. Cost(N) = 0
        BY <3>3, SumEmpty DEF Cost
      <4>2. DailyLimit \in Nat
        BY LimitsAssumption
      <4>. HIDE DEF N
      <4>3. Cost(N) <= DailyLimit + Slack
        BY <4>1, <4>2, SlackNat
      <4>. QED  BY <4>3 DEF N
    <3>4. CASE N # {}
      <4>1. PICK c \in N : TRUE
        BY <3>4
      <4>. DEFINE O == N \ {c}
      <4>2. \A x \in N : x \in Calls /\ pc[x] \in DeductSteps
        BY <3>2 DEF Limited, Approved
      <4>3. c \in Calls /\ Amount[c] <= DailyLimit /\ Amount[c] \in Nat
        BY <1>1, <3>2, <4>1, <4>2, CallsAssumption DEF LimitedFit
      <4>. HIDE DEF N
      <4>4. /\ \A x \in O : Home[x] # Home[c]
            /\ \A x, y \in O : Home[x] = Home[y] => x = y
        BY <4>1, <4>2, OneDeducts
      <4>5. O \in SUBSET Calls /\ N \in SUBSET ({} \cup O \cup {c})
        BY <4>2
      <4>6. Cost({}) + Amount[c] <= DailyLimit
        <5>1. Cost({}) = 0
          BY SumEmpty DEF Cost
        <5>. QED  BY <4>3, <5>1, LimitsAssumption
      <4>. HIDE DEF O
      <4>7. Cost(N) <= DailyLimit + Slack
        BY <2>1, <4>3, <4>4, <4>5, <4>6, OneJoins
      <4>. QED  BY <4>7 DEF N
    <3>. QED  BY <3>3, <3>4
  <2>. QED  BY <2>2, <2>3, <2>4
<1>7. DaysKept'
  BY <1>6 DEF DaysKept, Cost
<1>. QED  BY <1>5, <1>7

LEMMA StepOverspend ==
  ASSUME IInv, [Next]_vars
  PROVE  Overspend'
<1>. SUFFICES ASSUME ~StrayIn(ledger)' PROVE BalanceKept' /\ DaysKept' /\ LimitedFit'
  BY DEF Overspend
<1>1. ~StrayIn(ledger)
  <2>1. ASSUME NEW r \in ledger, pc[r.call] = "cancelled" PROVE FALSE
    <3>1. r \in ledger' /\ r.call \in Calls /\ pc'[r.call] = "cancelled"
      BY <2>1, ConnSteps DEF IInv, TypeOK, Rows, Ends
    <3>. QED  BY <3>1 DEF StrayIn
  <2>. QED  BY <2>1 DEF StrayIn
<1>. QED  BY <1>1, StepBalance, StepDays

-----------------------------------------------------------------------------
(* The invariant holds.                                                    *)

LEMMA InitIInv == Init => IInv
<1>. SUFFICES ASSUME Init PROVE IInv
  OBVIOUS
<1>1. /\ ledger = {} /\ now = 0 /\ at = [c \in Calls |-> 0] /\ short = [c \in Calls |-> 0]
      /\ pc = [c \in Calls |-> "idle"] /\ conn = [p \in Procs |-> Closed]
      /\ entry \in [Calls -> Entries] /\ \A c \in Calls : Home[c] \in Procs
      /\ \A p \in Procs : conn[p].dirty = {} /\ conn[p].frozen = {} /\ conn[p].tx = FALSE
  BY CallsAssumption DEF Init, Closed
<1>2. TypeOK /\ entry \in [Calls -> Entries]
  BY <1>1 DEF TypeOK, Closed, OtherSteps
<1>3. IsFiniteSet(ledger) /\ \A p \in Procs : ConnInv(p)
  BY <1>1, FS_EmptySet DEF ConnInv
<1>4. \A c \in Calls : RowInv(c)
  BY <1>1 DEF RowInv, Unpaid, Confirmed
<1>5. LocksExclude /\ \A c \in Calls : Checked(c)
  BY <1>1 DEF LocksExclude, Checked, Past, HoldsWallet, HoldsPayment, CheckSteps, DeductSteps
<1>6. \A p \in Procs : KeepsLimits(at, Mids(p, ledger)) /\ KeepsLimits(at, Mids(p, Seen(p)))
  BY <1>1 DEF KeepsLimits, Mids, Confirmed, Seen
<1>7. Overspend
  <2>1. Confirmed(ledger) \cup Approved = {} /\ Limited = {} /\ \A d : Counted(d) = {}
    BY <1>1 DEF Confirmed, Approved, Limited, Counted, DayOf, DeductSteps
  <2>2. Cost({}) = 0
    BY SumEmpty DEF Cost
  <2>3. Deposits(ledger) \in Nat /\ DailyLimit \in Nat
    BY <1>1, <1>3, DepositsGrow, LimitsAssumption
  <2>4. BalanceKept
    <3>1. Cost(Confirmed(ledger) \cup Approved) = 0
      BY <2>1, <2>2
    <3>. QED  BY <2>3, <3>1, SlackNat DEF BalanceKept
  <2>5. DaysKept
    <3>1. ASSUME NEW d \in 0..(now \div Day) PROVE Cost(Counted(d)) <= DailyLimit + Slack
      <4>1. Cost(Counted(d)) = 0
        BY <2>1, <2>2
      <4>. QED  BY <2>3, <4>1, SlackNat
    <3>. QED  BY <3>1 DEF DaysKept
  <2>. QED  BY <2>1, <2>4, <2>5 DEF LimitedFit, Overspend
<1>. QED  BY <1>2, <1>3, <1>4, <1>5, <1>6, <1>7 DEF IInv

LEMMA StepIInv == IInv /\ [Next]_vars => IInv'
<1>. SUFFICES ASSUME IInv, [Next]_vars PROVE IInv'
  OBVIOUS
<1>1. TypeOK' /\ entry' \in [Calls -> Entries]
  BY StepType
<1>2. IsFiniteSet(ledger') /\ \A p \in Procs : ConnInv(p)'
  BY StepConn
<1>3. \A c \in Calls : RowInv(c)' /\ Checked(c)'
  BY StepRows, StepChecked
<1>4. LocksExclude' /\ Overspend'
  BY StepLocks, StepOverspend
<1>5. \A p \in Procs : KeepsLimits(at, Mids(p, ledger))' /\ KeepsLimits(at, Mids(p, Seen(p)))'
  BY StepKeeps
<1>. QED  BY <1>1, <1>2, <1>3, <1>4, <1>5 DEF IInv

\* The inductive invariant holds in every behaviour.
THEOREM SpecIInv == Spec => []IInv
<1>. QED  BY InitIInv, StepIInv, PTL DEF Spec

-----------------------------------------------------------------------------
(* What follows from it.                                                   *)

\* A process that pays through the middleware never leaves its limits by the
\* minute and by the day (x402_middleware.py:209), and without a row left by a
\* cancelled call the processes together exceed the balance and the day by no
\* more than one payment for each process but one (agent_wallet.py:178).
THEOREM LimitsAlwaysHold == Spec => []LimitsHold
<1>1. ASSUME IInv PROVE ProcessWithinLimits
  <2>. SUFFICES ASSUME NEW p \in Procs, \A c \in Own(p) : entry[c] = "middleware", NEW c \in Own(p)
                PROVE  /\ Cost({d \in Own(p) : at[d] \in (at[c] - Minute)..at[c]}) <= MinuteLimit
                       /\ Cardinality({d \in Own(p) : at[d] \in (at[c] - Minute)..at[c]})
                            <= MinuteCount
                       /\ Cost({d \in Own(p) : at[d] \div Day = at[c] \div Day}) <= DailyLimit
    BY DEF ProcessWithinLimits
  <2>1. Own(p) = Mids(p, Seen(p))
    BY DEF Own, Mids, Seen
  <2>2. KeepsLimits(at, Own(p))
    BY <1>1, <2>1 DEF IInv
  <2>. QED  BY <2>2 DEF KeepsLimits, Window, DayOf
<1>2. ASSUME IInv PROVE OverspendIsBounded
  <2>. SUFFICES ASSUME ~Stray
                PROVE  /\ Cost(Confirmed(ledger)) <= Deposits(ledger) + Slack
                       /\ \A d \in 0..(now \div Day) :
                            Cost({c \in Confirmed(ledger) : at[c] \div Day = d})
                              <= DailyLimit + Slack
    BY DEF OverspendIsBounded, Slack
  <2>1. ~StrayIn(ledger)
    BY <1>2 DEF Stray, StrayIn, IInv, TypeOK, Rows
  <2>2. BalanceKept /\ DaysKept
    BY <1>2, <2>1 DEF IInv, Overspend
  <2>3. /\ Deposits(ledger) \in Nat /\ DailyLimit \in Nat /\ now \div Day \in Nat
    BY <1>2, DepositsGrow, DayBounds, LimitsAssumption DEF IInv, TypeOK
  <2>4. Cost(Confirmed(ledger)) <= Deposits(ledger) + Slack
    <3>. DEFINE C == Confirmed(ledger)
                D == Confirmed(ledger) \cup Approved
    <3>1. C \in SUBSET D /\ D \in SUBSET Calls /\ C \in SUBSET Calls
      BY DEF Confirmed, Approved
    <3>2. Cost(D) <= Deposits(ledger) + Slack
      BY <2>2 DEF BalanceKept
    <3>. HIDE DEF C, D
    <3>3. Cost(C) <= Cost(D) /\ Cost(C) \in Nat /\ Cost(D) \in Nat
      BY <3>1, CostSubset, CostNat
    <3>4. Cost(C) <= Deposits(ledger) + Slack
      BY <2>3, <3>2, <3>3, SlackNat
    <3>. QED  BY <3>4 DEF C
  <2>5. ASSUME NEW d \in 0..(now \div Day)
        PROVE  Cost({c \in Confirmed(ledger) : at[c] \div Day = d}) <= DailyLimit + Slack
    <3>. DEFINE C == {c \in Confirmed(ledger) : at[c] \div Day = d}
                D == Counted(d)
    <3>1. C \in SUBSET D /\ D \in SUBSET Calls /\ C \in SUBSET Calls
      BY DEF Confirmed, Counted, DayOf, Limited, Approved
    <3>2. Cost(D) <= DailyLimit + Slack
      BY <2>2 DEF DaysKept
    <3>. HIDE DEF C, D
    <3>3. Cost(C) <= Cost(D) /\ Cost(C) \in Nat /\ Cost(D) \in Nat
      BY <3>1, CostSubset, CostNat
    <3>4. Cost(C) <= DailyLimit + Slack
      BY <2>3, <3>2, <3>3, SlackNat
    <3>. QED  BY <3>4 DEF C
  <2>. QED  BY <2>4, <2>5
<1>3. IInv => LimitsHold
  BY <1>1, <1>2 DEF LimitsHold, IInv
<1>. QED  BY <1>3, SpecIInv, PTL

\* Every confirmed deduction of a call that is over has a payment or a named
\* mishap behind it, every payment that was made and kept is deducted, and only a
\* refused write leaves a process with an old view (agent_wallet.py:197, :415).
THEOREM BooksAlwaysExplained == Spec => []BooksAreExplained
<1>1. ASSUME IInv PROVE ChargeHasReason
  <2>1. ASSUME NEW c \in Confirmed(ledger), pc[c] \in Ends
        PROVE  pc[c] \in {"done", "charged", "cancelled", "killed"}
    <3>1. c \in Calls /\ RowInv(c) /\ Take(c) \in ledger
      BY <1>1 DEF IInv, Confirmed
    <3>. QED  BY <2>1, <3>1 DEF RowInv, Unpaid, Ends
  <2>2. ASSUME NEW c \in Calls, pc[c] = "done" PROVE c \in Confirmed(ledger)
    <3>1. RowInv(c)
      BY <1>1 DEF IInv
    <3>. QED  BY <2>2, <3>1 DEF RowInv, Confirmed
  <2>. QED  BY <2>1, <2>2 DEF ChargeHasReason
<1>2. ASSUME IInv PROVE OldViewHasCause
  BY <1>2 DEF IInv, ConnInv, HasCause, OldViewHasCause
<1>3. IInv => BooksAreExplained
  BY <1>1, <1>2 DEF BooksAreExplained
<1>. QED  BY <1>3, SpecIInv, PTL

-----------------------------------------------------------------------------
(* The circuit breaker.                                                    *)

\* A breaker with three failures or more was stamped at the last of them.
BreakerInv ==
  /\ breaker \in [Procs -> [failures : Nat, openedAt : Int]]
  /\ lastFailure \in [Procs -> Int]
  /\ \A p \in Procs : breaker[p].failures >= 3 => breaker[p].openedAt = lastFailure[p]

LEMMA StepBreaker == TypeOK /\ BreakerInv /\ [Next]_vars => BreakerInv'
<1>. SUFFICES ASSUME TypeOK, BreakerInv, [Next]_vars PROVE BreakerInv'
  OBVIOUS
<1>1. /\ Threshold \in [Procs -> Nat] /\ Cooldown \in Nat /\ now \in Nat /\ LongAgo \in Int
      /\ NewBreaker \in [failures : Nat, openedAt : Int] /\ NewBreaker.failures = 0
      /\ \A c \in Calls : Home[c] \in Procs
  BY LimitsAssumption, ThresholdAssumption, CallsAssumption DEF TypeOK, LongAgo, NewBreaker
<1>2. ASSUME NEW p \in Procs, NEW b \in [failures : Nat, openedAt : Int], NEW t \in Int,
             breaker' = [breaker EXCEPT ![p] = b],
             lastFailure' = [lastFailure EXCEPT ![p] = t],
             b.failures >= 3 => b.openedAt = t
      PROVE  BreakerInv'
  BY <1>2 DEF BreakerInv
<1>3. ASSUME NEW p \in Procs, RecordFailure(p) PROVE BreakerInv'
  <2>. DEFINE b == RecordedFailure(breaker[p])
              t == now
  <2>1. b \in [failures : Nat, openedAt : Int] /\ t \in Int
    BY <1>1 DEF BreakerInv, RecordedFailure
  <2>2. b.failures >= 3 => b.openedAt = t
    BY <1>1 DEF BreakerInv, RecordedFailure
  <2>3. breaker' = [breaker EXCEPT ![p] = b] /\ lastFailure' = [lastFailure EXCEPT ![p] = t]
    BY <1>3 DEF RecordFailure
  <2>. HIDE DEF b, t
  <2>. QED  BY <1>2, <2>1, <2>2, <2>3
<1>4. ASSUME NEW p \in Procs, NEW b \in [failures : Nat, openedAt : Int], b.failures = 0, Forgiven(p, b)
      PROVE  BreakerInv'
  <2>1. /\ breaker' = [breaker EXCEPT ![p] = b]
        /\ lastFailure' = [lastFailure EXCEPT ![p] = LongAgo]
    BY <1>4 DEF Forgiven
  <2>2. ~(b.failures >= 3) /\ LongAgo \in Int
    BY <1>1, <1>4
  <2>. QED  BY <1>2, <2>1, <2>2
<1>5. ASSUME NEW p \in Procs, RecordSuccess(p) \/ Reset(p) PROVE BreakerInv'
  <2>1. [breaker[p] EXCEPT !.failures = 0] \in [failures : Nat, openedAt : Int]
        /\ [breaker[p] EXCEPT !.failures = 0].failures = 0
    BY DEF BreakerInv
  <2>. QED  BY <1>1, <1>4, <1>5, <2>1 DEF RecordSuccess, Reset
<1>6. ASSUME NEW p \in Procs, InitDb(p) PROVE BreakerInv'
  <2>1. /\ breaker' = [breaker EXCEPT ![p] = NewBreaker]
        /\ lastFailure' = [lastFailure EXCEPT ![p] = LongAgo]
    BY <1>6 DEF InitDb
  <2>2. /\ ~(NewBreaker.failures >= 3) /\ LongAgo \in Int
        /\ NewBreaker \in [failures : Nat, openedAt : Int]
    BY <1>1
  <2>. QED  BY <1>2, <2>1, <2>2
<1>7. ASSUME NEW c \in Calls, StartGuarded(c) PROVE BreakerInv'
  <2>. DEFINE p == Home[c]
              b == Asked(breaker[p], Threshold[p])
  <2>1. /\ b \in [failures : Nat, openedAt : Int]
        /\ b.failures >= 3 => b.openedAt = lastFailure[p]
    BY <1>1 DEF BreakerInv, Asked
  <2>2. breaker' = [breaker EXCEPT ![p] = b] /\ lastFailure' = lastFailure
    BY <1>7 DEF StartGuarded, Started, Proc
  <2>. HIDE DEF b
  <2>. QED  BY <1>1, <2>1, <2>2 DEF BreakerInv
<1>8. ASSUME UNCHANGED <<breaker, lastFailure>> PROVE BreakerInv'
  BY <1>8 DEF BreakerInv
<1>9. ASSUME NEW c \in Calls, CallStep(c), ~StartGuarded(c) PROVE UNCHANGED <<breaker, lastFailure>>
  BY <1>9 DEF CallStep, StartCli, Started, CheckSpend, CheckCount, CheckDaily, CheckBalance,
       DeductBalance, Check, DeductLimit, Insert, CommitDeduct, CommitUndo, CommitTop, Commit,
       PayOk, PayFailed, Answered, UndoDeduct, InsertTop, SyncBalance, Unmoved
<1>10. ASSUME NEW c \in Calls, Cancel(c) PROVE UNCHANGED <<breaker, lastFailure>>
  BY <1>10 DEF Cancel
<1>11. ASSUME Tick \/ UNCHANGED vars PROVE UNCHANGED <<breaker, lastFailure>>
  BY <1>11 DEF Tick, vars
<1>. QED  BY <1>3, <1>5, <1>6, <1>7, <1>8, <1>9, <1>10, <1>11 DEF Next

\* For any threshold, zero and those below the literal of record_failure included,
\* a breaker with as many failures as it needs lets no call pass until its cooldown
\* is over (budget_guard.py:record_failure, is_open).
THEOREM BreakerAlwaysHolds == Spec => BreakerHolds
<1>. DEFINE Denies ==
       \A c \in Calls :
         (/\ breaker[Proc(c)].failures >= Needed(Proc(c))
          /\ now - lastFailure[Proc(c)] < Cooldown)
         => ~(pc[c] = "idle" /\ pc'[c] = "spend")
<1>1. Init => BreakerInv
  <2>1. LongAgo \in Int /\ 0 \in Nat
    BY LimitsAssumption DEF LongAgo
  <2>. QED  BY <2>1, LimitsAssumption DEF Init, NewBreaker, BreakerInv
<1>2. TypeOK /\ BreakerInv /\ [Next]_vars => BreakerInv'
  BY StepBreaker
<1>3. IInv /\ BreakerInv /\ [Next]_vars => [Denies]_vars
  <2>. SUFFICES ASSUME IInv, BreakerInv, [Next]_vars, NEW c \in Calls,
                       pc[c] = "idle", pc'[c] = "spend",
                       breaker[Proc(c)].failures >= Needed(Proc(c)),
                       now - lastFailure[Proc(c)] < Cooldown
                PROVE  FALSE
    OBVIOUS
  <2>1. /\ pc \in [Calls -> CheckSteps \cup DeductSteps \cup OtherSteps \cup Ends]
        /\ Home[c] \in Procs
    BY CallsAssumption DEF IInv, TypeOK
  <2>2. PICK d \in Calls : CallStep(d) \/ Cancel(d)
    BY <2>1 DEF Next, RecordFailure, RecordSuccess, Reset, Forgiven, InitDb, Tick, vars
  <2>3. c = d /\ ~Cancel(d)
    <3>1. pc' = [pc EXCEPT ![d] = pc'[d]]
      BY <2>1, <2>2, CallEffect DEF Silent, Wrote, Committed, Moved, Cancel, Goto
    <3>. QED  BY <2>1, <3>1 DEF Cancel, Goto
  <2>4. StartGuarded(c)
    BY <2>1, <2>2, <2>3
       DEF CallStep, StartCli, CheckSpend, CheckCount, CheckDaily, CheckBalance,
           DeductBalance, Check, DeductLimit, Insert, CommitDeduct, CommitUndo, CommitTop,
           Commit, PayOk, PayFailed, Answered, UndoDeduct, InsertTop, SyncBalance, Goto
  <2>5. ~IsOpen(breaker[Proc(c)], Threshold[Proc(c)])
    BY <2>1, <2>4 DEF StartGuarded, Goto
  <2>6. /\ breaker[Proc(c)] \in [failures : Nat, openedAt : Int] /\ Threshold[Proc(c)] \in Nat
        /\ Needed(Proc(c)) >= 3 /\ Needed(Proc(c)) >= Threshold[Proc(c)] /\ Needed(Proc(c)) \in Nat
    BY <2>1, ThresholdAssumption DEF BreakerInv, Proc, Needed
  <2>. QED  BY <2>1, <2>5, <2>6 DEF IsOpen, BreakerInv, Proc
<1>4. IInv => TypeOK
  BY DEF IInv
<1>5. BreakerHolds <=> [][Denies]_vars
  BY DEF BreakerHolds
<1>. HIDE DEF Denies
<1>. QED  BY <1>1, <1>2, <1>3, <1>4, <1>5, SpecIInv, PTL DEF Spec

=============================================================================
