------------------------------- MODULE Budget -------------------------------
(***************************************************************************)
(* One wallet file and the processes that spend from it: AgentWallet over  *)
(* SQLite, BudgetGuard with its circuit breaker, and the callers that read *)
(* a limit first and deduct later.  The payment lock and the wallet's lock *)
(* are of one process; what two processes may do to each other is up to    *)
(* SQLite.                                                                 *)
(*                                                                         *)
(* A connection works as Python's sqlite3 has it in WAL mode: a read sees  *)
(* what is committed, the first write opens a transaction and takes the    *)
(* file's only write lock, commit ends it.  Nothing in AgentWallet rolls a *)
(* SQLite transaction back, so a write that is refused (the lock was not   *)
(* free within busy_timeout) leaves the transaction open: the next read    *)
(* freezes its view, and once another process has committed every later    *)
(* write of this connection is refused too.                                *)
(***************************************************************************)
EXTENDS Integers, FiniteSetsExt

CONSTANTS
  Calls,          \* the payments somebody wants to make
  Procs,          \* the processes that have the wallet open
  Home,           \* the process of a call
  EntriesOf,      \* what may make the call: the middleware or `ag402 pay`
  Amount,         \* what it costs, in cents
  Funds,          \* what was deposited before
  SingleLimit,    \* min(single_tx_limit, MAX_SINGLE_TX, max_amount)
  MinuteLimit,    \* per_minute_limit
  MinuteCount,    \* per_minute_count
  DailyLimit,     \* daily_spend_limit, of the guard and of the wallet
  Threshold,      \* circuit_breaker_threshold of each process
  Cooldown,       \* circuit_breaker_cooldown
  Minute, Day,    \* ticks
  MaxTime,        \* bound: the clock stops here
  MaxFaults,      \* bound: cancellations and restarts in one behaviour
  MaxFailures     \* bound: failures reported to the breakers

Entries == {"middleware", "cli_test", "cli_production"}

ASSUME CallsAssumption == /\ IsFiniteSet(Calls) /\ IsFiniteSet(Procs)
                          /\ Home \in [Calls -> Procs]
                          /\ EntriesOf \in [Calls -> SUBSET Entries]
                          /\ Amount \in [Calls -> Nat \ {0}]
ASSUME LimitsAssumption ==
  {Funds, SingleLimit, MinuteLimit, MinuteCount, DailyLimit, Cooldown,
     MaxTime, MaxFaults, MaxFailures} \subseteq Nat
ASSUME ThresholdAssumption == Threshold \in [Procs -> Nat]
ASSUME ClockAssumption == Minute \in Nat /\ Day \in Nat \ {0}

VARIABLES
  ledger,         \* the committed rows, each an operation on the wallet
  conn,           \* each process's connection
  entry,          \* what makes each call
  pc,             \* where it is
  at,             \* the time stamp of its deduction
  short,          \* what `ag402 pay` found missing in the ledger
  breaker,        \* each process's circuit breaker
  lastFailure,    \* history: when a failure was last reported to it
  now,
  faults,
  failures        \* failures reported so far

vars == <<ledger, conn, entry, pc, at, short, breaker, lastFailure, now, faults, failures>>

-----------------------------------------------------------------------------
(* The ledger.  Take is the insert of a deduction, Undo the rollback's     *)
(* update of its status, Top the deposit `ag402 pay` makes when the ledger *)
(* has less than what was paid on chain.                                   *)

Take(c)   == [kind |-> "take", call |-> c, amount |-> Amount[c]]
Undo(c)   == [kind |-> "undo", call |-> c, amount |-> Amount[c]]
Top(c, n) == [kind |-> "top", call |-> c, amount |-> n]
Rows      == [kind : {"take", "undo", "top"}, call : Calls, amount : Nat]

\* The calls whose deduction is confirmed in a view of the ledger.
Confirmed(S) == {c \in Calls : Take(c) \in S /\ Undo(c) \notin S}
Cost(C)      == SumFunctionOnSet(Amount, C)

Tops(S)      == {r \in S : r.kind = "top"}
Deposits(S)  == Funds + SumFunctionOnSet([r \in Tops(S) |-> r.amount], Tops(S))

CalcBalance_Deposits(S) == Deposits(S)
CalcBalance(S) == Deposits(S) - Cost(Confirmed(S))
RecentMinute(S)    == {c \in Confirmed(S) : at[c] >= now - Minute}
CalcMinuteSpend(S) == Cost(RecentMinute(S))
CalcMinuteCount(S) == Cardinality(RecentMinute(S))
CalcDailySpend(S)  == Cost({c \in Confirmed(S) : at[c] >= (now \div Day) * Day})

-----------------------------------------------------------------------------
(* A connection: tx, a transaction is open; frozen, the view that its      *)
(* first read fixed, if any; dirty, the rows written and not committed.    *)

Closed == [tx |-> FALSE, frozen |-> {}, dirty |-> {}]

View(p) == IF conn[p].frozen # {} /\ conn[p].dirty = {}
           THEN CHOOSE S \in conn[p].frozen : TRUE
           ELSE ledger \cup conn[p].dirty

Locked(p) == \E q \in Procs \ {p} : conn[q].dirty # {}
Outdated(p) == conn[p].frozen \notin {{}, {ledger}}

Read(p) ==
  conn' = IF conn[p].tx /\ conn[p].dirty = {}
          THEN [conn EXCEPT ![p].frozen = {View(p)}]
          ELSE conn

Write_Unlocked(p, row) ==
  /\ ~Outdated(p)
  /\ conn' = [conn EXCEPT ![p].tx = TRUE, ![p].dirty = @ \cup {row}]
Write(p, row) ==
  /\ ~Locked(p) /\ ~Outdated(p)
  /\ conn' = [conn EXCEPT ![p].tx = TRUE, ![p].dirty = @ \cup {row}]

WriteRefused(p) ==
  /\ Locked(p) \/ Outdated(p)
  /\ conn' = [conn EXCEPT ![p].tx = TRUE]

\* rollback reads the row it is to change first.
ReadThenRefused(p) ==
  /\ Locked(p) \/ Outdated(p)
  /\ conn' = [conn EXCEPT ![p] = IF @.tx THEN [@ EXCEPT !.frozen = {View(p)}]
                                        ELSE [@ EXCEPT !.tx = TRUE]]

CommitRows_KeepsOpen(p) ==
  /\ ledger' = ledger \cup conn[p].dirty
  /\ conn' = [conn EXCEPT ![p] = [Closed EXCEPT !.tx = TRUE]]
CommitRows(p) ==
  /\ ledger' = ledger \cup conn[p].dirty
  /\ conn' = [conn EXCEPT ![p] = Closed]

-----------------------------------------------------------------------------
(* Where a call may be. *)

CheckSteps  == {"spend", "count", "daily", "balance"}
DeductSteps == {"limit", "insert", "commit"}            \* holding AgentWallet._lock
OtherSteps  == {"idle", "deduct", "pay", "answer", "undo", "commit_undo",
                "sync", "top", "commit_top"}
Ends == {"done", "denied", "refused", "failed", "charged", "unrecorded",
         "cancelled", "killed"}

-----------------------------------------------------------------------------
(* The circuit breaker.  Nothing on the payment path reports to it; who    *)
(* holds a guard may.                                                      *)

LongAgo == 0 - Cooldown      \* _circuit_opened_at = 0.0, the epoch

NewBreaker == [failures |-> 0, openedAt |-> LongAgo]

RecordedFailure_Late(b) ==
  [failures |-> b.failures + 1,
   openedAt |-> IF b.failures + 1 > 3 THEN now ELSE b.openedAt]
RecordedFailure(b) ==
  [failures |-> b.failures + 1,
   openedAt |-> IF b.failures + 1 >= 3 THEN now ELSE b.openedAt]

IsOpen(b, threshold) == b.failures >= threshold /\ now - b.openedAt < Cooldown

\* What asking leaves behind: a breaker past its cooldown, or at a threshold
\* below the literal and so never stamped, starts afresh.
Asked(b, threshold) ==
  IF b.failures >= threshold /\ ~IsOpen(b, threshold) THEN NewBreaker ELSE b

\* Reports come between the calls of a process with a guard: only the start of
\* a call reads the breaker.
Quiet(p) == /\ \E c \in Calls : Home[c] = p /\ entry[c] = "middleware"
            /\ \A c \in Calls : Home[c] = p => pc[c] \in Ends \cup {"idle"}

RecordFailure(p) ==
  /\ failures < MaxFailures /\ Quiet(p)
  /\ failures' = failures + 1
  /\ breaker' = [breaker EXCEPT ![p] = RecordedFailure(@)]
  /\ lastFailure' = [lastFailure EXCEPT ![p] = now]
  /\ UNCHANGED <<ledger, conn, pc, at, short, now, faults>>

Forgiven(p, b) ==
  /\ breaker[p].failures > 0 /\ Quiet(p)
  /\ breaker' = [breaker EXCEPT ![p] = b]
  /\ lastFailure' = [lastFailure EXCEPT ![p] = LongAgo]
  /\ UNCHANGED <<ledger, conn, pc, at, short, now, faults, failures>>

RecordSuccess(p) == Forgiven(p, [breaker[p] EXCEPT !.failures = 0])
Reset(p)         == Forgiven(p, NewBreaker)

-----------------------------------------------------------------------------
(* A call, from one await to the next.                                     *)

Proc(c) == Home[c]
Colleagues(c) == {d \in Calls \ {c} : Home[d] = Home[c]}

PaymentLockFree_Released(c) ==
  \A d \in Colleagues(c) : entry[d] = "middleware" => pc[d] \notin CheckSteps
PaymentLockFree(c) ==
  \A d \in Colleagues(c) : entry[d] = "middleware" =>
     pc[d] \notin CheckSteps \cup {"deduct"} \cup DeductSteps

WalletLockFree(c) ==
  \A d \in Colleagues(c) : pc[d] \notin DeductSteps \cup {"commit_undo", "commit_top"}

Goto(c, place) == pc' = [pc EXCEPT ![c] = place]

Started == UNCHANGED <<ledger, conn, at, short, lastFailure, now, faults, failures>>

\* handle_request takes the payment lock and asks the guard, which first asks
\* the breaker and the limit on a single payment.
StartGuarded(c) ==
  /\ pc[c] = "idle" /\ entry[c] = "middleware" /\ PaymentLockFree(c)
  /\ breaker' = [breaker EXCEPT ![Proc(c)] = Asked(@, Threshold[Proc(c)])]
  /\ Goto(c, IF IsOpen(breaker[Proc(c)], Threshold[Proc(c)]) \/ Amount[c] > SingleLimit
             THEN "denied" ELSE "spend")
  /\ Started

\* `ag402 pay` has no guard: in test mode it deducts first, in production it
\* pays first and records afterwards.
StartCli(c) ==
  /\ pc[c] = "idle" /\ entry[c] # "middleware"
  /\ Goto(c, IF entry[c] = "cli_test" THEN "deduct" ELSE "pay")
  /\ Started /\ UNCHANGED breaker

Unmoved == UNCHANGED <<ledger, at, short, breaker, lastFailure, now, faults, failures>>

\* One getter of the wallet and the comparison that follows it.
Check(c, place, within, next, otherwise) ==
  /\ pc[c] = place /\ WalletLockFree(c)
  /\ Read(Proc(c))
  /\ Goto(c, IF within THEN next ELSE otherwise)
  /\ Unmoved

Refused(c) == IF entry[c] = "cli_production" THEN "unrecorded" ELSE "refused"

CheckSpend(c) ==
  Check(c, "spend", CalcMinuteSpend(View(Proc(c))) + Amount[c] <= MinuteLimit,
        "count", "denied")
CheckCount(c) ==
  Check(c, "count", CalcMinuteCount(View(Proc(c))) + 1 <= MinuteCount, "daily", "denied")
CheckDaily(c) ==
  Check(c, "daily", CalcDailySpend(View(Proc(c))) + Amount[c] <= DailyLimit,
        "balance", "denied")
CheckBalance(c) ==
  Check(c, "balance", CalcBalance(View(Proc(c))) >= Amount[c], "deduct", "denied")

\* deduct: balance, daily spend, insert and commit under the wallet's lock.
DeductBalance(c) ==
  Check(c, "deduct", CalcBalance(View(Proc(c))) >= Amount[c], "limit", Refused(c))

DeductLimit(c) ==
  /\ pc[c] = "limit"
  /\ Read(Proc(c))
  /\ Goto(c, IF CalcDailySpend(View(Proc(c))) + Amount[c] <= DailyLimit
             THEN "insert" ELSE Refused(c))
  /\ Unmoved

Insert(c) ==
  /\ pc[c] = "insert"
  /\ \/ /\ Write(Proc(c), Take(c))
        /\ at' = [at EXCEPT ![c] = now]
        /\ Goto(c, "commit")
     \/ /\ WriteRefused(Proc(c))
        /\ Goto(c, Refused(c))
        /\ UNCHANGED at
  /\ UNCHANGED <<ledger, short, breaker, lastFailure, now, faults, failures>>

Commit(c, place, next) ==
  /\ pc[c] = place
  /\ CommitRows(Proc(c))
  /\ Goto(c, next)
  /\ UNCHANGED <<at, short, breaker, lastFailure, now, faults, failures>>

CommitDeduct(c) ==
  Commit(c, "commit", IF entry[c] = "cli_production" THEN "done" ELSE "pay")

\* The provider.  A failed payment is rolled back by who deducted first.
PayOk(c) ==
  /\ pc[c] = "pay"
  /\ Goto(c, CASE entry[c] = "middleware" -> "done"
               [] entry[c] = "cli_test" -> "answer"
               [] OTHER -> "sync")
  /\ Unmoved /\ UNCHANGED conn

PayFailed_NoRollback(c) ==
  /\ pc[c] = "pay"
  /\ Goto(c, "failed")
  /\ Unmoved /\ UNCHANGED conn
PayFailed(c) ==
  /\ pc[c] = "pay"
  /\ Goto(c, IF entry[c] = "cli_production" THEN "failed" ELSE "undo")
  /\ Unmoved /\ UNCHANGED conn

\* `ag402 pay` in test mode also takes the money back when the paid request is
\* answered with an error.
Answered(c) ==
  /\ pc[c] = "answer"
  /\ \/ Goto(c, "done")
     \/ Goto(c, "undo")
  /\ Unmoved /\ UNCHANGED conn

UndoDeduct(c) ==
  /\ pc[c] = "undo" /\ WalletLockFree(c)
  /\ \/ Write(Proc(c), Undo(c)) /\ Goto(c, "commit_undo")
     \/ ReadThenRefused(Proc(c)) /\ Goto(c, "charged")
  /\ Unmoved

CommitUndo(c) == Commit(c, "commit_undo", "failed")

\* In production `ag402 pay` reads the balance, deposits what is missing and a
\* cent, and then deducts; whatever raises here is printed and skipped.
SyncBalance(c) ==
  LET missing == Amount[c] - CalcBalance(View(Proc(c)))
  IN /\ pc[c] = "sync" /\ WalletLockFree(c)
     /\ Read(Proc(c))
     /\ Goto(c, IF missing > 0 THEN "top" ELSE "deduct")
     /\ short' = [short EXCEPT ![c] = IF missing > 0 THEN missing ELSE 0]
     /\ UNCHANGED <<ledger, at, breaker, lastFailure, now, faults, failures>>

InsertTop(c) ==
  /\ pc[c] = "top" /\ WalletLockFree(c)
  /\ \/ Write(Proc(c), Top(c, short[c] + 1)) /\ Goto(c, "commit_top")
     \/ WriteRefused(Proc(c)) /\ Goto(c, "unrecorded")
  /\ Unmoved

CommitTop(c) == Commit(c, "commit_top", "deduct")

-----------------------------------------------------------------------------
(* Faults.  A cancelled call leaves its locks; a write it was waiting for  *)
(* is done all the same, and its commit is never asked for.  A restart     *)
(* ends a process's calls and gives it a new connection.                   *)

Cancel(c) ==
  /\ faults < MaxFaults
  /\ pc[c] \notin Ends \cup {"idle"}
  /\ faults' = faults + 1
  /\ Goto(c, "cancelled")
  /\ UNCHANGED <<ledger, conn, at, short, breaker, lastFailure, now, failures>>

InitDb(p) ==
  /\ faults < MaxFaults
  /\ faults' = faults + 1
  /\ conn' = [conn EXCEPT ![p] = Closed]
  /\ breaker' = [breaker EXCEPT ![p] = NewBreaker]
  /\ lastFailure' = [lastFailure EXCEPT ![p] = LongAgo]
  /\ pc' = [c \in Calls |-> IF Home[c] = p /\ pc[c] \notin Ends \cup {"idle"}
                            THEN "killed" ELSE pc[c]]
  /\ UNCHANGED <<ledger, at, short, now, failures>>

Tick ==
  /\ now < MaxTime
  /\ now' = now + 1
  /\ UNCHANGED <<ledger, conn, pc, at, short, breaker, lastFailure, faults, failures>>

Init ==
  /\ ledger = {}
  /\ conn = [p \in Procs |-> Closed]
  /\ entry \in [Calls -> Entries] /\ (\A c \in Calls : entry[c] \in EntriesOf[c])
  /\ pc = [c \in Calls |-> "idle"]
  /\ at = [c \in Calls |-> 0] /\ short = [c \in Calls |-> 0]
  /\ breaker = [p \in Procs |-> NewBreaker]
  /\ lastFailure = [p \in Procs |-> LongAgo]
  /\ now = 0 /\ faults = 0 /\ failures = 0

CallStep(c) ==
  \/ StartGuarded(c) \/ StartCli(c)
  \/ CheckSpend(c) \/ CheckCount(c) \/ CheckDaily(c) \/ CheckBalance(c)
  \/ DeductBalance(c) \/ DeductLimit(c) \/ Insert(c) \/ CommitDeduct(c)
  \/ PayOk(c) \/ PayFailed(c) \/ Answered(c)
  \/ UndoDeduct(c) \/ CommitUndo(c) \/ SyncBalance(c) \/ InsertTop(c) \/ CommitTop(c)

Next ==
  /\ \/ \E c \in Calls : CallStep(c) \/ Cancel(c)
     \/ \E p \in Procs : RecordFailure(p) \/ RecordSuccess(p) \/ Reset(p) \/ InitDb(p)
     \/ Tick
  /\ UNCHANGED entry

Spec == Init /\ [][Next]_vars

-----------------------------------------------------------------------------

TypeOK ==
  /\ now \in Nat
  /\ ledger \subseteq Rows
  /\ conn \in [Procs -> [tx : BOOLEAN, frozen : SUBSET SUBSET Rows, dirty : SUBSET Rows]]
  /\ \A p \in Procs : conn[p].dirty # {} => conn[p].tx /\ ~Locked(p) /\ ~Outdated(p)
  /\ pc \in [Calls -> CheckSteps \cup DeductSteps \cup OtherSteps \cup Ends]
  /\ at \in [Calls -> 0..now] /\ short \in [Calls -> Nat]

\* The deductions of p's calls that count in its own eyes.
Own(p) == {c \in Confirmed(ledger \cup conn[p].dirty) : Home[c] = p}

\* Whatever the other processes do, a process that pays through the middleware
\* stays within its limits by the minute and by the day: check and deduction are
\* under one lock (x402_middleware.py:209), and deductions that a cancelled call
\* left uncommitted still count.
ProcessWithinLimits ==
  \A p \in Procs : (\A c \in Own(p) : entry[c] = "middleware") =>
    \A c \in Own(p) :
      LET window == {d \in Own(p) : at[d] \in (at[c] - Minute)..at[c]}
          day    == {d \in Own(p) : at[d] \div Day = at[c] \div Day}
      IN /\ Cost(window) <= MinuteLimit
         /\ Cardinality(window) <= MinuteCount
         /\ Cost(day) <= DailyLimit

\* A row that nobody asked to commit: its call was cancelled after the insert.
Stray == \E c \in Calls : /\ pc[c] = "cancelled"
                          /\ \E r \in ledger \cup UNION {conn[p].dirty : p \in Procs} :
                                r.call = c

MostExpensive == Max({0} \cup {Amount[c] : c \in Calls})

\* Balance test and insert are two statements under a lock of one process
\* (agent_wallet.py:178).  All processes together overspend the balance and the
\* day by no more than one payment for each process but one, unless a cancelled
\* call left its row uncommitted, out of the others' sight.
OverspendIsBounded ==
  LET slack == (Cardinality(Procs) - 1) * MostExpensive
  IN ~Stray =>
       /\ Cost(Confirmed(ledger)) <= Deposits(ledger) + slack
       /\ \A d \in 0..(now \div Day) :
            Cost({c \in Confirmed(ledger) : at[c] \div Day = d}) <= DailyLimit + slack

\* A confirmed deduction of a call that is over has a reason: the payment was
\* made, its rollback was refused, or the call did not live to roll it back.
\* A payment that was made and not given back is deducted, unless `ag402 pay`
\* could not record it.
ChargeHasReason ==
  /\ \A c \in Confirmed(ledger) :
       pc[c] \in Ends => pc[c] \in {"done", "charged", "cancelled", "killed"}
  /\ \A c \in Calls : pc[c] = "done" => c \in Confirmed(ledger)

\* The limits are tested against what is committed now, with the process's own
\* uncommitted rows: only a write that was refused, whose transaction nothing
\* ends, leaves a process with an old view.
OldViewHasCause ==
  \A p \in Procs : conn[p].frozen # {} =>
    \E c \in Calls : Home[c] = p /\ pc[c] \in {"refused", "charged", "unrecorded"}

\* How many failures open a breaker: as many as were configured, but no fewer
\* than the literal of record_failure (budget_guard.py:35), the default.
Needed(p) == IF Threshold[p] > 3 THEN Threshold[p] ELSE 3

\* After so many failures as the breaker counts them, whatever its threshold, no
\* call passes the guard until Cooldown has gone by since the last of them.  (At
\* a threshold below the literal a call that asks at the threshold sets the count
\* back, so that it may never come so far: budget_guard.py:46.)
BreakerHolds ==
  [][\A c \in Calls :
       (/\ breaker[Proc(c)].failures >= Needed(Proc(c))
        /\ now - lastFailure[Proc(c)] < Cooldown)
       => ~(pc[c] = "idle" /\ pc'[c] = "spend")]_vars

\* Through cancellations, restarts and refused writes no process leaves its
\* limits, and all of them together leave the file's by no more than the checks
\* that may overlap (budget_guard.py:check, agent_wallet.py:178).
LimitsHold == TypeOK /\ ProcessWithinLimits /\ OverspendIsBounded

\* What the wallet file says can be accounted for: each charge by a payment or a
\* named mishap, each stale reading by a refused write (agent_wallet.py:197, :415).
BooksAreExplained == ChargeHasReason /\ OldViewHasCause
=============================================================================
