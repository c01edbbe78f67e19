------------------------------ MODULE HomeFiles ------------------------------
(***************************************************************************)
(* The JSON files under ~/.ag402 and the programs that rewrite them: the   *)
(* OpenClaw skill (config, wallet, history), the bridge (wallet), and the  *)
(* prepaid clients of the skill and of the core (credentials).  All of it  *)
(* is load, change, save.  The wallet and the history have a lock file and *)
(* every load or save takes the flock on a handle of its own, so that a    *)
(* command that holds the lock on one handle waits for itself on the next. *)
(*                                                                         *)
(* A job is one command or one proxied request.  Its code has no await     *)
(* between the first file operation and the last one that is reached, so a *)
(* process runs one at a time.  A program is a table of operations; the    *)
(* rows behind a self-made wait are there as the code has them.            *)
(***************************************************************************)
EXTENDS Integers, Sequences, FiniteSetsExt

CONSTANTS
  Jobs,
  Process,        \* the process of a job
  CommandsOf,     \* what a job may be
  Initial,        \* the wallet's first balance: 100
  Price,          \* of a payment and of a deposit
  PackageCalls,   \* calls of a prepaid package
  HistoryLimit,   \* the transactions the history keeps: 1000
  MaxKills        \* bound: processes killed in one behaviour

Files   == {"config", "wallet", "history", "credentials"}
Guarded == {"wallet", "history"}      \* with a lock file

-----------------------------------------------------------------------------
(* The programs.  load and save take the file's lock if it has one; hold   *)
(* and drop are a caller's own lock; read does not lock; ensure saves what *)
(* the load did not find; replace writes a temporary file and renames it.  *)

Op(o, f) == [op |-> o, file |-> f]

AddTransaction == <<Op("load", "history"), Op("save", "history")>>

Setup == <<Op("load", "config"), Op("ensure", "config"),
           Op("load", "wallet"), Op("save", "wallet")>> \o AddTransaction

WalletStatus  == <<Op("load", "wallet"), Op("load", "config"), Op("load", "history")>>
WalletHistory == <<Op("load", "history")>>
Doctor        == <<Op("load", "wallet")>>

WalletDeposit == <<Op("load", "config"), Op("hold", "wallet"), Op("load", "wallet"),
                   Op("save", "wallet")>> \o AddTransaction \o <<Op("drop", "wallet")>>

\* Refused for its header or its URL.
BlockedPay == <<Op("load", "config")>> \o AddTransaction

Pay == <<Op("load", "config"), Op("hold", "wallet"), Op("load", "wallet"),
         Op("load", "config"), Op("load", "history"), Op("save", "wallet")>>
         \o AddTransaction \o <<Op("drop", "wallet")>>

AtomicDeduct_ReadsFirst == <<Op("read", "wallet"), Op("hold", "wallet"),
                             Op("replace", "wallet"), Op("drop", "wallet")>>

AtomicDeduct == <<Op("hold", "wallet"), Op("read", "wallet"),
                  Op("replace", "wallet"), Op("drop", "wallet")>>

\* Refused for its URL, its key or its amount, or not paid for.
FreeProxy == <<>>

\* Paid for, and then the paid retry raised: answered 500 as one that was not
\* paid for, and nothing is deducted.
LostProxy == <<>>

SkillAdd    == <<Op("load", "credentials"), Op("save", "credentials")>>
SkillDeduct == <<Op("load", "credentials"), Op("save", "credentials"), Op("present", "credentials")>>
SkillPurge  == <<Op("load", "credentials"), Op("save", "credentials")>>
CoreAdd     == <<Op("load", "credentials"), Op("replace", "credentials")>>
CoreDeduct  == <<Op("load", "credentials"), Op("replace", "credentials")>>
CorePurge   == <<Op("load", "credentials"), Op("replace", "credentials")>>

Program ==
  [setup |-> Setup, status |-> WalletStatus, history |-> WalletHistory, doctor |-> Doctor,
   deposit |-> WalletDeposit, blocked_pay |-> BlockedPay, pay |-> Pay,
   proxy |-> AtomicDeduct, free_proxy |-> FreeProxy, lost_proxy |-> LostProxy,
   skill_add |-> SkillAdd, skill_deduct |-> SkillDeduct, skill_purge |-> SkillPurge,
   core_add |-> CoreAdd, core_deduct |-> CoreDeduct, core_purge |-> CorePurge]

Commands == DOMAIN Program

ASSUME JobsAssumption   == IsFiniteSet(Jobs) /\ CommandsOf \in [Jobs -> SUBSET Commands]
ASSUME AmountAssumption == {Initial, Price, PackageCalls, HistoryLimit, MaxKills} \subseteq Nat

VARIABLES
  files,        \* what is in each file, as a set: the key, the balance, the
                \* transactions, the credentials with their calls
  torn,         \* the files that are truncated and not written yet
  exists,       \* the files there are
  locks,        \* the flocks that are held, each by a handle
  cmd, step, phase, view,   \* of a job: command, place, half-done save, what it loaded
  result,       \* of a job
  kills,        \* processes killed so far
  tornReads,    \* history: the files some load found truncated
  overlapped,   \* history: the files two jobs were rewriting at once
  lapsed        \* history: the calls purged with a credential that had expired

homeVars == <<files, torn, exists, locks, cmd, step, phase, view, result, kills,
          tornReads, overlapped, lapsed>>

Running(j) == result[j] = "running"
Ended(j)   == result[j] \notin {"waiting", "running"}
At(j, o, f) == /\ Running(j)
               /\ step[j] <= Len(Program[cmd[j]])
               /\ Program[cmd[j]][step[j]] = Op(o, f)

\* flock: any number of shared handles or one exclusive one, whoever owns them.
Free(f, mode) ==
  \A l \in locks : l.file = f => mode = "shared" /\ l.mode = "shared"
Lock(j, f, mode, handle) == [file |-> f, job |-> j, mode |-> mode, handle |-> handle]
HeldBy(j) == {l \in locks : l.job = j}

The(S) == CHOOSE x \in S : TRUE

-----------------------------------------------------------------------------
(* What the commands make of what they load.                               *)

Credits(j) == view[j]["credentials"]

Usable_MoreThanOne(C) == {c \in C : c.calls > 1 /\ c.live}

\* is_valid: with a call left, and not expired.
Usable(C)  == {c \in C : c.calls > 0 /\ c.live}
OutOfDate(C) == {c \in C : ~c.live}
CallsIn(C) == SumFunctionOnSet([c \in C |-> c.calls], C)

\* The entries of a list are numbered as they were added.
First(C)  == CHOOSE c \in C : \A d \in C : c.no <= d.no
Newest(C) == IF C = {} THEN 0 ELSE Max({c.no : c \in C})

Author(j) == IF cmd[j] \in {"core_add", "core_deduct", "core_purge"} THEN "core" ELSE "skill"

Purges(j) == cmd[j] \in {"skill_purge", "core_purge"}

\* A transaction, which the history keeps with those before it up to the limit.
WithTransaction(j, H) ==
  LET n == Newest(H) + 1
  IN  {e \in H \union {[id |-> j, no |-> n]} : e.no > n - HistoryLimit}

Change(j, f) ==
  CASE f = "config"  -> {j}
    [] f = "wallet"  -> IF cmd[j] = "setup" THEN {Initial}
                        ELSE IF cmd[j] = "deposit" THEN {The(view[j][f]) + Price}
                        ELSE {The(view[j][f]) - Price}
    [] f = "history" -> WithTransaction(j, view[j][f])
    [] f = "credentials" ->
         CASE cmd[j] \in {"skill_add", "core_add"} ->
                Credits(j) \union {[id |-> j, calls |-> PackageCalls, by |-> Author(j),
                                    live |-> TRUE, no |-> Newest(Credits(j)) + 1]}
           [] cmd[j] \in {"skill_deduct", "core_deduct"} ->
                LET c == First(Usable(Credits(j)))
                IN  (Credits(j) \ {c}) \union {[c EXCEPT !.calls = @ - 1, !.by = Author(j)]}
           [] OTHER -> Usable(Credits(j))

\* What a save of it drops with the credentials that have expired.
Lapses(j, f) == IF f = "credentials" /\ Purges(j) THEN CallsIn(OutOfDate(Credits(j))) ELSE 0

Stops_Unchecked(j, f, data) ==
  CASE f = "config"  -> cmd[j] \in {"deposit", "pay", "blocked_pay"} /\ data = {}
    [] f = "wallet"  -> CASE cmd[j] = "setup" -> data # {}
                          [] cmd[j] = "proxy" -> data = {}
                          [] OTHER -> cmd[j] # "doctor" /\ data = {}
    [] f = "history" -> FALSE
    [] f = "credentials" ->
         CASE cmd[j] \in {"skill_deduct", "core_deduct"} -> Usable(data) = {}
           [] Purges(j) -> Usable(data) = data
           [] OTHER -> FALSE

\* The early returns after a load, by what it found.
Stops(j, f, data) ==
  CASE f = "config"  -> cmd[j] \in {"deposit", "pay", "blocked_pay"} /\ data = {}
    [] f = "wallet"  -> CASE cmd[j] = "setup" -> data # {}
                          [] cmd[j] = "proxy" -> data = {} \/ The(data) < Price
                          [] OTHER -> cmd[j] # "doctor" /\ data = {}
    [] f = "history" -> FALSE
    [] f = "credentials" ->
         CASE cmd[j] \in {"skill_deduct", "core_deduct"} -> Usable(data) = {}
           [] Purges(j) -> Usable(data) = data
           [] OTHER -> FALSE

\* What the job ends with when it stops there.
StopsWith(j) == IF cmd[j] = "setup" THEN "kept"
                ELSE IF Purges(j) THEN "ok" ELSE "refused"

\* The job has loaded the file and will save what it made of it.
Rewrites(j, f) ==
  LET P == Program[cmd[j]]
  IN  /\ Running(j)
      /\ \E k \in step[j] .. Len(P) :
           /\ P[k].file = f /\ P[k].op \in {"save", "replace", "ensure"}
           /\ \A n \in step[j] .. k : ~(P[n].file = f /\ P[n].op \in {"load", "read"})

-----------------------------------------------------------------------------
\* All a job keeps is the key that a setup returns.
Kept(j) == [f \in Files |-> IF f # "config" \/ cmd[j] # "setup" THEN {}
                            ELSE IF view[j][f] = {} THEN {j} ELSE view[j][f]]

\* Every way out goes through the finally blocks, which drop the locks.
Finish_Keeps(j, r) ==
  /\ result' = [result EXCEPT ![j] = r]
  /\ locks' = IF r = "ok" THEN locks \ HeldBy(j) ELSE locks
  /\ view' = [view EXCEPT ![j] = Kept(j)]

Finish(j, r) ==
  /\ result' = [result EXCEPT ![j] = r]
  /\ locks' = locks \ HeldBy(j)
  /\ view' = [view EXCEPT ![j] = Kept(j)]

\* On to the next operation, with the inner handle closed.
Advance(j, held) ==
  IF step[j] = Len(Program[cmd[j]])
  THEN Finish(j, "ok") /\ UNCHANGED step
  ELSE /\ step' = [step EXCEPT ![j] = @ + 1]
       /\ locks' = held
       /\ UNCHANGED <<result, view>>

Start(j, c) ==
  /\ result[j] = "waiting"
  /\ \A k \in Jobs : Process[k] = Process[j] => ~Running(k)
  /\ cmd' = [cmd EXCEPT ![j] = c]
  /\ result' = [result EXCEPT ![j] = IF Program[c] # <<>> THEN "running"
                                     ELSE IF c = "lost_proxy" THEN "raised" ELSE "ok"]
  /\ UNCHANGED <<files, torn, exists, locks, step, phase, view, kills, tornReads, overlapped,
                 lapsed>>

Hold(j) ==
  /\ \E f \in Guarded : /\ At(j, "hold", f)
                        /\ Free(f, "exclusive")
                        /\ Advance(j, locks \union {Lock(j, f, "exclusive", "outer")})
  /\ UNCHANGED <<files, torn, exists, cmd, phase, kills, tornReads, overlapped, lapsed>>

Drop(j) ==
  /\ \E f \in Guarded : At(j, "drop", f) /\ Advance(j, locks \ HeldBy(j))
  /\ UNCHANGED <<files, torn, exists, cmd, phase, kills, tornReads, overlapped, lapsed>>

\* What a load finds.  A truncated file is no JSON: the config's load and the
\* bridge's read raise, the others take it for an absent one.
Found(f) == IF f \in exists \ torn THEN files[f] ELSE {}

\* The skill's clients compare a naive date with the one of a credential, and
\* the core's dates are aware.
MeetsCoreDate(j, data) ==
  LET compared == {c \in data : c.calls > 0}
      foreign  == {c \in compared : c.by = "core"}
  IN  \/ /\ cmd[j] = "skill_deduct"
         /\ \E c \in foreign : \A d \in Usable(data) : c.no <= d.no
      \/ cmd[j] = "skill_purge" /\ foreign # {}

Raises_Missing(j, f, o) ==
  \/ f \in torn /\ f = "config"
  \/ f \notin exists \ torn /\ o = "read"
  \/ f = "credentials" /\ MeetsCoreDate(j, Found(f))

Raises(j, f, o) ==
  \/ f \in torn /\ (f = "config" \/ o = "read")
  \/ f = "credentials" /\ MeetsCoreDate(j, Found(f))

Shares_No(j, o, f) == TRUE

\* A load of a guarded file that exists takes the shared lock on a new handle.
Shares(j, o, f) == o = "load" /\ f \in Guarded /\ f \in exists => Free(f, "shared")

Load(j) ==
  \E f \in Files, o \in {"load", "read"} :
    /\ At(j, o, f)
    /\ Shares(j, o, f)
    /\ tornReads' = tornReads \union ({f} \intersect torn)
    /\ IF Raises(j, f, o)
       THEN Finish(j, "raised") /\ UNCHANGED <<step, overlapped>>
       ELSE IF Stops(j, f, Found(f))
       THEN Finish(j, StopsWith(j)) /\ UNCHANGED <<step, overlapped>>
       ELSE /\ IF step[j] = Len(Program[cmd[j]])
               THEN Finish(j, "ok") /\ UNCHANGED step
               ELSE /\ view' = [view EXCEPT ![j][f] = Found(f)]
                    /\ step' = [step EXCEPT ![j] = @ + 1]
                    /\ UNCHANGED <<result, locks>>
            /\ overlapped' = IF \E k \in Jobs \ {j} : Rewrites(k, f)
                              THEN overlapped \union {f} ELSE overlapped
    /\ UNCHANGED <<files, torn, exists, cmd, phase, kills, lapsed>>

\* ensure saves only when the load found nothing.
Missing_Always(data) == TRUE

Missing(data) == data = {}

\* open(file, "w") truncates; the lock, if there is one, is held until close.
Truncate(j) ==
  \E f \in Files, o \in {"save", "ensure"} :
    /\ At(j, o, f) /\ phase[j] = "ready"
    /\ o = "ensure" => Missing(view[j][f])
    /\ f \in Guarded => Free(f, "exclusive")
    /\ phase' = [phase EXCEPT ![j] = "truncated"]
    /\ torn' = torn \union {f}
    /\ exists' = exists \union {f}
    /\ locks' = IF f \in Guarded THEN locks \union {Lock(j, f, "exclusive", "inner")} ELSE locks
    /\ UNCHANGED <<files, cmd, step, view, result, kills, tornReads, overlapped, lapsed>>

Write(j) ==
  \E f \in Files, o \in {"save", "ensure"} :
    /\ At(j, o, f) /\ phase[j] = "truncated"
    /\ phase' = [phase EXCEPT ![j] = "ready"]
    /\ files' = [files EXCEPT ![f] = Change(j, f)]
    /\ torn' = torn \ {f}
    /\ lapsed' = lapsed + Lapses(j, f)
    /\ Advance(j, {l \in locks : ~(l.job = j /\ l.handle = "inner")})
    /\ UNCHANGED <<exists, cmd, kills, tornReads, overlapped>>

SkipEnsure(j) ==
  /\ At(j, "ensure", "config") /\ ~Missing(view[j]["config"])
  /\ Advance(j, locks)
  /\ UNCHANGED <<files, torn, exists, cmd, phase, kills, tornReads, overlapped, lapsed>>

Replace(j) ==
  \E f \in Files :
    /\ At(j, "replace", f)
    /\ files' = [files EXCEPT ![f] = Change(j, f)]
    /\ torn' = torn \ {f}
    /\ lapsed' = lapsed + Lapses(j, f)
    /\ exists' = exists \union {f}
    /\ Advance(j, locks)
    /\ UNCHANGED <<cmd, phase, kills, tornReads, overlapped>>

\* The seller of the skill trusts the credential's own count: one with no call
\* left after the deduction is refused.
Present(j) ==
  /\ At(j, "present", "credentials")
  /\ Finish(j, IF First(Usable(Credits(j))).calls > 1 THEN "ok" ELSE "not_served")
  /\ UNCHANGED <<files, torn, exists, cmd, step, phase, kills, tornReads, overlapped, lapsed>>

\* The days of a package run out.  A client tests a credential right after it
\* loads it, so that a date which passes before the save changes nothing.
Expire ==
  /\ \A j \in Jobs : ~Rewrites(j, "credentials")
  /\ \E c \in files["credentials"] :
       /\ c.live
       /\ files' = [files EXCEPT !["credentials"] = (@ \ {c}) \union {[c EXCEPT !.live = FALSE]}]
  /\ UNCHANGED <<torn, exists, locks, cmd, step, phase, view, result, kills, tornReads,
                 overlapped, lapsed>>

Kill(p) ==
  /\ kills < MaxKills
  /\ \E j \in Jobs : Process[j] = p /\ Running(j)
  /\ kills' = kills + 1
  /\ LET dead == {j \in Jobs : Process[j] = p /\ Running(j)}
     IN  /\ result' = [j \in Jobs |-> IF j \in dead THEN "killed" ELSE result[j]]
         /\ locks' = {l \in locks : l.job \notin dead}
         /\ view' = [j \in Jobs |-> IF j \in dead THEN [f \in Files |-> {}] ELSE view[j]]
  /\ UNCHANGED <<files, torn, exists, cmd, step, phase, tornReads, overlapped, lapsed>>

HomeInit ==
  /\ files = [f \in Files |-> {}]
  /\ torn = {} /\ exists = {} /\ locks = {}
  /\ cmd = [j \in Jobs |-> "doctor"]
  /\ step = [j \in Jobs |-> 1]
  /\ phase = [j \in Jobs |-> "ready"]
  /\ view = [j \in Jobs |-> [f \in Files |-> {}]]
  /\ result = [j \in Jobs |-> "waiting"]
  /\ kills = 0 /\ tornReads = {} /\ overlapped = {} /\ lapsed = 0

Work(j) == \/ Hold(j) \/ Drop(j) \/ Load(j) \/ Truncate(j) \/ Write(j)
           \/ SkipEnsure(j) \/ Replace(j) \/ Present(j)

HomeNext == \/ \E j \in Jobs : Work(j) \/ (\E c \in CommandsOf[j] : Start(j, c))
        \/ Expire
        \/ \E p \in {Process[j] : j \in Jobs} : Kill(p)

HomeSpec == HomeInit /\ [][HomeNext]_homeVars

-----------------------------------------------------------------------------
(* Properties.                                                             *)

Deducted(j) == cmd[j] = "proxy" /\ (result[j] = "ok" \/ At(j, "drop", "wallet"))
Credited(j) == cmd[j] \in {"skill_add", "core_add"} /\ result[j] = "ok"
Used(j)     == \/ cmd[j] = "skill_deduct"
                    /\ (result[j] \in {"ok", "not_served"} \/ At(j, "present", "credentials"))
               \/ cmd[j] = "core_deduct" /\ result[j] = "ok"
Recorded(j) == cmd[j] \in {"setup", "blocked_pay"} /\ result[j] = "ok"
Setups      == {j \in Jobs : cmd[j] = "setup"}
Count(P(_)) == Cardinality({j \in Jobs : P(j)})

\* Every variable has the values the programs give it.
HomeTypeOK ==
  /\ DOMAIN files = Files
  /\ files["config"] \subseteq Jobs /\ files["history"] \subseteq [id : Jobs, no : Nat]
  /\ files["wallet"] \subseteq 0 .. Initial /\ Cardinality(files["wallet"]) <= 1
  /\ files["credentials"] \subseteq [id : Jobs, calls : 0 .. PackageCalls, by : {"core", "skill"},
                                 live : BOOLEAN, no : Nat]
  /\ {torn, exists, tornReads, overlapped} \subseteq SUBSET Files
  /\ torn \subseteq exists
  /\ locks \subseteq [file : Guarded, job : Jobs, mode : {"shared", "exclusive"},
                      handle : {"outer", "inner"}]
  /\ \A f \in Files : Cardinality({l \in locks : l.file = f}) <= 1
  /\ result \in [Jobs -> {"waiting", "running", "ok", "kept", "refused", "raised",
                          "not_served", "killed"}]
  /\ phase \in [Jobs -> {"ready", "truncated"}] /\ kills \in 0 .. MaxKills /\ lapsed \in Nat

\* skill.py:193-252, "load with file locking": what a locked load meets is a
\* whole file, unless a process was killed while it saved.
LockedLoadsAreWhole == tornReads \intersect Guarded # {} => kills > 0

\* bridge.py:160-201, "atomically deduct": no deduction is lost and none is made
\* twice, whichever processes deduct at once and whatever else uses the wallet,
\* as long as one setup made the file and nobody was killed.
DeductionsAreKept ==
  Cardinality(Setups) <= 1 /\ kills = 0 /\ files["wallet"] # {}
    => files["wallet"] = {Initial - Price * Count(Deducted)}

\* skill.py:255-276: the history has the last transactions that were recorded,
\* as many as it keeps, each once.
HistoryIsLast ==
  LET H == files["history"]
      n == Count(Recorded)
  IN  /\ {e.no : e \in H} = {k \in 1 .. n : k > n - HistoryLimit}
      /\ \A e \in H : Recorded(e.id)
      /\ \A d, e \in H : d.id = e.id \/ d.no = e.no => d = e

\* The two prepaid clients: the calls in the credentials file are the calls
\* bought less the calls used and the calls that expired before a purge,
\* whatever is added, used and purged by whom.  A file that two jobs rewrote at
\* once, or one that was killed in the middle, is excepted here and above.
KeptUnlessOverlapped ==
  kills = 0 =>
    /\ "history" \notin overlapped => HistoryIsLast
    /\ "credentials" \notin overlapped =>
         CallsIn(files["credentials"]) + lapsed = PackageCalls * Count(Credited) - Count(Used)

\* skill.py:416-440: the key a setup returns is the one every later command asks
\* for, unless two setups made one at the same time or one was killed.
SetupsAgree ==
  kills = 0 /\ "config" \notin overlapped =>
    \A j \in Setups : result[j] \in {"ok", "kept"} => files["config"] = view[j]["config"]

\* bridge.py:400-425: the bridge answers 500 without a word of the payment it
\* made only when the paid retry raised (x402_middleware.py:291) or somebody was
\* killed in the middle of saving the wallet.
PaidIsReported ==
  \A j \in Jobs : cmd[j] \in {"proxy", "lost_proxy"} /\ result[j] = "raised" =>
    kills > 0 \/ cmd[j] = "lost_proxy"

\* A job waits for a lock it holds itself: skill.py:494-496 and :587-590.
Wedged ==
  \E j \in Jobs : \E l \in HeldBy(j) :
    l.handle = "outer" /\ (At(j, "save", l.file) \/ (At(j, "load", l.file) /\ l.file \in exists))

\* The job is at an operation that takes no lock, finds its lock free, or has it.
CanWork(j) ==
  \E f \in Files :
    \/ At(j, "hold", f) /\ Free(f, "exclusive")
    \/ \E o \in {"load", "read"} : At(j, o, f) /\ Shares(j, o, f)
    \/ \E o \in {"save", "ensure"} :
         /\ At(j, o, f)
         /\ phase[j] = "truncated" \/ f \notin Guarded \/ Free(f, "exclusive")
    \/ \E o \in {"drop", "replace", "present"} : At(j, o, f)

\* skill.py:81-93 and bridge.py:199-201: as long as a job is running some job
\* can go on, so that every command and every proxied request ends, unless a
\* deposit or a payment waits for itself.
OnlyWedgesBlock ==
  (\E j \in Jobs : Running(j)) => Wedged \/ \E j \in Jobs : CanWork(j)

\* What the commands add to or take from a file stays added and taken, but for
\* the oldest transactions of a full history and the calls of an expired package,
\* unless two of them overlapped on a file no lock protects or one was killed
\* (bridge.py:160-201, skill.py:255-276, client.py:102).
FilesAreKept == HomeTypeOK /\ DeductionsAreKept /\ KeptUnlessOverlapped /\ SetupsAgree

\* A torn file comes of a kill alone, and a payment hidden behind an answer 500 of
\* a kill or of the paid retry itself (skill.py:193-252, bridge.py:400-425).
TornFilesHaveCause == LockedLoadsAreWhole /\ PaidIsReported
==============================================================================
