----------------------------- MODULE Interception -----------------------------
(***************************************************************************)
(* monkey.py: enable and disable patch httpx and requests, and a patched   *)
(* call that meets a 402 challenge pays through a middleware that all the  *)
(* calls share.  The first call runs the wallet's init_db and, in test     *)
(* mode, gives an empty wallet its money, under an asyncio.Lock; the       *)
(* module variable _middleware is read again after every await.            *)
(*                                                                         *)
(* A call runs on a loop: an httpx call is a coroutine of the              *)
(* application's loop, a requests call made on that loop's thread blocks   *)
(* it and is handled by the one thread of a pool, a requests call of       *)
(* another thread runs in a loop of its own.  An asyncio.Lock knows        *)
(* nothing of threads: a release wakes a waiter of another loop only if    *)
(* that loop is not asleep already, and a lock that was waited for on one  *)
(* loop cannot be waited for on another.                                   *)
(***************************************************************************)
EXTENDS Integers, FiniteSetsExt, SequencesExt

CONSTANTS
  Calls,
  KindsOf,          \* what a call may be: "coroutine", "blocking" or "thread"
  TopUp,            \* the auto-fund, in payments
  MaxDepth,         \* bound: nested enables
  MaxGenerations,   \* bound: middlewares made in one behaviour
  MaxFailures       \* bound: enables that raise

VARIABLES
  depth, patched,
  middleware,       \* the current middleware, numbered; 0 is None
  made,             \* middlewares made so far
  flagged,          \* the middlewares with _wallet_initialized
  ready,            \* the middlewares whose wallet has run init_db
  locks,            \* the init lock of each middleware's time
  queue,            \* the pool of each middleware's time: the first is running
  kind, pc, mine, lockOf, \* of a call: kind, place, its middleware, its lock
  answer,           \* unpaid: the original 402, or the middleware's refusal
  paid,
  balance,
  gaveUp,           \* history: the calls answered by the 60 s of future.result
  raised,           \* history: the calls whose paid retry raised
  crossings,        \* history: calls in or before an init when the patches went
  failures,         \* history: enables that raised so far
  failed            \* history: the depth counts an enable that raised

vars == <<depth, patched, middleware, made, flagged, ready, locks, queue, kind, pc, mine,
          lockOf, answer, paid, balance, gaveUp, raised, crossings, failures, failed>>

switch  == <<kind, depth, patched, middleware, made, crossings, failures, failed>>
wallets == <<flagged, ready, balance>>

Generations == 0 .. MaxGenerations
Initializing == {"init", "balance", "deposit"}
AtLock(c) == pc[c] \in Initializing \union {"waiting", "woken", "asleep"}

\* The loop a call's coroutine runs on.
LoopOf(c) == IF kind[c] = "coroutine" THEN {} ELSE {c}

\* A requests call on the loop's thread holds the loop until it is answered.
LoopBlocked == \E c \in Calls : kind[c] = "blocking" /\ pc[c] # "idle" /\ answer[c] = "none"

Runs(c) == CASE kind[c] = "coroutine" -> ~LoopBlocked
             [] kind[c] = "blocking"  -> \E g \in Generations : queue[g] # <<>> /\ Head(queue[g]) = c
             [] OTHER -> TRUE

-----------------------------------------------------------------------------
(* enable and disable, on any thread                                       *)

Enable ==
  /\ depth < MaxDepth
  /\ depth' = depth + 1
  /\ IF depth > 0 THEN UNCHANGED <<patched, middleware, made>>
     ELSE /\ made < MaxGenerations
          /\ made' = made + 1
          /\ middleware' = made + 1
          /\ patched' = TRUE
  /\ UNCHANGED <<wallets, locks, queue, kind, pc, mine, lockOf, answer, paid,
                 gaveUp, raised, crossings, failures, failed>>

\* load_config or get_provider raises: the depth has been counted already.
EnableFails ==
  /\ depth = 0
  /\ failures < MaxFailures
  /\ depth' = 1
  /\ failures' = failures + 1
  /\ failed' = TRUE
  /\ UNCHANGED <<patched, middleware, made, wallets, locks, queue, kind, pc, mine, lockOf,
                 answer, paid, gaveUp, raised, crossings>>

LastOne_Any == TRUE

\* The disable that takes the patches away.
LastOne == depth = 1

Disable ==
  /\ depth > 0
  /\ depth' = depth - 1
  /\ IF LastOne
     THEN /\ patched' = FALSE
          /\ middleware' = 0
          /\ crossings' = crossings + Cardinality({c \in Calls : AtLock(c)})
          /\ failed' = FALSE
     ELSE UNCHANGED <<patched, middleware, crossings, failed>>
  /\ UNCHANGED <<made, wallets, locks, queue, kind, pc, mine, lockOf, answer, paid, gaveUp,
                 raised, failures>>

-----------------------------------------------------------------------------
(* The end of a call: its answer goes to a caller that still waits, and    *)
(* the pool's thread takes the next one.                                   *)

Ended(c, a) ==
  /\ answer' = [answer EXCEPT ![c] = IF @ = "none" THEN a ELSE @]
  /\ queue'  = [g \in Generations |->
                  IF queue[g] # <<>> /\ Head(queue[g]) = c THEN Tail(queue[g]) ELSE queue[g]]

Keeps == UNCHANGED <<answer, queue>>

(* The lock of the middleware's time.                                      *)

Deaf(w, c) == LoopOf(w) # LoopOf(c) /\ ~(kind[w] = "coroutine" /\ LoopBlocked)

\* The places after c went to p and left the lock to the first of the waiters.
Woken(c, p, waiters) ==
  LET moved == [pc EXCEPT ![c] = p]
  IN  IF waiters = <<>> THEN {moved}
      ELSE {[moved EXCEPT ![Head(waiters)] = q] :
              q \in IF Deaf(Head(waiters), c) THEN {"woken", "asleep"} ELSE {"woken"}}

Unlock(c, p) ==
  LET l == locks[lockOf[c]]
  IN  /\ locks' = [locks EXCEPT ![lockOf[c]].owner = {}]
      /\ pc' \in Woken(c, p, l.waiters)

\* Payment handling raised: the original 402.
Raise(c) == Unlock(c, "done") /\ Ended(c, "unpaid") /\ UNCHANGED mine

\* The flag goes to whatever middleware there is now, and so does the caller.
Flag(c) ==
  IF middleware = 0 THEN Raise(c) /\ UNCHANGED flagged
  ELSE /\ flagged' = flagged \union {middleware}
       /\ mine' = [mine EXCEPT ![c] = middleware]
       /\ Unlock(c, "pay")
       /\ Keeps

\* The next await on the current middleware's wallet, which must be open.
UseWallet(c, p) ==
  IF middleware \notin ready' THEN Raise(c)
  ELSE /\ pc' = [pc EXCEPT ![c] = p]
       /\ mine' = [mine EXCEPT ![c] = middleware]
       /\ Keeps /\ UNCHANGED locks

\* With the lock: the init of the current middleware's wallet.
BeginInit_Flagged(c) ==
  /\ pc' = [pc EXCEPT ![c] = "init"]
  /\ mine' = [mine EXCEPT ![c] = middleware]
  /\ flagged' = flagged \union {middleware}
  /\ Keeps

BeginInit(c) ==
  /\ pc' = [pc EXCEPT ![c] = "init"]
  /\ mine' = [mine EXCEPT ![c] = middleware]
  /\ Keeps /\ UNCHANGED flagged

-----------------------------------------------------------------------------
(* A patched call                                                          *)

Free_Always(l) == TRUE

Free(l) == l.owner = {} /\ l.waiters = <<>>

Send(c) ==
  /\ pc[c] = "idle"
  /\ kind[c] # "thread" => ~LoopBlocked
  /\ IF patched THEN pc' = [pc EXCEPT ![c] = "sent"] /\ UNCHANGED answer
     ELSE pc' = [pc EXCEPT ![c] = "done"] /\ answer' = [answer EXCEPT ![c] = "unpaid"]
  /\ UNCHANGED <<switch, wallets, locks, queue, mine, lockOf, paid, gaveUp, raised>>

\* Not a 402, or no challenge in it, or disabled meanwhile; or to be paid for.
Intercept(c) ==
  /\ pc[c] = "sent"
  /\ kind[c] = "coroutine" => ~LoopBlocked
  /\ \/ pc' = [pc EXCEPT ![c] = "done"] /\ Ended(c, "unpaid")
     \/ /\ depth > 0
        /\ pc' = [pc EXCEPT ![c] = "start"]
        /\ queue' = IF kind[c] = "blocking"
                    THEN [queue EXCEPT ![middleware] = Append(@, c)] ELSE queue
        /\ UNCHANGED answer
  /\ UNCHANGED <<switch, wallets, locks, mine, lockOf, paid, gaveUp, raised>>

GetMiddleware(c) ==
  /\ pc[c] = "start"
  /\ Runs(c)
  /\ LET l == locks[middleware]
     IN  \/ /\ middleware = 0 \/ (middleware \notin flagged /\ ~Free(l) /\ l.loop \notin {{}, {LoopOf(c)}})
            /\ pc' = [pc EXCEPT ![c] = "done"]
            /\ Ended(c, "unpaid")
            /\ UNCHANGED <<flagged, locks, mine, lockOf>>
         \/ /\ middleware # 0 /\ middleware \in flagged
            /\ pc' = [pc EXCEPT ![c] = "pay"]
            /\ mine' = [mine EXCEPT ![c] = middleware]
            /\ Keeps /\ UNCHANGED <<flagged, locks, lockOf>>
         \/ /\ middleware # 0 /\ middleware \notin flagged /\ Free(l)
            /\ locks' = [locks EXCEPT ![middleware].owner = {c}]
            /\ lockOf' = [lockOf EXCEPT ![c] = middleware]
            /\ BeginInit(c)
         \/ /\ middleware # 0 /\ middleware \notin flagged /\ ~Free(l)
            /\ l.loop \in {{}, {LoopOf(c)}}
            /\ locks' = [locks EXCEPT ![middleware].waiters = Append(@, c),
                                      ![middleware].loop = {LoopOf(c)}]
            /\ lockOf' = [lockOf EXCEPT ![c] = middleware]
            /\ pc' = [pc EXCEPT ![c] = "waiting"]
            /\ Keeps /\ UNCHANGED <<flagged, mine>>
  /\ UNCHANGED <<switch, ready, balance, paid, gaveUp, raised>>

\* The second look at the flag, with the lock held.
Enter(c) ==
  /\ pc[c] = "woken"
  /\ Runs(c)
  /\ LET g == lockOf[c]
         others == Tail(locks[g].waiters)
     IN  IF middleware = 0 \/ middleware \in flagged
         THEN /\ locks' = [locks EXCEPT ![g].waiters = others]
              /\ pc' \in Woken(c, IF middleware = 0 THEN "done" ELSE "pay", others)
              /\ mine' = [mine EXCEPT ![c] = middleware]
              /\ IF middleware = 0 THEN Ended(c, "unpaid") ELSE Keeps
              /\ UNCHANGED flagged
         ELSE /\ locks' = [locks EXCEPT ![g] = [@ EXCEPT !.owner = {c}, !.waiters = others]]
              /\ BeginInit(c)
  /\ UNCHANGED <<switch, ready, balance, lockOf, paid, gaveUp, raised>>

\* init_db opens the wallet it was called on.
Opens(c) == ready \union {mine[c]}

InitDb(c) ==
  /\ pc[c] = "init"
  /\ Runs(c)
  /\ ready' = Opens(c)
  /\ UseWallet(c, "balance")
  /\ UNCHANGED <<switch, flagged, balance, lockOf, paid, gaveUp, raised>>

ReadBalance(c) ==
  /\ pc[c] = "balance"
  /\ Runs(c)
  /\ UNCHANGED ready
  /\ IF balance = 0 THEN UseWallet(c, "deposit") /\ UNCHANGED flagged ELSE Flag(c)
  /\ UNCHANGED <<switch, balance, lockOf, paid, gaveUp, raised>>

Deposit(c) ==
  /\ pc[c] = "deposit"
  /\ Runs(c)
  /\ balance' = balance + TopUp
  /\ Flag(c)
  /\ UNCHANGED <<switch, ready, lockOf, paid, gaveUp, raised>>

\* handle_request: it raises, answers without a payment, or pays.
Pay(c) ==
  /\ pc[c] = "pay"
  /\ Runs(c)
  /\ \/ /\ pc' = [pc EXCEPT ![c] = "done"]
        /\ Ended(c, "unpaid")
        /\ UNCHANGED <<balance, paid>>
     \/ /\ mine[c] \in ready
        /\ balance > 0
        /\ balance' = balance - 1
        /\ paid' = paid \union {c}
        /\ pc' = [pc EXCEPT ![c] = "paid"]
        /\ Keeps
  /\ UNCHANGED <<switch, flagged, ready, locks, mine, lockOf, gaveUp, raised>>

Result_IfEnabled(c) == IF depth > 0 THEN "served" ELSE "unpaid"

Result(c) == "served"

\* handle_request answers; or its paid retry raises, and the caller is handed
\* the original 402.
Return(c) ==
  /\ pc[c] = "paid"
  /\ Runs(c)
  /\ \/ Ended(c, Result(c)) /\ UNCHANGED raised
     \/ Ended(c, "unpaid") /\ raised' = raised \union {c}
  /\ pc' = [pc EXCEPT ![c] = "done"]
  /\ UNCHANGED <<switch, wallets, locks, mine, lockOf, paid, gaveUp>>

HasTimeout_No(c) == FALSE

HasTimeout(c) == kind[c] = "blocking"

\* future.result(timeout=60): the task stays in the pool.
GiveUp(c) ==
  /\ HasTimeout(c)
  /\ pc[c] \notin {"idle", "sent", "done"}
  /\ answer[c] = "none"
  /\ answer' = [answer EXCEPT ![c] = "unpaid"]
  /\ gaveUp' = gaveUp \union {c}
  /\ UNCHANGED <<switch, wallets, locks, queue, pc, mine, lockOf, paid, raised>>

\* Some other event of the application's loop makes it look at its queue.
Nudge(c) ==
  /\ pc[c] = "asleep"
  /\ kind[c] = "coroutine"
  /\ ~LoopBlocked
  /\ pc' = [pc EXCEPT ![c] = "woken"]
  /\ UNCHANGED <<switch, wallets, locks, queue, mine, lockOf, answer, paid, gaveUp, raised>>

-----------------------------------------------------------------------------
Init ==
  /\ depth = 0 /\ patched = FALSE
  /\ middleware = 0 /\ made = 0
  /\ flagged = {} /\ ready = {}
  /\ locks = [g \in Generations |-> [owner |-> {}, waiters |-> <<>>, loop |-> {}]]
  /\ queue = [g \in Generations |-> <<>>]
  /\ kind \in {k \in [Calls -> UNION Range(KindsOf)] : \A c \in Calls : k[c] \in KindsOf[c]}
  /\ pc = [c \in Calls |-> "idle"]
  /\ mine = [c \in Calls |-> 0]
  /\ lockOf = [c \in Calls |-> 0]
  /\ answer = [c \in Calls |-> "none"]
  /\ paid = {}
  /\ balance = 0
  /\ gaveUp = {} /\ raised = {} /\ crossings = 0 /\ failures = 0 /\ failed = FALSE

Work(c) == \/ Intercept(c) \/ GetMiddleware(c) \/ Enter(c) \/ InitDb(c)
           \/ ReadBalance(c) \/ Deposit(c) \/ Pay(c) \/ Return(c)

Next == \/ Enable \/ EnableFails \/ Disable
        \/ \E c \in Calls : Send(c) \/ Work(c) \/ GiveUp(c) \/ Nudge(c)

Spec == Init /\ [][Next]_vars

-----------------------------------------------------------------------------
Places == {"idle", "sent", "start", "waiting", "woken", "asleep", "init", "balance",
           "deposit", "pay", "paid", "done"}

(* The types, and: a middleware exists only while enabled; an init lock is *)
(* owned by the one call that runs the init of its time.                   *)
TypeOK ==
  /\ depth \in 0 .. MaxDepth /\ patched \in BOOLEAN /\ failed \in BOOLEAN
  /\ {middleware, made} \subseteq Generations
  /\ patched <=> middleware # 0
  /\ depth = 0 => ~patched
  /\ flagged \subseteq Generations \ {0} /\ ready \subseteq Generations \ {0}
  /\ pc \in [Calls -> Places]
  /\ mine \in [Calls -> Generations] /\ lockOf \in [Calls -> Generations]
  /\ answer \in [Calls -> {"none", "unpaid", "served"}]
  /\ paid \subseteq Calls /\ gaveUp \subseteq Calls /\ raised \subseteq Calls
  /\ balance \in Nat /\ crossings \in Nat /\ failures \in 0 .. MaxFailures
  /\ \A g \in Generations :
       locks[g].owner = {c \in Calls : pc[c] \in Initializing /\ lockOf[c] = g}

(* While the count says enabled the two libraries are patched, unless an   *)
(* enable raised after it had counted itself and nobody has undone it: a   *)
(* nested disable never takes the patches from the block around it.        *)
PatchedWhileEnabled == depth > 0 => patched \/ failed

(* A middleware that is taken for initialised has an open wallet, unless a *)
(* disable fell into an init: then the init of one middleware flags the    *)
(* next, and every call of that one gets its original 402.                 *)
FlagIsTrue == crossings = 0 => flagged \subseteq ready

(* However many first calls arrive at once, on however many loops, an      *)
(* empty wallet gets its money once, and once more at most for every init  *)
(* that a disable fell into.                                               *)
OneTopUp == balance <= TopUp * (1 + crossings)

(* A call that was paid for gets what it paid for, even when the patches   *)
(* are taken away meanwhile, but in two cases: a blocking call whose 60 s  *)
(* were over, whose task still pays in the pool, and a call whose paid     *)
(* retry raised (x402_middleware.py:291), which gets the original 402.     *)
PaidIsReturned == \A c \in paid : answer[c] = "unpaid" => c \in gaveUp \union raised

(* No call is left without an answer: one that waits can be followed, over *)
(* the init lock and the loop that a blocking call holds, to a call that   *)
(* can go on or that gives up after its 60 s.  The exception is a call on  *)
(* a loop that slept through the release of the init lock by another loop: *)
(* nothing wakes it any more.                                              *)
Pending(c)  == pc[c] \notin {"idle", "done"}
GoesOn(c)   == \/ Pending(c) /\ Runs(c) /\ pc[c] # "waiting"
               \/ kind[c] = "blocking" /\ pc[c] = "sent"
               \/ HasTimeout(c) /\ answer[c] = "none" /\ Pending(c)
               \/ pc[c] = "asleep"
WaitsFor(c) == {o \in Calls \ {c} :
                  \/ kind[c] = "coroutine" /\ kind[o] = "blocking" /\ answer[o] = "none"
                  \/ /\ pc[c] = "waiting"
                     /\ lockOf[o] = lockOf[c]
                     /\ pc[o] \in Initializing \union {"woken", "asleep"}}
EveryWaitEnds ==
  \A c \in Calls : Pending(c) /\ answer[c] = "none" =>
    \/ GoesOn(c)
    \/ \E o \in WaitsFor(c) : Pending(o) /\ (GoesOn(o) \/ \E q \in WaitsFor(o) : GoesOn(q))
==============================================================================
