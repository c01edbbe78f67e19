------------------------------ MODULE NonceLog ------------------------------
(***************************************************************************)
(* The replay guard of one process run, met by any sequence of messages in *)
(* any order and after any delay, with a log of what it let through.       *)
(***************************************************************************)
EXTENDS ReplayGuard

CONSTANTS
  Stamps,       \* the stamps that messages carry
  MaxTime       \* bound: the clock stops here

ASSUME StampsAssumption == Stamps \subseteq Int \cup {NaN}
ASSUME TimeAssumption   == MaxTime \in Nat

VARIABLES
  passed,       \* how often each message was let through, up to 2
  last,         \* when each nonce was last let through, -1 for never
  before        \* when it was let through the time before that

logVars == <<now, seen, passed, last, before>>

Never == -1

LogInit ==
  /\ GuardInit
  /\ passed = [m \in Nonces \X Stamps |-> 0]
  /\ last   = [n \in Nonces |-> Never]
  /\ before = [n \in Nonces |-> Never]

LetThrough(n, stamp) ==
  /\ Accept(n, stamp)
  /\ passed' = [passed EXCEPT ![<<n, stamp>>] = IF @ < 2 THEN @ + 1 ELSE @]
  /\ last'   = [last EXCEPT ![n] = now]
  /\ before' = [before EXCEPT ![n] = last[n]]
  /\ UNCHANGED now

TurnAway(n, stamp) ==
  /\ Refuse(n, stamp)
  /\ UNCHANGED <<now, passed, last, before>>

LogTick ==
  /\ now < MaxTime
  /\ now' = now + 1
  /\ UNCHANGED <<seen, passed, last, before>>

LogNext ==
  \/ \E n \in Nonces, stamp \in Stamps : LetThrough(n, stamp) \/ TurnAway(n, stamp)
  \/ LogTick

LogSpec == LogInit /\ [][LogNext]_logVars

LogTypeOK ==
  /\ GuardTypeOK
  /\ passed \in [Nonces \X Stamps -> 0..2]
  /\ last \in [Nonces -> Int]
  /\ before \in [Nonces -> Int]

-----------------------------------------------------------------------------
(* Properties *)

\* However long messages are delayed and however often they are duplicated,
\* whatever was let through or pruned in between: one whose stamp is a number
\* is let through at most once, and none of its nonce twice within two windows
\* (one whose stamp is NaN, replay_guard.py:63, may come again after that).
MessageOnce ==
  /\ \A n \in Nonces, s \in Stamps \ {NaN} : passed[<<n, s>>] <= 1
  /\ \A n \in Nonces : before[n] # Never => last[n] - before[n] > 2 * Window

\* The table holds the nonces let through in the last two windows and, once
\* pruned, only those: a fresh message is turned away as a flood only if
\* MaxCache others really came in that time.
TableIsRecent ==
  Live = {n \in Nonces : last[n] # Never /\ last[n] >= now - 2 * Window}

\* The table never outgrows its limit, also while nothing prunes it.
TableIsBounded == Cardinality(DOMAIN seen) <= MaxCache

=============================================================================
