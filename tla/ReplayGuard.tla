---------------------------- MODULE ReplayGuard ----------------------------
(***************************************************************************)
(* The gateway's in-memory replay guard: a message carries a time stamp    *)
(* and a nonce, and is let through once, within Window of its stamp.       *)
(*                                                                         *)
(* seen is the OrderedDict of nonces and the times they were let through   *)
(* at.  It is pruned from its oldest entry on; the clock never steps back, *)
(* so that is the same as dropping every entry that is too old.  A message *)
(* with no stamp, no nonce or a nonce that is too long is refused before   *)
(* anything is looked at, and is left out.  A stamp is what float() makes  *)
(* of a header, so it may be NaN, with which every comparison is false.    *)
(***************************************************************************)
EXTENDS Integers, FiniteSets

CONSTANTS
  Nonces,       \* the nonces that messages carry
  NaN,          \* the stamp that is not a number
  Window,       \* replay_window_seconds
  MaxCache      \* _MAX_NONCE_CACHE

ASSUME WindowAssumption == Window \in Nat
ASSUME CacheAssumption  == MaxCache \in Nat
ASSUME NaNAssumption    == NaN \notin Int
ASSUME NoncesAssumption == IsFiniteSet(Nonces)

VARIABLES
  now,          \* the server's clock
  seen          \* nonce -> when it was let through

guardVars == <<now, seen>>

GuardInit ==
  /\ now = 0
  /\ seen = [n \in {} |-> 0]

\* Refused are the stamps more than a window behind or ahead of the clock:
\* neither test is true of NaN.
Fresh(stamp) ==
  stamp # NaN => now - stamp <= Window /\ stamp - now <= Window

\* What _prune keeps: twice the window, since a stamp may be ahead of the
\* clock by one window and behind it by another.  Variant: one window only.
Live_OneWindow == {n \in DOMAIN seen : seen[n] >= now - Window}
Live == {n \in DOMAIN seen : seen[n] >= now - 2 * Window}

Pruned == [n \in Live |-> seen[n]]

\* Variants: the nonce is recorded with the client's stamp; the stamp is
\* recorded for the nonce; the table may hold one entry too many.
Accept_ClientTime(n, stamp) ==
  /\ Fresh(stamp)
  /\ n \notin DOMAIN seen
  /\ Cardinality(Live) < MaxCache
  /\ seen' = [m \in Live \cup {n} |-> IF m # n THEN seen[m]
                                         ELSE IF stamp = NaN THEN now ELSE stamp]

Accept_SwappedKey(n, stamp) ==
  /\ Fresh(stamp)
  /\ n \notin DOMAIN seen
  /\ Cardinality(Live) < MaxCache
  /\ seen' = [m \in Live \cup {stamp} |-> IF m = stamp THEN now ELSE seen[m]]

Accept_OneTooMany(n, stamp) ==
  /\ Fresh(stamp)
  /\ n \notin DOMAIN seen
  /\ Cardinality(Live) <= MaxCache
  /\ seen' = [m \in Live \cup {n} |-> IF m = n THEN now ELSE seen[m]]

Accept(n, stamp) ==
  /\ Fresh(stamp)
  /\ n \notin DOMAIN seen
  /\ Cardinality(Live) < MaxCache
  /\ seen' = [m \in Live \cup {n} |-> IF m = n THEN now ELSE seen[m]]

RefuseStale(n, stamp) ==
  /\ ~Fresh(stamp)
  /\ UNCHANGED seen

RefuseDuplicate(n, stamp) ==
  /\ Fresh(stamp)
  /\ n \in DOMAIN seen
  /\ UNCHANGED seen

\* The table is full even after pruning: nothing is let through.
RefuseOverload(n, stamp) ==
  /\ Fresh(stamp)
  /\ n \notin DOMAIN seen
  /\ Cardinality(Live) >= MaxCache
  /\ seen' = Pruned

Refuse(n, stamp) ==
  RefuseStale(n, stamp) \/ RefuseDuplicate(n, stamp) \/ RefuseOverload(n, stamp)

\* The process was started again: the table was in memory.
Forget == seen' = [n \in {} |-> 0]

GuardTypeOK ==
  /\ now \in Nat
  /\ DOMAIN seen \subseteq Nonces
  /\ seen \in [DOMAIN seen -> Int]

=============================================================================
