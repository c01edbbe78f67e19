------------------------------ MODULE RateLimiter ------------------------------
(***************************************************************************)
(* The gateway's rate limiter: a table of callers with the times at which  *)
(* each was let through.  allow is one call without an await: it sweeps    *)
(* the table once per window, prunes the caller's own times, refuses a new *)
(* caller when the table is full and a known one at its rate, and records  *)
(* the rest.                                                               *)
(***************************************************************************)
EXTENDS Integers, FiniteSetsExt, SequencesExt

CONSTANTS
  Callers,
  MaxRequests,    \* let through per caller and window
  RateWindow,
  MaxKeys,        \* callers in the table
  MaxTime         \* bound: the clock stops here

VARIABLES
  now,
  requests,       \* caller -> the times it was let through at, pruned
  lastSweep,
  admitted,       \* history: caller -> all the times it was let through at
  refused         \* history: the caller of the last call, if it was refused

limiterVars == <<now, requests, lastSweep, admitted, refused>>

Cutoff == now - RateWindow

\* Variant: a caller is swept when its oldest time has expired.
Expired_Oldest(times) == times = <<>> \/ Head(times) <= Cutoff

Expired(times) == times = <<>> \/ Last(times) <= Cutoff

Swept ==
  IF now - lastSweep > RateWindow
  THEN Restrict(requests, {c \in DOMAIN requests : ~Expired(requests[c])})
  ELSE requests

\* Times ascend, as the clock never steps back: the recent ones are the last.
Recent(times) ==
  LET recent == {i \in DOMAIN times : times[i] > Cutoff}
  IN  IF recent = {} THEN <<>> ELSE SubSeq(times, Min(recent), Len(times))

\* The table after the sweep and the pruning of c; a caller without a time left
\* is taken out.
Pruned(c) ==
  LET table == Swept
      mine  == IF c \in DOMAIN table THEN Recent(table[c]) ELSE <<>>
  IN  [k \in (DOMAIN table \ {c}) \union (IF mine = <<>> THEN {} ELSE {c}) |->
         IF k = c THEN mine ELSE table[k]]

\* Variant: the limit of the table is forgotten.
HasNoRoom_Ever(table, c) == FALSE

HasNoRoom(table, c) == c \notin DOMAIN table /\ Cardinality(DOMAIN table) >= MaxKeys

\* Looking up a caller that has room makes an entry for it, also when the rate
\* lets nobody through.
Allow(c) ==
  LET table   == Pruned(c)
      times   == IF c \in DOMAIN table THEN table[c] ELSE <<>>
      noRoom  == HasNoRoom(table, c)
      refuses == noRoom \/ Len(times) >= MaxRequests
  IN  /\ lastSweep' = IF now - lastSweep > RateWindow THEN now ELSE lastSweep
      /\ requests' = IF noRoom THEN table
                     ELSE [k \in DOMAIN table \union {c} |->
                             IF k # c THEN table[k]
                             ELSE IF refuses THEN times ELSE Append(times, now)]
      /\ admitted' = IF refuses THEN admitted
                     ELSE [admitted EXCEPT ![c] = Append(@, now)]
      /\ refused' = IF refuses THEN {c} ELSE {}
      /\ UNCHANGED now

Pass == /\ now < MaxTime
        /\ now' = now + 1
        /\ refused' = {}
        /\ UNCHANGED <<requests, lastSweep, admitted>>

LimiterInit ==
  /\ requests = [c \in {} |-> <<>>]
  /\ lastSweep = -RateWindow - 1
  /\ admitted = [c \in Callers |-> <<>>]
  /\ refused = {}

LimiterNext == Pass \/ \E c \in Callers : Allow(c)

-----------------------------------------------------------------------------
\* Which of the times c was let through at lie between two.
Within(c, from, to) ==
  {i \in DOMAIN admitted[c] : from < admitted[c][i] /\ admitted[c][i] <= to}

(* rate_limiter.py:32-60: no caller gets more than its rate in any window; *)
(* the table never outgrows its limit; and whoever is refused is at its    *)
(* rate, or is new while as many others as the table holds came within the *)
(* last two windows: those that went a window ago still count against a    *)
(* new caller until the next sweep.                                        *)
LimiterIsFair ==
  /\ \A c \in Callers : \A t \in 0 .. now : Cardinality(Within(c, t - RateWindow, t)) <= MaxRequests
  /\ Cardinality(DOMAIN requests) <= MaxKeys
  /\ \A c \in refused :
       \/ Cardinality(Within(c, Cutoff, now)) >= MaxRequests
       \/ /\ Within(c, Cutoff, now) = {}
          /\ Cardinality({k \in Callers \ {c} : Within(k, now - 2 * RateWindow, now) # {}})
               >= MaxKeys
==============================================================================
