----------------------------- MODULE GatewayClocks -----------------------------
(***************************************************************************)
(* The three clocks a request meets at the gateway's door, each watched on *)
(* its own: the rate window of its caller (RateLimiter), the replay window *)
(* of its stamp and nonce (NonceLog), and the grace window of its payment  *)
(* against the pauses of the buyer's delivery worker (Redelivery).         *)
(***************************************************************************)
EXTENDS NonceLog

CONSTANTS
  Callers, MaxRequests, RateWindow, MaxKeys,
  ReplayWindow, Grace, OrderAge, OrderBackoff, PollInterval, SendTimeout, OrderRetries,
  MaxPayTime, MinChances

ASSUME ClocksAssumption ==
  /\ {MaxRequests, MaxKeys, ReplayWindow, Grace, OrderAge, OrderRetries,
      MaxPayTime, MinChances} \subseteq Nat
  /\ {RateWindow, OrderBackoff, PollInterval, SendTimeout} \subseteq Nat \ {0}
  /\ IsFiniteSet(Callers)

\* An answer comes while its stamp is fresh, and the pause before the third
\* re-send, the worker's cycle and the re-send itself fit into the grace window.
ASSUME ScheduleAssumption ==
  /\ SendTimeout <= ReplayWindow
  /\ OrderRetries >= 3
  /\ OrderAge + PollInterval + SendTimeout < Grace
  /\ 4 * OrderBackoff + PollInterval + SendTimeout <= Grace

VARIABLES
  watched,      \* the clock that is looked at
  requests, lastSweep, admitted, refused,
  paidOrder, retryCount, updatedAt, polledAt, sent, reply, recordedAt, delivered,
  chances, stale, answerLost

Limiter  == INSTANCE RateLimiter
Delivery == INSTANCE Redelivery
            WITH order <- paidOrder, StaleAge <- OrderAge, BaseBackoff <- OrderBackoff,
                 MaxRetries <- OrderRetries

limiterState  == <<requests, lastSweep, admitted, refused>>
deliveryState == <<paidOrder, retryCount, updatedAt, polledAt, sent, reply, recordedAt, delivered,
                   chances, stale, answerLost>>

ClocksInit ==
  /\ watched \in {"rate", "replay", "grace"}
  /\ LogInit /\ Limiter!LimiterInit /\ Delivery!RedeliveryInit

ClocksNext ==
  /\ UNCHANGED watched
  /\ \/ watched = "replay" /\ LogNext /\ UNCHANGED <<limiterState, deliveryState>>
     \/ watched = "rate" /\ Limiter!LimiterNext /\ UNCHANGED <<seen, passed, last, before, deliveryState>>
     \/ watched = "grace" /\ Delivery!RedeliveryNext /\ UNCHANGED <<seen, passed, last, before, limiterState>>

ClocksSpec == ClocksInit /\ [][ClocksNext]_<<watched, logVars, limiterState, deliveryState>>

-----------------------------------------------------------------------------
(* No caller gets more than its rate, the tables of callers and of nonces  *)
(* keep their limits, and a refused caller has come too often or met a     *)
(* table of callers that came within two windows (rate_limiter.py:32,      *)
(* replay_guard.py:_prune).                                                *)
DoorIsFair == LogTypeOK /\ TableIsBounded /\ Limiter!LimiterIsFair

(* A paid order that is given up undelivered had its tries within the      *)
(* grace window (delivery_worker.py:134, replay_guard.py:262).             *)
EnoughChances == Delivery!EnoughChances
==============================================================================
