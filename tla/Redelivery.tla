------------------------------ MODULE Redelivery ------------------------------
(***************************************************************************)
(* The clocks of one paid order, buyer and gateway together, in units of   *)
(* half a minute.  The paid retry repeats the time stamp of the first      *)
(* request, which is as old as the payment took; the delivery worker then  *)
(* re-sends with a fresh one after ever longer pauses; the gateway takes a *)
(* stamp for one replay window and a transaction for the grace window from *)
(* the time it was recorded at, until it is delivered.  Messages and       *)
(* answers get lost, and upstream fails as long as it likes.               *)
(***************************************************************************)
EXTENDS Integers, FiniteSets

CONSTANTS
  ReplayWindow,   \* 30 s
  Grace,          \* 300 s
  StaleAge, BaseBackoff, PollInterval,   \* 30 s each
  SendTimeout,    \* 30 s
  MaxRetries,     \* 5
  MaxPayTime,     \* bound: how long the payment takes
  MinChances      \* what the schedule promises, see EnoughChances

VARIABLES
  now,
  order,          \* paying, retrying, DELIVERING, SUCCESS or FAILED
  retryCount, updatedAt,
  polledAt,       \* when the worker last looked
  sent,           \* the request that is out: its stamp and when it went
  reply,          \* its answer
  recordedAt,     \* the gateway's row: a set of at most one time
  delivered,
  chances,        \* history: tries that were lost or that could be served
  stale,          \* history: tries that were refused for their stamp
  answerLost      \* history: an answer after the work did not arrive

redeliveryVars == <<now, order, retryCount, updatedAt, polledAt, sent, reply,
                    recordedAt, delivered, chances, stale, answerLost>>

buyer   == <<order, retryCount, updatedAt, polledAt>>
gateway == <<recordedAt, delivered>>
history == <<chances, stale, answerLost>>

Quiet == sent = {} /\ reply = {}

-----------------------------------------------------------------------------
(* The buyer                                                               *)

\* The payment is through: DELIVERING is written, then the paid retry goes.
PaidRetry ==
  /\ order = "paying"
  /\ order' = "retrying"
  /\ updatedAt' = now
  /\ sent' = {[stamp |-> 0, at |-> now]}
  /\ UNCHANGED <<now, retryCount, polledAt, reply, gateway, history>>

HearsPaidRetry ==
  /\ order = "retrying"
  /\ reply # {}
  /\ order' = IF reply = {"ok"} THEN "SUCCESS" ELSE "DELIVERING"
  /\ retryCount' = IF reply = {"ok"} THEN retryCount ELSE retryCount + 1
  /\ reply' = {}
  /\ UNCHANGED <<now, updatedAt, polledAt, sent, gateway, history>>

\* The send raises, or the process dies: the row stays as it was written.
LosesPaidRetry ==
  /\ order = "retrying"
  /\ sent \union reply # {}
  /\ order' = "DELIVERING"
  /\ sent' = {} /\ reply' = {}
  /\ chances' = chances + Cardinality(sent)
  /\ answerLost' = (answerLost \/ reply = {"ok"})
  /\ UNCHANGED <<now, retryCount, updatedAt, polledAt, gateway, stale>>

Due == now - updatedAt >= BaseBackoff * 2 ^ retryCount

\* Variant: the worker repeats the stamp of the first request, too.
Stamp_Stored == 0

Stamp == now

\* One cycle of the worker over this order.
Poll ==
  /\ Quiet
  /\ order # "retrying"
  /\ now >= polledAt + PollInterval
  /\ polledAt' = now
  /\ IF order = "DELIVERING" /\ now - updatedAt > StaleAge
     THEN IF retryCount >= MaxRetries THEN order' = "FAILED" /\ UNCHANGED sent
          ELSE /\ sent' = IF Due THEN {[stamp |-> Stamp, at |-> now]} ELSE {}
               /\ UNCHANGED order
     ELSE UNCHANGED <<order, sent>>
  /\ UNCHANGED <<now, retryCount, updatedAt, reply, gateway, history>>

HearsResend ==
  /\ order = "DELIVERING"
  /\ reply # {}
  /\ order' = IF reply = {"ok"} THEN "SUCCESS" ELSE "DELIVERING"
  /\ retryCount' = IF reply = {"ok"} THEN retryCount ELSE retryCount + 1
  /\ updatedAt' = IF reply = {"ok"} THEN updatedAt ELSE now
  /\ polledAt' = now
  /\ reply' = {}
  /\ UNCHANGED <<now, sent, gateway, history>>

LosesResend ==
  /\ order = "DELIVERING"
  /\ sent \union reply # {}
  /\ retryCount' = retryCount + 1
  /\ updatedAt' = now
  /\ polledAt' = now
  /\ sent' = {} /\ reply' = {}
  /\ chances' = chances + Cardinality(sent)
  /\ answerLost' = (answerLost \/ reply = {"ok"})
  /\ UNCHANGED <<now, order, gateway, stale>>

-----------------------------------------------------------------------------
(* The gateway                                                             *)

TooOld(s) == now - s.stamp > ReplayWindow

\* Variant: the grace window is no longer than the replay window.
Open_OneWindow == \A t \in recordedAt : now - t <= ReplayWindow

\* New, or within grace; a delivered transaction is not.
Open == ~delivered /\ \A t \in recordedAt : now - t <= Grace

Refuse ==
  \E s \in sent :
    /\ TooOld(s) \/ ~Open
    /\ stale' = stale + (IF TooOld(s) THEN 1 ELSE 0)
    /\ sent' = {} /\ reply' = {"refused"}
    /\ UNCHANGED <<now, buyer, gateway, chances, answerLost>>

Serve ==
  \E s \in sent :
    /\ ~TooOld(s) /\ Open
    /\ recordedAt' = IF recordedAt = {} THEN {now} ELSE recordedAt
    /\ \E works \in BOOLEAN :
         /\ delivered' = works
         /\ reply' = {IF works THEN "ok" ELSE "failed"}
    /\ sent' = {}
    /\ chances' = chances + 1
    /\ UNCHANGED <<now, buyer, stale, answerLost>>

\* A request is answered or raises within its timeout, the worker looks when it
\* is time, the payment ends.
Later ==
  /\ order \notin {"SUCCESS", "FAILED"}
  /\ \A s \in sent : now - s.at < SendTimeout
  /\ reply = {}
  /\ order = "DELIVERING" /\ sent = {} => now < polledAt + PollInterval
  /\ order = "paying" => now < MaxPayTime
  /\ now' = now + 1
  /\ UNCHANGED <<buyer, sent, reply, gateway, history>>

RedeliveryInit ==
  /\ order = "paying" /\ retryCount = 0 /\ updatedAt = 0 /\ polledAt = 0
  /\ sent = {} /\ reply = {}
  /\ recordedAt = {} /\ delivered = FALSE
  /\ chances = 0 /\ stale = 0 /\ answerLost = FALSE

RedeliveryNext ==
  \/ PaidRetry \/ HearsPaidRetry \/ LosesPaidRetry
  \/ Poll \/ HearsResend \/ LosesResend
  \/ Refuse \/ Serve \/ Later

-----------------------------------------------------------------------------
(* delivery_worker.py:134 against replay_guard.py:262: a paid order that   *)
(* is given up although its work was never done had MinChances tries, lost *)
(* on the way or met by a gateway that would have served them: the grace   *)
(* window holds at least so many of the pauses.  A try is refused for its  *)
(* stamp only once and only if the payment took longer than the replay     *)
(* window (x402_middleware.py:151), and that does not use the transaction  *)
(* up.  An order that is given up after its work was done is one whose     *)
(* answer was lost.                                                        *)
EnoughChances ==
  /\ order = "FAILED" /\ ~delivered => chances >= MinChances
  /\ order = "FAILED" /\ delivered => answerLost
  /\ stale <= 1
==============================================================================
