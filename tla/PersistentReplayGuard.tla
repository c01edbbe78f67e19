----------------------- MODULE PersistentReplayGuard ------------------------
(***************************************************************************)
(* The gateway's SQLite tables of consumed transactions and of cached      *)
(* responses.  All handlers use one connection: what a statement wrote is  *)
(* seen by all of them at once, and survives a restart of the gateway,     *)
(* which prunes what is old, only if a commit, anybody's, came after it.   *)
(***************************************************************************)
EXTENDS Integers

CONSTANTS
  Txs,          \* the transactions that buyers pay with
  Grace,        \* grace_seconds
  PruneAge      \* prune's max_age_seconds

ASSUME GraceAssumption == Grace \in Nat
ASSUME PruneAssumption == PruneAge \in Nat /\ Grace <= PruneAge

VARIABLES
  now,          \* the server's clock
  recordedAt,   \* consumed_tx_hashes: when each was recorded, Never if absent
  delivered,    \* consumed_tx_hashes.delivered
  cachedAt,     \* response_cache: when a response was stored, Never if absent
  saved         \* the three columns as they were last committed

tableVars == <<recordedAt, delivered, cachedAt>>
storeVars == <<tableVars, saved>>

Tables == [recordedAt |-> recordedAt, delivered |-> delivered, cachedAt |-> cachedAt]

Never == -1

StoreInit ==
  /\ recordedAt = [t \in Txs |-> Never]
  /\ delivered  = [t \in Txs |-> FALSE]
  /\ cachedAt   = [t \in Txs |-> Never]
  /\ saved      = Tables

Known(t) == recordedAt[t] # Never

\* Variant: the delivered column is not looked at.
TxStatus_GraceOnly(t) ==
  IF ~Known(t) THEN "NEW"
  ELSE IF now - recordedAt[t] > Grace THEN "EXPIRED"
  ELSE "WITHIN_GRACE"

RowStatus(recorded, done) ==
  IF recorded = Never THEN "NEW"
  ELSE IF done \/ now - recorded > Grace THEN "EXPIRED"
  ELSE "WITHIN_GRACE"

TxStatus(t) == RowStatus(recordedAt[t], delivered[t])

\* INSERT OR IGNORE.  Variants: INSERT OR REPLACE; recorded_at is the grace
\* window's cutoff instead of the present.
RecordTx_Replace(t) ==
  /\ recordedAt' = [recordedAt EXCEPT ![t] = now]
  /\ delivered'  = [delivered  EXCEPT ![t] = FALSE]
  /\ UNCHANGED <<cachedAt, saved>>

RecordTx_Cutoff(t) ==
  /\ recordedAt' = [recordedAt EXCEPT ![t] = IF Known(t) THEN @ ELSE now - Grace]
  /\ UNCHANGED <<delivered, cachedAt, saved>>

RecordTx(t) ==
  /\ recordedAt' = [recordedAt EXCEPT ![t] = IF Known(t) THEN @ ELSE now]
  /\ UNCHANGED <<delivered, cachedAt, saved>>

\* UPDATE: nothing happens if the row is not there.
MarkDelivered(t) ==
  /\ delivered' = [delivered EXCEPT ![t] = Known(t)]
  /\ UNCHANGED <<recordedAt, cachedAt, saved>>

CacheResponse(t) ==
  /\ cachedAt' = [cachedAt EXCEPT ![t] = now]
  /\ UNCHANGED <<recordedAt, delivered, saved>>

\* The open transaction of the shared connection is committed; or SQLite takes it
\* back, which is what a statement or a commit that fails may do (the code never
\* does): then the tables are again what was saved.
Commit == saved' = Tables /\ UNCHANGED tableVars

RollBack ==
  /\ recordedAt' = saved.recordedAt
  /\ delivered'  = saved.delivered
  /\ cachedAt'   = saved.cachedAt
  /\ UNCHANGED saved

\* What the present transaction would take with it.
OpenRow(t)  == recordedAt[t] # saved.recordedAt[t]
Unsaved(t)  == OpenRow(t) \/ delivered[t] # saved.delivered[t]

TooOld(at) == at # Never /\ at < now - PruneAge

\* A new connection sees what was saved; prune deletes what is old and commits.
Reopen ==
  /\ recordedAt' = [t \in Txs |-> IF TooOld(saved.recordedAt[t]) THEN Never
                                  ELSE saved.recordedAt[t]]
  /\ delivered'  = [t \in Txs |-> saved.delivered[t] /\ ~TooOld(saved.recordedAt[t])]
  /\ cachedAt'   = [t \in Txs |-> IF TooOld(saved.cachedAt[t]) THEN Never
                                  ELSE saved.cachedAt[t]]
  /\ saved'      = Tables'

StoreTypeOK ==
  /\ recordedAt \in [Txs -> Nat \cup {Never}]
  /\ delivered  \in [Txs -> BOOLEAN]
  /\ cachedAt   \in [Txs -> Nat \cup {Never}]
  /\ saved \in [recordedAt : [Txs -> Nat \cup {Never}],
               delivered  : [Txs -> BOOLEAN],
               cachedAt   : [Txs -> Nat \cup {Never}]]

=============================================================================
