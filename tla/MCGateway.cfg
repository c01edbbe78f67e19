CONSTANTS
  q1 = q1
  q2 = q2
  q3 = q3
  t1 = t1
  n1 = n1
  n2 = n2
  Requests = {q1, q2, q3}
  Txs = {t1}
  Nonces = {n1, n2}
  Message <- MCMessage
  Window = 1
  MaxCache = 1
  NaN = NaN
  Grace = 2
  PruneAge = 3
  MaxTime = 6
  MaxFaults = 2
SPECIFICATION Spec
INVARIANTS
  TypeOK
  WorkIsRecorded
  AnswerIsEarned
  RepeatHasExcuse
PROPERTY
  KeepsReceipts
