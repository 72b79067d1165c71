SPECIFICATION FairSpec

CONSTANTS
  Requests = {r1}
  Calls = {c1, c2, c3}
  Messages = {m1}
  Expiries = {0, 3}
  LinkTtl = 1
  MaxTime = 2
  None = None

INVARIANTS
  TypeOK
  AnswerMatchesStatus
  AcknowledgedAnswerStored
  TransactionHoldsRow
  LifecycleStamps
  InviteStatusTruthful
  CopyNeverAhead

PROPERTIES
  StatusOnlyAdvances
  OpenedAtWriteOnce
  LinkSpec
  EveryCallAnswered

CHECK_DEADLOCK FALSE
