CONSTANTS
  Requests = {r1, r2, r3}
  Tenants = {t1, t2}
  Keys = {k1, k2}
  Operations = {order, rfq}
  Null = null
SPECIFICATION IdempotencySpec
INVARIANTS IdempotencyTypeOK OneRecordPerKey LogsStandForRecords AnswersFitTheCall
PROPERTIES ImplementsAtMostOnce EveryRequestEnds
