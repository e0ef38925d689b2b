SPECIFICATION RepairSpec
CONSTANTS
  Requests = {r1, r2}
  Desks = {d1, d2}
  Sessions = {s1}
  Keys = {k1}
  Quantity = 2
  NoSession = NoSession
  NoKey = NoKey
  Cards = {c1}
  Refunds = {f1}
  Price = 1
  MaxDocuments = 2
  Nobody = Nobody
  NoRefund = NoRefund
  NoCard = NoCard
INVARIANTS
  GapFree
  OneReceipt
PROPERTIES
  PaidIsIssued
  ReceiptIssued
CHECK_DEADLOCK FALSE
