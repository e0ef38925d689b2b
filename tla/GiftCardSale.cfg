SPECIFICATION Spec
CONSTANTS
  Cards = {c1}
  LegacyCards = {}
  Requests = {r1, r2}
  Sweepers = {s1}
  Drainers = {d1}
  NoCard = NoCard
  FaceValue = 2
  MaxRedemptions = 1
  SweepBatch = 1
  PaidOutcomes = {"paid", "paidOdd"}
SYMMETRY RequestSymmetry
CONSTRAINT DrainMeetsOne
INVARIANTS
  ValueConserved
  LiveMeansPaid
  ReceiptOnce
  ClosedOnlyWhenLost
PROPERTY LedgerSpec
CHECK_DEADLOCK FALSE
