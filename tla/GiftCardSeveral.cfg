SPECIFICATION Spec
CONSTANTS
  Cards = {c1, c2, c3}
  LegacyCards = {c3}
  Requests = {r1, r2}
  Sweepers = {}
  Drainers = {}
  NoCard = NoCard
  FaceValue = 1
  MaxRedemptions = 1
  SweepBatch = 1
  PaidOutcomes = {"paid"}
SYMMETRY RequestSymmetry
CONSTRAINT PromoCheckouts
INVARIANTS
  PromoWithinLimit
PROPERTY PersonCancelSticks
CHECK_DEADLOCK FALSE
