SPECIFICATION JobsSpec
CONSTANTS
  Cards = {c1}
  LegacyCards = {}
  Requests = {r1}
  Sweepers = {s1}
  Drainers = {d1}
  NoCard = NoCard
  FaceValue = 1
  MaxRedemptions = 1
  SweepBatch = 1
  PaidOutcomes = {"paid"}
PROPERTIES
  SweepHonours
  DrainSends
CHECK_DEADLOCK FALSE
