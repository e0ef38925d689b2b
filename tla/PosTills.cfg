SPECIFICATION TillsSpec
CONSTANTS
  Bills = {b1, b2}
  Sales = {s1}
  Tills = {t1, t2}
  Refs = {}
  NoBill = NoBill
  NoRef = NoRef
  TillTenders = {"CASH", "GIFT_CARD"}
  MaxGoods = 2
  MaxTip = 1
  MaxPayments = 2
  Wallet <- Rich
SYMMETRY TillsSymmetry
CONSTRAINT OneOrTwo
INVARIANTS
  CoveredAlone
  GiftDebitsRecorded
PROPERTIES
  RefundBounded
  CardsArePaidFor
CHECK_DEADLOCK FALSE
