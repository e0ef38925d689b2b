SPECIFICATION CrashingSpec
CONSTANTS
  Bills = {b1, b2, b3}
  Sales = {}
  Tills = {t1}
  Refs = {}
  NoBill = NoBill
  NoRef = NoRef
  TillTenders = {"GIFT_CARD"}
  MaxGoods = 3
  MaxTip = 0
  MaxPayments = 2
  Wallet <- Rich
SYMMETRY Symmetry
CONSTRAINT OddBills
INVARIANTS
  Covered
  GiftNotFree
  SplitAddsUp
CHECK_DEADLOCK FALSE
