SPECIFICATION OnlineSpec
CONSTANTS
  Bills = {b1}
  Sales = {}
  Tills = {t1}
  Refs = {k1}
  NoBill = NoBill
  NoRef = NoRef
  TillTenders = {"CASH"}
  MaxGoods = 1
  MaxTip = 0
  MaxPayments = 1
  Wallet <- Empty
SYMMETRY Symmetry
CONSTRAINT NoReversals
INVARIANT NeverLost
CHECK_DEADLOCK FALSE
