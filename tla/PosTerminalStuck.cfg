SPECIFICATION TerminalSpec
CONSTANTS
  Bills = {b1}
  Sales = {}
  Tills = {t1, t2}
  Refs = {k1}
  NoBill = NoBill
  NoRef = NoRef
  TillTenders = {"CASH"}
  MaxGoods = 1
  MaxTip = 0
  MaxPayments = 1
  Wallet <- Empty
SYMMETRY Symmetry
CONSTRAINT PayOnly
INVARIANT FinishOrCancel
CHECK_DEADLOCK FALSE
