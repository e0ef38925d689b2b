SPECIFICATION TendersSpec
CONSTANTS
  Bills = {b1, b2}
  Sales = {}
  Tills = {t1, t2}
  Refs = {k1, k2}
  NoBill = NoBill
  NoRef = NoRef
  TillTenders = {"CASH"}
  MaxGoods = 1
  MaxTip = 1
  MaxPayments = 2
  Wallet <- Empty
SYMMETRY Symmetry
CONSTRAINT OneTender
INVARIANTS
  TendersTypeOK
  BookedOnce
  BookedMeansDone
  ChargeIsLoud
  RecordedAsPaid
CHECK_DEADLOCK FALSE
