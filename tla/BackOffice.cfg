SPECIFICATION OfficeSpec
CONSTANTS
  Cards = {c1}
  Refunds = {f1, f2}
  Price = 2
  MaxDocuments = 3
  Nobody = Nobody
  NoRefund = NoRefund
  NoCard = NoCard
  Requests = {r1, r2}
  Sessions = {s1, s2}
  Keys = {k1, k2}
  Quantity = 2
  NoSession = NoSession
  NoKey = NoKey
  Venues = {v1, v2}
  Counts = {n1}
  Deliveries = {y1}
  PurchaseOrders = {o1}
  Sheets <- SomeSheets
  NoVenue = NoVenue
  NoRow = NoRow
  Blank = Blank
  NoLine = NoLine
  MaxQty = 2
  MaxCounted = 1
  MaxWrites = 3
  Phones = {p1, p2}
  Rounds = {g1, g2}
  Tabs = {1, 2}
  NoTab = NoTab
  Claimed = Claimed
SYMMETRY Symmetry
CONSTRAINT OnePaper
INVARIANTS
  OfficeTypeOK
  CreditsCovered
  CancelledIsUnpaid
  PoolOnce
  OneCardPerKey
  FigureExplained
  ReversedIsUndone
  ReceivedOnce
  RoundOnce
CHECK_DEADLOCK FALSE
