SPECIFICATION FrontSpec
CONSTANTS
  Menus = {1, 2}
  Versions = {1, 2, 3}
  Promotions = {q1}
  Requests = {r1, r2}
  Dishes = {d1}
  Offers = {o1, o2}
  NoMenu = 0
  NoVersion = 0
  NoPromotion = NoPromotion
  NoOffer = NoOffer
  MaxSaves = 1
  MaxEdits = 2
  Bookings = {b1, b2}
  Parties = {w1}
  Capacity = 2
  GuestCovers = {1, 2}
  StaffCovers = {2}
  Amounts = {1}
  MaxCharged = 9
  NoBooking = NoBooking
  NoParty = NoParty
  Guests = {g1, g2}
  NoGuest = NoGuest
SYMMETRY Symmetry
CONSTRAINTS Copying Linked Making InOrder Sittings
INVARIANTS
  VersionsKept
  ListingMatchesCard
  NobodyWaitsInACircle
  FeeOnce
  MailedOnce
PROPERTY EditsRespected
CHECK_DEADLOCK FALSE
