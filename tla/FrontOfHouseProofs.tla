-------------------------- MODULE FrontOfHouseProofs --------------------------
(***************************************************************************)
(* The card of a party that did not come is charged once at most, and a    *)
(* campaign reaches every guest once at most, for any number of bookings,  *)
(* guests and requests that retry, lose answers and die; and what is       *)
(* proved of menus holds beside them.                                      *)
(***************************************************************************)
EXTENDS MCFrontOfHouse, TLAPS


-----------------------------------------------------------------------------
(* Cards of bookings: the inductive invariant *)

\* Requests that hold the claim on the card of their booking.
Charging(p) == proc[p].at \in {"charge", "save", "release"}

\* What a request works on was there when it was read, and rows stay.
AtWork ==
    /\ \A p \in Requests :
          proc[p].at \in {"claim", "cancel"} \/ Charging(p) =>
              proc[p].booking \in Bookings /\ Exists(proc[p].booking)
    /\ \A p \in Requests : At(p, "seat") => proc[p].party \in Parties

\* Stripe takes the money with the answer it keeps.
Kept == \A b \in Bookings : taken[b] = IF stripe[b].outcome = "succeeded" THEN 1 ELSE 0

\* Only the holder of the claim is between the claim and the books, and what it
\* heard of Stripe is what Stripe keeps.
Exclusive ==
    /\ \A p \in Requests : Charging(p) => reservation[proc[p].booking].intent = "pending"
    /\ \A p, q \in Requests :
          Charging(p) /\ Charging(q) /\ proc[p].booking = proc[q].booking => p = q
    /\ \A p \in Requests : At(p, "save") =>
          stripe[proc[p].booking] = [amount |-> proc[p].amount, outcome |-> proc[p].status]

\* A fee that is booked as charged is on the books with the intent of Stripe.
Booked == \A b \in Bookings :
    reservation[b].charged =>
        /\ reservation[b].intent = "made"
        /\ stripe[b].amount = reservation[b].fee /\ stripe[b].outcome = "succeeded"

Typed == TypeOK /\ AtWork
FeeInv == Kept /\ Exclusive /\ Booked
IInv == Typed /\ FeeInv

-----------------------------------------------------------------------------
(* Types *)

USE ReservationsAssumption

LEMMA IdleType == IdleProc \in ProcRecord
BY DEF IdleProc, ProcRecord

LEMMA RowType ==
    ASSUME NEW status \in Statuses, NEW covers \in Nat, NEW card \in BOOLEAN
    PROVE  /\ Row(status, covers, card) \in ReservationRecord
           /\ Row(status, covers, card).status # "NONE"
BY DEF Row, ReservationRecord, Statuses

\* A request that goes on, or is done, over rows that do not disappear.
LEMMA Becomes ==
    ASSUME Typed, NEW p \in Requests, NEW next \in ProcRecord, Become(p, next),
           \A b \in Bookings : Exists(b) => Exists(b)',
           next.at \in {"claim", "cancel", "charge", "save", "release"} =>
               next.booking \in Bookings /\ Exists(next.booking)',
           next.at = "seat" => next.party \in Parties
    PROVE  (proc \in [Requests -> ProcRecord] /\ AtWork)'
<1>1. proc' = [proc EXCEPT ![p] = next] BY DEF Become
<1>2. proc \in [Requests -> ProcRecord] BY DEF Typed, TypeOK
<1>3. proc' \in [Requests -> ProcRecord] BY <1>1, <1>2
<1>4. ASSUME NEW q \in Requests, (proc[q].at \in {"claim", "cancel"} \/ Charging(q))'
      PROVE  (proc[q].booking \in Bookings /\ Exists(proc[q].booking))'
  <2>1. CASE q = p BY <2>1, <1>1, <1>2, <1>4 DEF Charging, Exists
  <2>2. CASE q # p
    <3>1. proc'[q] = proc[q] BY <2>2, <1>1, <1>2
    <3>2. proc[q].booking \in Bookings /\ Exists(proc[q].booking)
      BY <3>1, <1>4 DEF Typed, AtWork, Charging
    <3> QED BY <3>1, <3>2 DEF Exists
  <2> QED BY <2>1, <2>2
<1>5. ASSUME NEW q \in Requests, At(q, "seat")' PROVE proc'[q].party \in Parties
  BY <1>1, <1>2, <1>5 DEF At, Typed, AtWork
<1> QED BY <1>3, <1>4, <1>5 DEF AtWork

\* Rows that are written over while nobody moves.
LEMMA Stays ==
    ASSUME Typed, proc' = proc, \A b \in Bookings : Exists(b) => Exists(b)'
    PROVE  (proc \in [Requests -> ProcRecord] /\ AtWork)'
BY DEF Typed, TypeOK, AtWork, Charging, At, Exists

LEMMA DefaultFeeType ==
    ASSUME TypeOK, NEW b \in Bookings
    PROVE  DefaultFee(b) \in Nat
<1> DEFINE covers == reservation[b].covers
<1>1. covers \in Nat BY DEF TypeOK, ReservationRecord
<1>2. Min({covers, MaxCharged}) \in {covers, MaxCharged}
  <2> HIDE DEF covers
  <2>1. \E x \in {covers, MaxCharged} : \A y \in {covers, MaxCharged} : x <= y
    BY <1>1
  <2> QED BY <2>1 DEF Min
<1> QED BY <1>1, <1>2 DEF DefaultFee

-----------------------------------------------------------------------------
(* Steps that leave the fees alone *)

MoneyKept(b) ==
    /\ reservation'[b].intent = reservation[b].intent
    /\ reservation'[b].fee = reservation[b].fee
    /\ reservation'[b].charged = reservation[b].charged

\* Nobody goes on to charge, and a row whose fee changes is a new one.
LEMMA FeesAlone ==
    ASSUME IInv, UNCHANGED <<stripe, taken>>,
           \A q \in Requests : Charging(q)' => proc'[q] = proc[q],
           \A b \in Bookings :
               \/ MoneyKept(b)
               \/ ~reservation'[b].charged /\ ~Exists(b)
    PROVE  FeeInv'
<1>1. Kept' BY DEF IInv, FeeInv, Kept
<1>2. Booked' BY DEF IInv, FeeInv, Booked, MoneyKept
<1>3. ASSUME NEW q \in Requests, Charging(q)'
      PROVE  /\ proc'[q] = proc[q] /\ Charging(q)
             /\ proc[q].booking \in Bookings /\ MoneyKept(proc[q].booking)
  <2>1. proc'[q] = proc[q] BY <1>3
  <2>2. Charging(q) BY <1>3, <2>1 DEF Charging
  <2>3. proc[q].booking \in Bookings /\ Exists(proc[q].booking)
    BY <2>2 DEF IInv, Typed, AtWork
  <2> QED BY <2>1, <2>2, <2>3
<1>4. \A q \in Requests : Charging(q)' => reservation'[proc'[q].booking].intent = "pending"
  BY <1>3 DEF IInv, FeeInv, Exclusive, MoneyKept
<1>5. \A p, q \in Requests :
          Charging(p)' /\ Charging(q)' /\ proc'[p].booking = proc'[q].booking => p = q
  BY <1>3 DEF IInv, FeeInv, Exclusive
<1>6. \A q \in Requests : At(q, "save")' =>
          stripe'[proc'[q].booking] = [amount |-> proc'[q].amount, outcome |-> proc'[q].status]
  <2> SUFFICES ASSUME NEW q \in Requests, At(q, "save")'
               PROVE  stripe'[proc'[q].booking]
                          = [amount |-> proc'[q].amount, outcome |-> proc'[q].status]
    OBVIOUS
  <2>1. proc'[q] = proc[q] BY <1>3 DEF At, Charging
  <2>2. At(q, "save") BY <2>1 DEF At
  <2> QED BY <2>1, <2>2 DEF IInv, FeeInv, Exclusive
<1> QED BY <1>1, <1>2, <1>4, <1>5, <1>6 DEF FeeInv, Exclusive

\* A request that reads, or goes on without writing.
LEMMA ReadKeeps ==
    ASSUME IInv, NEW p \in Requests, NEW next \in ProcRecord, Become(p, next), UNCHANGED Tables,
           next.at \in {"idle", "recheck", "insert", "cancel", "seat", "claim"},
           next.at \in {"cancel", "claim"} => next.booking \in Bookings /\ Exists(next.booking),
           next.at = "seat" => next.party \in Parties
    PROVE  IInv'
<1>1. \A b \in Bookings : Exists(b) => Exists(b)' BY DEF Tables, Exists
<1>2. (proc \in [Requests -> ProcRecord] /\ AtWork)'
  BY <1>1, Becomes DEF IInv, Exists, Tables
<1>3. Typed' BY <1>2 DEF IInv, Typed, TypeOK, Tables
<1>4. \A q \in Requests : Charging(q)' => proc'[q] = proc[q]
  BY DEF Become, Charging, IInv, Typed, TypeOK
<1>5. FeeInv' BY <1>4, FeesAlone DEF Tables, MoneyKept
<1> QED BY <1>3, <1>5 DEF IInv

\* A row that is new, or has another status and size.
Rebooked(b, row) ==
    /\ row \in ReservationRecord /\ row.status # "NONE"
    /\ reservation' = [reservation EXCEPT ![b] = row]
    /\ \/ ~Exists(b) /\ ~row.charged
       \/ row.intent = reservation[b].intent /\ row.fee = reservation[b].fee
          /\ row.charged = reservation[b].charged

LEMMA RebookedKeeps ==
    ASSUME IInv, NEW b \in Bookings, NEW row, Rebooked(b, row), UNCHANGED <<stripe, taken>>,
           waiting' \in [Parties -> WaitingRecord],
           \/ proc' = proc
           \/ \E p \in Requests : Become(p, IdleProc)
    PROVE  IInv'
<1>1. /\ reservation \in [Bookings -> ReservationRecord]
      /\ proc \in [Requests -> ProcRecord]
  BY DEF IInv, Typed, TypeOK
<1>2. \A c \in Bookings : Exists(c) => Exists(c)' BY <1>1 DEF Rebooked, Exists
<1>3. (proc \in [Requests -> ProcRecord] /\ AtWork)'
  <2>1. CASE proc' = proc BY <1>2, <2>1, Stays DEF IInv
  <2>2. ASSUME NEW p \in Requests, Become(p, IdleProc)
        PROVE  (proc \in [Requests -> ProcRecord] /\ AtWork)'
    BY <1>2, <2>2, IdleType, Becomes DEF IInv, IdleProc
  <2> QED BY <2>1, <2>2
<1>4. reservation' \in [Bookings -> ReservationRecord] BY <1>1 DEF Rebooked
<1>5. Typed' BY <1>3, <1>4 DEF IInv, Typed, TypeOK
<1>6. \A q \in Requests : Charging(q)' => proc'[q] = proc[q]
  BY <1>1 DEF Become, Charging, IdleProc
<1>7. \A c \in Bookings : MoneyKept(c) \/ (~reservation'[c].charged /\ ~Exists(c))
  BY <1>1 DEF Rebooked, MoneyKept
<1>8. FeeInv' BY <1>6, <1>7, FeesAlone
<1> QED BY <1>5, <1>8 DEF IInv

-----------------------------------------------------------------------------
(* Bookings, cancellations and the waiting list *)

LEMMA ProcType ==
    ASSUME IInv, NEW p \in Requests
    PROVE  proc[p] \in ProcRecord
BY DEF IInv, Typed, TypeOK

LEMMA InsertKeeps ==
    ASSUME IInv, NEW b \in Bookings, NEW status \in Statuses, NEW covers \in Nat,
           NEW card \in BOOLEAN, Insert(b, Row(status, covers, card)),
           UNCHANGED <<stripe, taken>>, waiting' \in [Parties -> WaitingRecord],
           proc' = proc \/ \E p \in Requests : Become(p, IdleProc)
    PROVE  IInv'
<1> DEFINE row == Row(status, covers, card)
<1>1. row \in ReservationRecord /\ row.status # "NONE" BY RowType
<1>2. ~row.charged BY DEF Row
<1> HIDE DEF row
<1>3. Rebooked(b, row) BY <1>1, <1>2 DEF Rebooked, Insert, Exists, row
<1> QED BY <1>3, RebookedKeeps

LEMMA PublicBookKeeps ==
    ASSUME IInv, NEW p \in Requests, NEW b \in Bookings, PublicBook(p, b)
    PROVE  IInv'
<1>1. proc[p].covers \in Nat /\ proc[p].card \in BOOLEAN BY ProcType DEF ProcRecord
<1>2. waiting' \in [Parties -> WaitingRecord] BY DEF PublicBook, IInv, Typed, TypeOK
<1>3. "CONFIRMED" \in Statuses BY DEF Statuses
<1> QED BY <1>1, <1>2, <1>3, InsertKeeps DEF PublicBook

LEMMA CreateReservationKeeps ==
    ASSUME IInv, NEW b \in Bookings, NEW status \in Statuses, NEW covers \in StaffCovers,
           CreateReservation(b, status, covers)
    PROVE  IInv'
<1>1. covers \in Nat BY DEF ReservationsAssumption
<1>2. waiting' \in [Parties -> WaitingRecord] BY DEF CreateReservation, IInv, Typed, TypeOK
<1> QED BY <1>1, <1>2, InsertKeeps DEF CreateReservation

LEMMA UpdateReservationKeeps ==
    ASSUME IInv, NEW b \in Bookings, NEW status \in Statuses,
           NEW covers \in StaffCovers \cup {reservation[b].covers},
           UpdateReservation(b, status, covers)
    PROVE  IInv'
<1>1. reservation[b] \in ReservationRecord BY DEF IInv, Typed, TypeOK
<1>2. covers \in Nat BY <1>1 DEF ReservationRecord, ReservationsAssumption
<1> DEFINE row == [reservation[b] EXCEPT !.status = status, !.covers = covers]
<1>3. row \in ReservationRecord /\ row.status # "NONE"
  BY <1>1, <1>2 DEF ReservationRecord, Statuses
<1>4. reservation' = [reservation EXCEPT ![b] = row]
  BY DEF UpdateReservation, IInv, Typed, TypeOK
<1>5. /\ row.intent = reservation[b].intent /\ row.fee = reservation[b].fee
      /\ row.charged = reservation[b].charged
  BY <1>1 DEF ReservationRecord
<1>6. waiting' \in [Parties -> WaitingRecord] /\ UNCHANGED <<stripe, taken, proc>>
  BY DEF UpdateReservation, IInv, Typed, TypeOK
<1> HIDE DEF row
<1>7. Rebooked(b, row) BY <1>3, <1>4, <1>5 DEF Rebooked
<1> QED BY <1>6, <1>7, RebookedKeeps

LEMMA CancelKeeps ==
    ASSUME IInv, NEW p \in Requests, Cancel(p)
    PROVE  IInv'
<1> DEFINE b == proc[p].booking
           row == [reservation[b] EXCEPT !.status = "CANCELLED"]
<1>1. b \in Bookings BY DEF Cancel, At, IInv, Typed, AtWork
<1>2. reservation[b] \in ReservationRecord BY <1>1 DEF IInv, Typed, TypeOK
<1>3. row \in ReservationRecord /\ row.status # "NONE" BY <1>2 DEF ReservationRecord, Statuses
<1>4. reservation' = [reservation EXCEPT ![b] = row] BY <1>1 DEF Cancel, IInv, Typed, TypeOK
<1>5. /\ row.intent = reservation[b].intent /\ row.fee = reservation[b].fee
      /\ row.charged = reservation[b].charged
  BY <1>2 DEF ReservationRecord
<1>6. /\ waiting' \in [Parties -> WaitingRecord] /\ UNCHANGED <<stripe, taken>>
      /\ Become(p, IdleProc)
  BY DEF Cancel, IInv, Typed, TypeOK
<1> HIDE DEF row, b
<1>7. Rebooked(b, row) BY <1>3, <1>4, <1>5 DEF Rebooked
<1> QED BY <1>1, <1>6, <1>7, RebookedKeeps

LEMMA SeatWalkInKeeps ==
    ASSUME IInv, NEW p \in Requests, NEW b \in Bookings, SeatWalkIn(p, b)
    PROVE  IInv'
<1>1. proc[p].covers \in Nat BY ProcType DEF ProcRecord
<1>2. proc[p].party \in Parties BY DEF SeatWalkIn, IInv, Typed, AtWork
<1>3. waiting' \in [Parties -> WaitingRecord]
  BY <1>2 DEF SeatWalkIn, IInv, Typed, TypeOK, WaitingRecord
<1>4. "SEATED" \in Statuses BY DEF Statuses
<1> QED BY <1>1, <1>3, <1>4, InsertKeeps DEF SeatWalkIn

\* The waiting list has no say in the fees.
LEMMA WaitingKeeps ==
    ASSUME IInv, waiting' \in [Parties -> WaitingRecord],
           UNCHANGED <<reservation, stripe, taken, proc>>
    PROVE  IInv'
<1>1. Typed' BY DEF IInv, Typed, TypeOK, AtWork, Charging, At, Exists
<1>2. FeeInv' BY FeesAlone DEF MoneyKept
<1> QED BY <1>1, <1>2 DEF IInv

LEMMA ManageKeeps == ASSUME IInv, Manage PROVE IInv'
<1>1. ASSUME NEW b \in Bookings, NEW status \in Statuses, NEW covers \in StaffCovers,
             CreateReservation(b, status, covers)
      PROVE  IInv'
  BY <1>1, CreateReservationKeeps
<1>2. ASSUME NEW b \in Bookings, NEW status \in Statuses,
             NEW covers \in StaffCovers \cup {reservation[b].covers},
             UpdateReservation(b, status, covers)
      PROVE  IInv'
  BY <1>2, UpdateReservationKeeps
<1>3. ASSUME NEW b \in Bookings, NEW status \in Statuses, SetServiceState(b, status)
      PROVE  IInv'
  BY <1>3, UpdateReservationKeeps DEF SetServiceState
<1>4. ASSUME NEW w \in Parties, NEW covers \in GuestCovers, JoinWaitlist(w, covers)
      PROVE  IInv'
  <2>1. covers \in Nat BY DEF ReservationsAssumption
  <2>2. waiting' \in [Parties -> WaitingRecord]
    BY <1>4, <2>1 DEF JoinWaitlist, IInv, Typed, TypeOK, WaitingRecord
  <2> QED BY <1>4, <2>2, WaitingKeeps DEF JoinWaitlist
<1>5. ASSUME NEW w \in Parties, NEW b \in Bookings \cup {NoBooking}, LinkParty(w, b)
      PROVE  IInv'
  <2>1. waiting' \in [Parties -> WaitingRecord]
    BY <1>5 DEF LinkParty, IInv, Typed, TypeOK, WaitingRecord
  <2> QED BY <1>5, <2>1, WaitingKeeps DEF LinkParty
<1> QED BY <1>1, <1>2, <1>3, <1>4, <1>5 DEF Manage

-----------------------------------------------------------------------------
(* Reads, and requests that give up *)

LEMMA PublicBookReadKeeps ==
    ASSUME IInv, NEW p \in Requests, NEW covers \in GuestCovers, NEW card \in BOOLEAN,
           PublicBookRead(p, covers, card)
    PROVE  IInv'
<1> DEFINE next == [IdleProc EXCEPT !.at = "recheck", !.covers = covers, !.card = card]
<1>1. next \in ProcRecord /\ next.at = "recheck"
  BY DEF IdleProc, ProcRecord, ReservationsAssumption
<1>2. Become(p, next) /\ UNCHANGED Tables BY DEF PublicBookRead, Begin
<1> HIDE DEF next
<1> QED BY <1>1, <1>2, ReadKeeps

LEMMA RecheckKeeps == ASSUME IInv, NEW p \in Requests, Recheck(p) PROVE IInv'
<1> DEFINE next == [proc[p] EXCEPT !.at = "insert"]
<1>1. next \in ProcRecord /\ next.at = "insert" BY ProcType DEF ProcRecord
<1>2. Become(p, next) /\ UNCHANGED Tables BY DEF Recheck
<1> HIDE DEF next
<1> QED BY <1>1, <1>2, ReadKeeps

LEMMA CancelReadKeeps ==
    ASSUME IInv, NEW p \in Requests, NEW b \in Bookings, CancelRead(p, b)
    PROVE  IInv'
<1> DEFINE next == [IdleProc EXCEPT !.at = "cancel", !.booking = b]
<1>1. next \in ProcRecord /\ next.at = "cancel" /\ next.booking = b BY DEF IdleProc, ProcRecord
<1>2. Become(p, next) /\ UNCHANGED Tables BY DEF CancelRead, Begin
<1>3. Exists(b) BY DEF CancelRead, Reserved, Exists
<1> HIDE DEF next
<1> QED BY <1>1, <1>2, <1>3, ReadKeeps

LEMMA SeatReadKeeps ==
    ASSUME IInv, NEW p \in Requests, NEW w \in Parties, SeatRead(p, w)
    PROVE  IInv'
<1> DEFINE next == [IdleProc EXCEPT !.at = "seat", !.party = w, !.covers = waiting[w].covers]
<1>1. waiting[w].covers \in Nat BY DEF IInv, Typed, TypeOK, WaitingRecord
<1>2. next \in ProcRecord /\ next.at = "seat" /\ next.party = w
  BY <1>1 DEF IdleProc, ProcRecord
<1>3. Become(p, next) /\ UNCHANGED Tables BY DEF SeatRead, Begin
<1> HIDE DEF next
<1> QED BY <1>2, <1>3, ReadKeeps

LEMMA ChargeReadKeeps ==
    ASSUME IInv, NEW p \in Requests, NEW b \in Bookings,
           NEW amount \in Amounts \cup {DefaultFee(b)}, ChargeRead(p, b, amount)
    PROVE  IInv'
<1> DEFINE next == [IdleProc EXCEPT !.at = "claim", !.booking = b, !.amount = amount]
<1>1. amount \in Nat BY DefaultFeeType DEF IInv, Typed, ReservationsAssumption
<1>2. next \in ProcRecord /\ next.at = "claim" /\ next.booking = b
  BY <1>1 DEF IdleProc, ProcRecord
<1>3. Become(p, next) /\ UNCHANGED Tables BY DEF ChargeRead, Begin
<1>4. Exists(b) BY DEF ChargeRead
<1> HIDE DEF next
<1> QED BY <1>2, <1>3, <1>4, ReadKeeps

LEMMA LeaveKeeps == ASSUME IInv, NEW p \in Requests, Leave(p) PROVE IInv'
<1>1. Become(p, IdleProc) /\ UNCHANGED Tables BY DEF Leave
<1>2. IdleProc.at = "idle" BY DEF IdleProc
<1> QED BY <1>1, <1>2, IdleType, ReadKeeps

-----------------------------------------------------------------------------
(* chargeReservationNoShow *)

\* A request that charges writes the row of its booking.
LEMMA ChargeTypes ==
    ASSUME IInv, NEW p \in Requests, NEW next \in ProcRecord, Become(p, next),
           NEW b \in Bookings, NEW row \in ReservationRecord, row.status # "NONE",
           reservation' = [reservation EXCEPT ![b] = row], waiting' = waiting,
           next.at \in {"idle", "charge", "save", "release"},
           next.at # "idle" => next.booking = b
    PROVE  (reservation \in [Bookings -> ReservationRecord]
            /\ waiting \in [Parties -> WaitingRecord]
            /\ proc \in [Requests -> ProcRecord] /\ AtWork)'
<1>1. reservation \in [Bookings -> ReservationRecord] BY DEF IInv, Typed, TypeOK
<1>2. \A c \in Bookings : Exists(c) => Exists(c)' BY <1>1 DEF Exists
<1>3. Exists(b)' BY <1>1 DEF Exists
<1>4. next.at # "idle" => next.booking \in Bookings /\ Exists(next.booking)' BY <1>3 DEF Exists
<1>5. (proc \in [Requests -> ProcRecord] /\ AtWork)'
  BY <1>2, <1>4, Becomes DEF IInv
<1>6. reservation' \in [Bookings -> ReservationRecord] BY <1>1
<1> QED BY <1>5, <1>6 DEF IInv, Typed, TypeOK

\* The others that charge are at work on other bookings, and what they know of
\* them stays.
LEMMA OthersCharging ==
    ASSUME IInv, NEW p \in Requests, NEW b \in Bookings,
           \A q \in Requests \ {p} : ~(Charging(q) /\ proc[q].booking = b),
           \A q \in Requests \ {p} : proc'[q] = proc[q],
           \A c \in Bookings \ {b} : reservation'[c] = reservation[c] /\ stripe'[c] = stripe[c]
    PROVE  \A q \in Requests \ {p} : Charging(q)' =>
               /\ proc'[q].booking # b
               /\ reservation'[proc'[q].booking].intent = "pending"
               /\ \A r \in Requests \ {p} :
                     Charging(r)' /\ proc'[q].booking = proc'[r].booking => q = r
               /\ At(q, "save")' => stripe'[proc'[q].booking]
                                        = [amount |-> proc'[q].amount, outcome |-> proc'[q].status]
<1> SUFFICES ASSUME NEW q \in Requests \ {p}, Charging(q)'
             PROVE  /\ proc'[q].booking # b
                    /\ reservation'[proc'[q].booking].intent = "pending"
                    /\ \A r \in Requests \ {p} :
                          Charging(r)' /\ proc'[q].booking = proc'[r].booking => q = r
                    /\ At(q, "save")' =>
                          stripe'[proc'[q].booking]
                              = [amount |-> proc'[q].amount, outcome |-> proc'[q].status]
  OBVIOUS
<1>1. Charging(q) /\ proc'[q] = proc[q] BY DEF Charging
<1>2. proc[q].booking \in Bookings \ {b} BY <1>1 DEF IInv, Typed, AtWork
<1>3. \A r \in Requests \ {p} : Charging(r)' => Charging(r) /\ proc'[r] = proc[r]
  BY DEF Charging
<1>4. At(q, "save")' => At(q, "save") BY <1>1 DEF At
<1> QED BY <1>1, <1>2, <1>3, <1>4 DEF IInv, FeeInv, Exclusive

\* So the claim stays exclusive when p holds it, if p goes on at all.
LEMMA StaysExclusive ==
    ASSUME IInv, NEW p \in Requests, NEW b \in Bookings,
           \A q \in Requests \ {p} : ~(Charging(q) /\ proc[q].booking = b),
           \A q \in Requests \ {p} : proc'[q] = proc[q],
           \A c \in Bookings \ {b} : reservation'[c] = reservation[c] /\ stripe'[c] = stripe[c],
           Charging(p)' => proc'[p].booking = b /\ reservation'[b].intent = "pending",
           At(p, "save")' => stripe'[b] = [amount |-> proc'[p].amount, outcome |-> proc'[p].status]
    PROVE  Exclusive'
<1>1. \A q \in Requests \ {p} : Charging(q)' =>
         /\ proc'[q].booking # b
         /\ reservation'[proc'[q].booking].intent = "pending"
         /\ \A r \in Requests \ {p} :
               Charging(r)' /\ proc'[q].booking = proc'[r].booking => q = r
         /\ At(q, "save")' => stripe'[proc'[q].booking]
                                  = [amount |-> proc'[q].amount, outcome |-> proc'[q].status]
  BY OthersCharging
<1>2. \A q \in Requests : At(q, "save")' => Charging(q)' BY DEF At, Charging
<1>3. \A q \in Requests : Charging(q)' => reservation'[proc'[q].booking].intent = "pending"
  BY <1>1
<1>4. \A q, r \in Requests :
         Charging(q)' /\ Charging(r)' /\ proc'[q].booking = proc'[r].booking => q = r
  BY <1>1
<1>5. \A q \in Requests : At(q, "save")' =>
         stripe'[proc'[q].booking] = [amount |-> proc'[q].amount, outcome |-> proc'[q].status]
  BY <1>1, <1>2
<1> QED BY <1>3, <1>4, <1>5 DEF Exclusive

LEMMA ClaimKeeps == ASSUME IInv, NEW p \in Requests, Claim(p) PROVE IInv'
<1>1. PICK b \in Bookings : b = proc[p].booking /\ Exists(b)
  BY DEF Claim, At, IInv, Typed, AtWork
<1> DEFINE row == [reservation[b] EXCEPT !.intent = "pending"]
           next == [proc[p] EXCEPT !.at = "charge"]
<1>2. reservation \in [Bookings -> ReservationRecord] /\ proc \in [Requests -> ProcRecord]
  BY DEF IInv, Typed, TypeOK
<1>3. /\ row \in ReservationRecord /\ row.status # "NONE" /\ row.intent = "pending"
      /\ row.charged = reservation[b].charged
  BY <1>1, <1>2 DEF ReservationRecord, Exists
<1>4. next \in ProcRecord /\ next.at = "charge" /\ next.booking = b BY <1>1, <1>2 DEF ProcRecord
<1>5. /\ reservation' = [reservation EXCEPT ![b] = row] /\ reservation[b].intent = "null"
      /\ Become(p, next) /\ UNCHANGED <<waiting, stripe, taken>>
  BY <1>1, <1>2 DEF Claim
<1>6. ~reservation[b].charged /\ \A q \in Requests : ~(Charging(q) /\ proc[q].booking = b)
  BY <1>1, <1>5 DEF IInv, FeeInv, Exclusive, Booked
<1> HIDE DEF row, next
<1>7. proc' = [proc EXCEPT ![p] = next] BY <1>5 DEF Become
<1>8. Typed'
  BY <1>3, <1>4, <1>5, ChargeTypes DEF IInv, Typed, TypeOK
<1>9. Kept' BY <1>5 DEF IInv, FeeInv, Kept
<1>10. Booked' BY <1>2, <1>3, <1>5, <1>6 DEF IInv, FeeInv, Booked
<1>11. Exclusive'
  <2>1. proc'[p].booking = b /\ ~At(p, "save")' /\ reservation'[b].intent = "pending"
    BY <1>2, <1>3, <1>4, <1>5, <1>7 DEF At
  <2>2. \A q \in Requests \ {p} : proc'[q] = proc[q] BY <1>2, <1>7
  <2>3. \A c \in Bookings \ {b} : reservation'[c] = reservation[c] /\ stripe'[c] = stripe[c]
    BY <1>2, <1>5
  <2> QED BY <1>6, <2>1, <2>2, <2>3, StaysExclusive DEF At, Charging
<1> QED BY <1>8, <1>9, <1>10, <1>11 DEF IInv, FeeInv

\* The holder of the claim, its booking, and what that says of everybody else.
LEMMA Holder ==
    ASSUME IInv, NEW p \in Requests, Charging(p)
    PROVE  \E b \in Bookings :
              /\ b = proc[p].booking /\ Exists(b)
              /\ reservation[b].intent = "pending" /\ ~reservation[b].charged
              /\ \A q \in Requests \ {p} : ~(Charging(q) /\ proc[q].booking = b)
<1>1. proc[p].booking \in Bookings /\ Exists(proc[p].booking) BY DEF IInv, Typed, AtWork
<1>2. reservation[proc[p].booking].intent = "pending" BY DEF IInv, FeeInv, Exclusive
<1>3. ~reservation[proc[p].booking].charged BY <1>1, <1>2 DEF IInv, FeeInv, Booked
<1>4. \A q \in Requests \ {p} : ~(Charging(q) /\ proc[q].booking = proc[p].booking)
  BY DEF IInv, FeeInv, Exclusive
<1> QED BY <1>1, <1>2, <1>3, <1>4

\* What a call leaves of Stripe, when nothing is booked as charged on b.
LEMMA StripeAnswers ==
    ASSUME IInv, NEW b \in Bookings, ~reservation[b].charged, NEW amount \in Nat,
           NEW outcome \in {"succeeded", "requires_action", "declined"},
           AskStripe(b, amount, outcome), UNCHANGED reservation
    PROVE  /\ (stripe \in [Bookings -> StripeRecord] /\ taken \in [Bookings -> Nat])'
           /\ Kept' /\ Booked'
           /\ \A c \in Bookings \ {b} : stripe'[c] = stripe[c]
           /\ outcome # "declined" => stripe'[b] = [amount |-> amount, outcome |-> outcome]
<1>1. stripe \in [Bookings -> StripeRecord] /\ taken \in [Bookings -> Nat]
  BY DEF IInv, Typed, TypeOK
<1>2. CASE stripe[b].outcome = "none"
  <2>1. NewCharge(b, amount, outcome) BY <1>2 DEF AskStripe
  <2>2. stripe' = [stripe EXCEPT ![b] = [amount |-> amount, outcome |-> outcome]]
    BY <2>1 DEF NewCharge
  <2>3. taken[b] = 0 BY <1>2 DEF IInv, FeeInv, Kept
  <2>4. taken' = [taken EXCEPT ![b] = IF outcome = "succeeded" THEN 1 ELSE 0]
    BY <1>1, <2>1, <2>3 DEF NewCharge
  <2>5. [amount |-> amount, outcome |-> outcome] \in StripeRecord BY DEF StripeRecord
  <2>6. stripe' \in [Bookings -> StripeRecord] /\ taken' \in [Bookings -> Nat]
    BY <1>1, <2>2, <2>4, <2>5
  <2>7. Kept' BY <1>1, <2>2, <2>4 DEF IInv, FeeInv, Kept
  <2>8. Booked' BY <1>1, <2>2 DEF IInv, FeeInv, Booked
  <2> QED BY <1>1, <2>2, <2>6, <2>7, <2>8
<1>3. CASE stripe[b].outcome # "none"
  <2>1. UNCHANGED <<stripe, taken>> /\ (outcome # "declined" => stripe[b].amount = amount
                                                     /\ stripe[b].outcome = outcome)
    BY <1>3 DEF AskStripe
  <2>2. Kept' /\ Booked' BY <2>1 DEF IInv, FeeInv, Kept, Booked
  <2> QED BY <1>1, <2>1, <2>2 DEF StripeRecord
<1> QED BY <1>2, <1>3

LEMMA ChargeKeeps ==
    ASSUME IInv, NEW p \in Requests, NEW outcome \in {"succeeded", "requires_action", "declined"},
           NEW lost \in BOOLEAN, Charge(p, outcome, lost)
    PROVE  IInv'
<1>1. PICK b \in Bookings :
         /\ b = proc[p].booking /\ Exists(b)
         /\ reservation[b].intent = "pending" /\ ~reservation[b].charged
         /\ \A q \in Requests \ {p} : ~(Charging(q) /\ proc[q].booking = b)
  BY Holder DEF Charge, At, Charging
<1> DEFINE next == IF lost \/ outcome = "declined" THEN [proc[p] EXCEPT !.at = "release"]
                   ELSE [proc[p] EXCEPT !.at = "save", !.status = outcome]
           row == reservation[b]
<1>2. reservation \in [Bookings -> ReservationRecord] /\ proc \in [Requests -> ProcRecord]
  BY DEF IInv, Typed, TypeOK
<1>3. /\ next \in ProcRecord /\ next.at \in {"save", "release"} /\ next.booking = b
      /\ next.at = "save" =>
            next.amount = proc[p].amount /\ next.status = outcome /\ outcome # "declined"
  BY <1>1, <1>2 DEF ProcRecord
<1>4. Become(p, next) /\ UNCHANGED <<reservation, waiting>> BY DEF Charge
<1>5. AskStripe(b, proc[p].amount, outcome) BY <1>1 DEF Charge
<1>6. proc[p].amount \in Nat BY <1>2 DEF ProcRecord
<1>7. row \in ReservationRecord /\ row.status # "NONE"
      /\ reservation' = [reservation EXCEPT ![b] = row]
  BY <1>1, <1>2, <1>4 DEF Exists
<1> HIDE DEF next, row
<1>8. proc' = [proc EXCEPT ![p] = next] BY <1>4 DEF Become
<1>9. /\ (stripe \in [Bookings -> StripeRecord] /\ taken \in [Bookings -> Nat])'
      /\ Kept' /\ Booked'
      /\ \A c \in Bookings \ {b} : stripe'[c] = stripe[c]
      /\ outcome # "declined" => stripe'[b] = [amount |-> proc[p].amount, outcome |-> outcome]
  BY <1>1, <1>4, <1>5, <1>6, StripeAnswers
<1>10. Typed'
  <2>1. (/\ reservation \in [Bookings -> ReservationRecord]
         /\ waiting \in [Parties -> WaitingRecord]
         /\ proc \in [Requests -> ProcRecord] /\ AtWork)'
    <3>1. /\ next \in ProcRecord /\ row \in ReservationRecord
          /\ next.at \in {"idle", "charge", "save", "release"}
          /\ next.at # "idle" => next.booking = b
          /\ waiting' = waiting /\ row.status # "NONE"
      BY <1>3, <1>4, <1>7
    <3>2. Become(p, next) BY <1>4
    <3>3. reservation' = [reservation EXCEPT ![b] = row] BY <1>7
    <3> QED BY <3>1, <3>2, <3>3, ChargeTypes
  <2> QED BY <1>9, <2>1 DEF Typed, TypeOK
<1>11. Exclusive'
  <2>1. proc'[p] = next BY <1>2, <1>8
  <2>2. proc'[p].booking = b /\ reservation'[b].intent = "pending" BY <1>1, <1>3, <1>4, <2>1
  <2>3. proc'[p].at = "save" =>
            stripe'[b] = [amount |-> proc'[p].amount, outcome |-> proc'[p].status]
    BY <1>3, <1>9, <2>1
  <2>4. \A q \in Requests \ {p} : proc'[q] = proc[q] BY <1>2, <1>8
  <2>5. \A c \in Bookings \ {b} : reservation'[c] = reservation[c] /\ stripe'[c] = stripe[c]
    BY <1>4, <1>9
  <2> QED BY <1>1, <2>2, <2>3, <2>4, <2>5, StaysExclusive DEF At, Charging
<1> QED BY <1>9, <1>10, <1>11 DEF IInv, FeeInv

\* The holder of the claim writes its row and is done.
LEMMA LetsGo ==
    ASSUME IInv, NEW p \in Requests, Become(p, IdleProc), UNCHANGED <<waiting, stripe, taken>>,
           NEW b \in Bookings, NEW row \in ReservationRecord, row.status # "NONE",
           \A q \in Requests \ {p} : ~(Charging(q) /\ proc[q].booking = b),
           reservation' = [reservation EXCEPT ![b] = row],
           row.charged => /\ row.intent = "made"
                          /\ stripe[b].amount = row.fee /\ stripe[b].outcome = "succeeded"
    PROVE  IInv'
<1>1. reservation \in [Bookings -> ReservationRecord] /\ proc \in [Requests -> ProcRecord]
  BY DEF IInv, Typed, TypeOK
<1>2. proc' = [proc EXCEPT ![p] = IdleProc] /\ IdleProc.at = "idle" BY DEF Become, IdleProc
<1>3. Typed' BY <1>2, IdleType, ChargeTypes DEF IInv, Typed, TypeOK
<1>4. Kept' BY DEF IInv, FeeInv, Kept
<1>5. Booked' BY <1>1 DEF IInv, FeeInv, Booked
<1>6. \A q \in Requests \ {p} : proc'[q] = proc[q] BY <1>1, <1>2
<1>7. ~Charging(p)' /\ ~At(p, "save")' BY <1>1, <1>2 DEF Charging, At
<1>8. \A c \in Bookings \ {b} : reservation'[c] = reservation[c] /\ stripe'[c] = stripe[c]
  BY <1>1
<1>9. Exclusive' BY <1>6, <1>7, <1>8, StaysExclusive DEF At, Charging
<1> QED BY <1>3, <1>4, <1>5, <1>9 DEF IInv, FeeInv

LEMMA SaveFeeKeeps == ASSUME IInv, NEW p \in Requests, SaveFee(p) PROVE IInv'
<1>1. PICK b \in Bookings :
         /\ b = proc[p].booking
         /\ \A q \in Requests \ {p} : ~(Charging(q) /\ proc[q].booking = b)
  BY Holder DEF SaveFee, At, Charging
<1>2. reservation \in [Bookings -> ReservationRecord] /\ proc[p] \in ProcRecord
  BY DEF IInv, Typed, TypeOK
<1>3. PICK fee \in Nat, done \in BOOLEAN :
         fee = proc[p].amount /\ done = (proc[p].status = "succeeded")
  BY <1>2 DEF ProcRecord
<1> DEFINE saved == [reservation[b] EXCEPT !.status = "NO_SHOW", !.fee = fee, !.intent = "made",
                      !.charged = done]
<1>4. /\ saved \in ReservationRecord /\ saved.status # "NONE" /\ saved.intent = "made"
      /\ saved.fee = fee /\ saved.charged = done
  BY <1>2 DEF ReservationRecord, Statuses
<1>5. reservation' = [reservation EXCEPT ![b] = saved] BY <1>1, <1>2, <1>3 DEF SaveFee
<1> HIDE DEF saved
<1>6. saved \in ReservationRecord /\ saved.status # "NONE" BY <1>4
<1>7. stripe[b] = [amount |-> fee, outcome |-> proc[p].status]
  BY <1>1, <1>3 DEF SaveFee, IInv, FeeInv, Exclusive
<1>8. Become(p, IdleProc) /\ UNCHANGED <<waiting, stripe, taken>> BY DEF SaveFee
<1>9. \A q \in Requests \ {p} : ~(Charging(q) /\ proc[q].booking = b) BY <1>1
<1>10. CASE proc[p].status = "succeeded"
  <2>1. saved.intent = "made" /\ stripe[b].amount = saved.fee /\ stripe[b].outcome = "succeeded"
    BY <1>4, <1>7, <1>10
  <2> QED BY <1>9, <1>5, <1>6, <1>8, <2>1, LetsGo
<1>11. CASE proc[p].status # "succeeded"
  <2>1. done = FALSE BY <1>3, <1>11
  <2>2. ~saved.charged BY <1>4, <2>1
  <2> QED BY <1>9, <1>5, <1>6, <1>8, <2>2, LetsGo
<1> QED BY <1>10, <1>11

LEMMA ReleaseKeeps == ASSUME IInv, NEW p \in Requests, Release(p) PROVE IInv'
<1>1. PICK b \in Bookings :
         /\ b = proc[p].booking /\ Exists(b) /\ ~reservation[b].charged
         /\ \A q \in Requests \ {p} : ~(Charging(q) /\ proc[q].booking = b)
  BY Holder DEF Release, Charging
<1>2. reservation \in [Bookings -> ReservationRecord] /\ proc[p] \in ProcRecord
  BY DEF IInv, Typed, TypeOK
<1>3. PICK fee \in Nat : fee = proc[p].amount BY <1>2 DEF ProcRecord
<1> DEFINE row == [reservation[b] EXCEPT !.intent = "null", !.fee = fee]
<1>4. reservation' = [reservation EXCEPT ![b] = row] BY <1>1, <1>2, <1>3 DEF Release
<1>5. row \in ReservationRecord /\ row.status # "NONE" /\ ~row.charged
  BY <1>1, <1>2 DEF ReservationRecord, Exists
<1>6. Become(p, IdleProc) /\ UNCHANGED <<waiting, stripe, taken>> BY DEF Release
<1>7. \A q \in Requests \ {p} : ~(Charging(q) /\ proc[q].booking = b) BY <1>1
<1> HIDE DEF row
<1> QED BY <1>4, <1>5, <1>6, <1>7, LetsGo

-----------------------------------------------------------------------------
(* Theorems *)

LEMMA ServeKeeps == ASSUME IInv, NEW p \in Requests, Serve(p) PROVE IInv'
<1>1. ASSUME NEW covers \in GuestCovers, NEW card \in BOOLEAN, PublicBookRead(p, covers, card)
      PROVE  IInv'
  BY <1>1, PublicBookReadKeeps
<1>2. ASSUME NEW b \in Bookings, PublicBook(p, b) \/ CancelRead(p, b) \/ SeatWalkIn(p, b)
      PROVE  IInv'
  BY <1>2, PublicBookKeeps, CancelReadKeeps, SeatWalkInKeeps
<1>3. ASSUME NEW b \in Bookings, NEW amount \in Amounts \cup {DefaultFee(b)},
             ChargeRead(p, b, amount)
      PROVE  IInv'
  BY <1>3, ChargeReadKeeps
<1>4. ASSUME NEW w \in Parties, SeatRead(p, w) PROVE IInv' BY <1>4, SeatReadKeeps
<1>5. ASSUME NEW outcome \in {"succeeded", "requires_action", "declined"}, NEW lost \in BOOLEAN,
             Charge(p, outcome, lost)
      PROVE  IInv'
  BY <1>5, ChargeKeeps
<1>6. CASE Recheck(p) \/ Cancel(p) \/ Leave(p) BY <1>6, RecheckKeeps, CancelKeeps, LeaveKeeps
<1>7. CASE Claim(p) \/ SaveFee(p) \/ Release(p) BY <1>7, ClaimKeeps, SaveFeeKeeps, ReleaseKeeps
<1> QED BY <1>1, <1>2, <1>3, <1>4, <1>5, <1>6, <1>7 DEF Serve

LEMMA Starts == Init => IInv
<1> SUFFICES ASSUME Init PROVE IInv OBVIOUS
<1>1. TypeOK
  BY IdleType DEF Init, TypeOK, ReservationRecord, WaitingRecord, StripeRecord
<1>2. AtWork BY DEF Init, AtWork, Charging, At, IdleProc
<1>3. FeeInv BY DEF Init, FeeInv, Kept, Exclusive, Booked, Charging, At, IdleProc
<1> QED BY <1>1, <1>2, <1>3 DEF IInv, Typed

\* The holder of a claim is alone with its booking, and hears what Stripe keeps.
THEOREM FeeInvariant == Spec => []IInv
<1>1. IInv /\ [Next]_vars => IInv'
  <2> SUFFICES ASSUME IInv, [Next]_vars PROVE IInv' OBVIOUS
  <2>1. CASE Next BY <2>1, ManageKeeps, ServeKeeps DEF Next
  <2>2. CASE UNCHANGED vars
    <3>1. waiting' \in [Parties -> WaitingRecord] BY <2>2 DEF vars, IInv, Typed, TypeOK
    <3> QED BY <2>2, <3>1, WaitingKeeps DEF vars
  <2> QED BY <2>1, <2>2
<1> QED BY <1>1, Starts, PTL DEF Spec

\* For any number of bookings, requests and fees: the card of a party is charged
\* once at most, and a fee that is booked as charged is the one that was taken.
THEOREM FeeTakenOnce == Spec => []FeeOnce
<1>1. IInv => FeeOnce BY DEF IInv, FeeInv, Kept, Booked, FeeOnce, Typed, TypeOK, StripeRecord
<1> QED BY <1>1, FeeInvariant, PTL

-----------------------------------------------------------------------------
(* One live send of a campaign.                                            *)

Sending(p) == sender[p].at \in {"wipe", "send", "log"}

\* Whoever sends has claimed the campaign, which happens once; whom it has still
\* to mail was not mailed, and what it is about to log is what it mailed.
SentByOne ==
    /\ \A p \in Requests : Sending(p) => campaign.sentAt
    /\ \A p, q \in Requests : Sending(p) /\ Sending(q) => p = q
    /\ ~campaign.sentAt => \A g \in Guests : mailed[g] = 0
    /\ \A p \in Requests :
          /\ sender[p].at = "wipe" => \A g \in Guests : mailed[g] = 0
          /\ sender[p].at \in {"send", "log"} => \A g \in sender[p].todo : mailed[g] = 0
          /\ sender[p].at = "log" =>
                /\ sender[p].guest \in Guests \ sender[p].todo
                /\ sender[p].result = "SENT" => mailed[sender[p].guest] = 1

SendInv == Post!TypeOK /\ SentByOne /\ Post!MailedOnce

\* A step of a request that neither sends nor mails.
LEMMA OthersSend ==
    ASSUME SendInv, NEW p \in Requests, NEW rec \in Post!ProcRecord,
           sender' = [sender EXCEPT ![p] = rec], rec.at \notin {"wipe", "send", "log"},
           campaign' \in Post!CampaignRecord, campaign'.sentAt = campaign.sentAt,
           recipient' \in [Guests -> {"NONE", "SIMULATED", "SKIPPED", "SENT", "FAILED"}],
           \A g \in Guests : recipient'[g] = "SENT" => recipient[g] = "SENT",
           UNCHANGED <<optedIn, mailed>>
    PROVE  SendInv'
<1>1. Post!TypeOK'
  BY DEF SendInv, Post!TypeOK
<1>2. SentByOne'
  BY DEF SendInv, Post!TypeOK, SentByOne, Sending
<1>3. Post!MailedOnce'
  BY DEF SendInv, Post!MailedOnce
<1> QED BY <1>1, <1>2, <1>3 DEF SendInv

LEMMA IdleSender == Post!IdleProc \in Post!ProcRecord
BY DEF Post!IdleProc, Post!ProcRecord

LEMMA ReadsCampaign ==
    ASSUME SendInv, NEW p \in Requests,
           \/ Post!SimulateRead(p) \/ Post!TestSend(p) \/ Post!LiveSendRead(p) \/ Post!Leave(p)
    PROVE  SendInv'
<1>1. PICK rec \in Post!ProcRecord :
         sender' = [sender EXCEPT ![p] = rec] /\ rec.at \notin {"wipe", "send", "log"}
  <2> USE DEF Post!Begin, Post!Become, Post!IdleProc
  <2>1. CASE Post!SimulateRead(p)
    <3> DEFINE rec == [Post!IdleProc EXCEPT !.at = "simulate", !.status = campaign.status,
                                            !.consent = optedIn]
    <3>1. rec \in Post!ProcRecord /\ rec.at = "simulate"
      BY DEF SendInv, Post!TypeOK, Post!ProcRecord, Post!CampaignRecord
    <3> QED BY <2>1, <3>1 DEF Post!SimulateRead
  <2>2. CASE Post!TestSend(p)
    <3> DEFINE rec == [Post!IdleProc EXCEPT !.at = "test"]
    <3>1. rec \in Post!ProcRecord /\ rec.at = "test"
      BY DEF Post!ProcRecord
    <3> QED BY <2>2, <3>1 DEF Post!TestSend
  <2>3. CASE Post!LiveSendRead(p)
    <3> DEFINE rec == [Post!IdleProc EXCEPT !.at = "claim", !.consent = optedIn]
    <3>1. rec \in Post!ProcRecord /\ rec.at = "claim"
      BY DEF SendInv, Post!TypeOK, Post!ProcRecord
    <3> QED BY <2>3, <3>1 DEF Post!LiveSendRead
  <2>4. CASE Post!Leave(p)
    BY <2>4, IdleSender DEF Post!Leave
  <2> QED BY <2>1, <2>2, <2>3, <2>4
<1>2. UNCHANGED <<campaign, optedIn, recipient, mailed>>
  BY DEF Post!SimulateRead, Post!TestSend, Post!LiveSendRead, Post!Leave, Post!Begin, Post!Tables
<1> QED BY <1>1, <1>2, OthersSend DEF SendInv, Post!TypeOK

LEMMA Simulates ==
    ASSUME SendInv, NEW p \in Requests, Post!Simulate(p) \/ Post!TestMark(p)
    PROVE  SendInv'
<1>1. sender' = [sender EXCEPT ![p] = Post!IdleProc] /\ Post!IdleProc.at = "idle"
  BY DEF Post!Simulate, Post!TestMark, Post!Become, Post!IdleProc
<1>2. campaign' \in Post!CampaignRecord /\ campaign'.sentAt = campaign.sentAt
  <2>1. campaign \in Post!CampaignRecord /\ sender[p].status \in {"DRAFT", "READY", "SENT"}
    BY DEF SendInv, Post!TypeOK, Post!ProcRecord
  <2>2. PICK status \in {"DRAFT", "READY", "SENT"} :
           campaign' = [campaign EXCEPT !.simulatedAt = "recent", !.status = status]
    <3>1. CASE Post!Simulate(p)
      BY <2>1, <3>1 DEF Post!Simulate
    <3>2. CASE Post!TestMark(p)
      <4>1. campaign' = [campaign EXCEPT !.simulatedAt = "recent"]
        BY <3>2 DEF Post!TestMark
      <4>2. campaign.status \in {"DRAFT", "READY", "SENT"}
        BY <2>1 DEF Post!CampaignRecord
      <4>3. campaign' = [campaign EXCEPT !.simulatedAt = "recent", !.status = campaign.status]
        BY <2>1, <4>1, <4>2 DEF Post!CampaignRecord
      <4> QED BY <4>2, <4>3
    <3> QED BY <3>1, <3>2
  <2> QED BY <2>1, <2>2 DEF Post!CampaignRecord
<1>3. /\ recipient' \in [Guests -> {"NONE", "SIMULATED", "SKIPPED", "SENT", "FAILED"}]
      /\ \A g \in Guests : recipient'[g] = "SENT" => recipient[g] = "SENT"
      /\ UNCHANGED <<optedIn, mailed>>
  BY DEF SendInv, Post!TypeOK, Post!Simulate, Post!TestMark
<1> QED BY <1>1, <1>2, <1>3, IdleSender, OthersSend

LEMMA ClaimsSend ==
    ASSUME SendInv, NEW p \in Requests, Post!Claim(p)
    PROVE  SendInv'
<1> USE DEF Post!Claim, Post!Become, Post!At
<1>1. /\ ~campaign.sentAt /\ UNCHANGED <<optedIn, recipient, mailed>>
      /\ campaign' \in Post!CampaignRecord /\ campaign'.sentAt
      /\ sender' \in [Requests -> Post!ProcRecord] /\ sender'[p].at = "wipe"
      /\ \A q \in Requests : q # p => sender'[q] = sender[q]
  BY DEF SendInv, Post!TypeOK, Post!CampaignRecord, Post!ProcRecord
<1> HIDE DEF Post!Claim, Post!Become, Post!At
<1>2. Post!TypeOK'
  BY <1>1 DEF SendInv, Post!TypeOK
<1>3. SentByOne'
  BY <1>1 DEF SendInv, SentByOne, Sending
<1>4. Post!MailedOnce'
  BY <1>1 DEF SendInv, Post!MailedOnce
<1> QED BY <1>2, <1>3, <1>4 DEF SendInv

LEMMA WipesRows ==
    ASSUME SendInv, NEW p \in Requests, Post!Wipe(p)
    PROVE  SendInv'
<1> USE DEF Post!Wipe, Post!Become, Post!At
<1>1. /\ sender[p].at = "wipe" /\ UNCHANGED <<campaign, optedIn, mailed>>
      /\ recipient' \in [Guests -> {"NONE", "SIMULATED", "SKIPPED", "SENT", "FAILED"}]
      /\ \A g \in Guests : recipient'[g] = "NONE"
      /\ sender' \in [Requests -> Post!ProcRecord] /\ sender'[p].at = "send" /\ sender'[p].todo = Guests
      /\ \A q \in Requests : q # p => sender'[q] = sender[q]
  BY DEF SendInv, Post!TypeOK, Post!ProcRecord
<1> HIDE DEF Post!Wipe, Post!Become, Post!At
<1>2. Post!TypeOK'
  BY <1>1 DEF SendInv, Post!TypeOK
<1>3. SentByOne'
  BY <1>1 DEF SendInv, SentByOne, Sending
<1>4. Post!MailedOnce'
  BY <1>1 DEF SendInv, Post!MailedOnce
<1> QED BY <1>2, <1>3, <1>4 DEF SendInv

LEMMA MailsGuest ==
    ASSUME SendInv, NEW p \in Requests, NEW g \in Guests, NEW result \in {"SENT", "FAILED", "SKIPPED"},
           Post!Mail(p, g, result)
    PROVE  SendInv'
<1>1. /\ sender[p].at = "send" /\ g \in sender[p].todo /\ UNCHANGED <<campaign, optedIn, recipient>>
      /\ sender' \in [Requests -> Post!ProcRecord]
      /\ sender'[p].at = "log" /\ sender'[p].todo = sender[p].todo \ {g}
      /\ sender'[p].guest = g /\ sender'[p].result = result
      /\ \A q \in Requests : q # p => sender'[q] = sender[q]
  BY DEF SendInv, Post!TypeOK, Post!ProcRecord, Post!Mail, Post!Become, Post!At
<1>2. mailed[g] = 0
  BY <1>1 DEF SendInv, SentByOne
<1>3. /\ mailed' \in [Guests -> Nat]
      /\ mailed'[g] = IF result = "SENT" THEN 1 ELSE 0
      /\ \A h \in Guests : h # g => mailed'[h] = mailed[h]
  BY <1>2 DEF SendInv, Post!TypeOK, Post!Mail
<1>4. Post!TypeOK'
  BY <1>1, <1>3 DEF SendInv, Post!TypeOK
<1>5. sender[p].todo \subseteq Guests
  BY DEF SendInv, Post!TypeOK, Post!ProcRecord
<1>6. SentByOne'
  BY <1>1, <1>3, <1>5 DEF SendInv, SentByOne, Sending
<1>7. Post!MailedOnce'
  BY <1>1, <1>2, <1>3 DEF SendInv, Post!MailedOnce
<1> QED BY <1>4, <1>6, <1>7 DEF SendInv

LEMMA LogsMail ==
    ASSUME SendInv, NEW p \in Requests, Post!Log(p)
    PROVE  SendInv'
<1>1. /\ sender[p].at = "log" /\ UNCHANGED <<campaign, optedIn, mailed>>
      /\ sender' \in [Requests -> Post!ProcRecord]
      /\ sender'[p].at = "send" /\ sender'[p].todo = sender[p].todo
      /\ \A q \in Requests : q # p => sender'[q] = sender[q]
  BY DEF SendInv, Post!TypeOK, Post!ProcRecord, Post!Log, Post!Become, Post!At
<1>2. /\ sender[p].guest \in Guests
      /\ sender[p].result = "SENT" => mailed[sender[p].guest] = 1
  BY <1>1 DEF SendInv, SentByOne
<1>3. /\ recipient' \in [Guests -> {"NONE", "SIMULATED", "SKIPPED", "SENT", "FAILED"}]
      /\ recipient'[sender[p].guest] = sender[p].result
      /\ \A h \in Guests : h # sender[p].guest => recipient'[h] = recipient[h]
  BY <1>2 DEF SendInv, Post!TypeOK, Post!Log, Post!ProcRecord
<1>4. Post!TypeOK'
  BY <1>1, <1>3 DEF SendInv, Post!TypeOK
<1>5. SentByOne'
  BY <1>1 DEF SendInv, SentByOne, Sending
<1>6. Post!MailedOnce'
  BY <1>1, <1>2, <1>3 DEF SendInv, Post!MailedOnce
<1> QED BY <1>4, <1>5, <1>6 DEF SendInv

LEMMA FinishesSend ==
    ASSUME SendInv, NEW p \in Requests, Post!Finish(p)
    PROVE  SendInv'
<1>1. sender' = [sender EXCEPT ![p] = Post!IdleProc] /\ Post!IdleProc.at = "idle"
  BY DEF Post!Finish, Post!Become, Post!IdleProc
<1>2. /\ campaign' \in Post!CampaignRecord /\ campaign'.sentAt = campaign.sentAt
      /\ UNCHANGED <<optedIn, recipient, mailed>>
  BY DEF SendInv, Post!TypeOK, Post!Finish, Post!CampaignRecord
<1>3. recipient' \in [Guests -> {"NONE", "SIMULATED", "SKIPPED", "SENT", "FAILED"}]
  BY <1>2 DEF SendInv, Post!TypeOK
<1> QED BY <1>1, <1>2, <1>3, IdleSender, OthersSend

LEMMA AroundSend ==
    ASSUME SendInv,
           \/ \E status \in {"DRAFT", "READY", "SENT"} : Post!UpdateCampaign(status)
           \/ \E g \in Guests : Post!Unsubscribe(g)
           \/ Post!TestGetsOld
           \/ UNCHANGED Post!vars
    PROVE  SendInv'
<1>1. /\ campaign' \in Post!CampaignRecord /\ campaign'.sentAt = campaign.sentAt
      /\ optedIn' \subseteq Guests /\ UNCHANGED <<recipient, mailed, sender>>
  BY DEF SendInv, Post!TypeOK, Post!UpdateCampaign, Post!Unsubscribe, Post!TestGetsOld, Post!vars,
         Post!CampaignRecord
<1>2. Post!TypeOK'
  BY <1>1 DEF SendInv, Post!TypeOK
<1>3. SentByOne'
  BY <1>1 DEF SendInv, SentByOne, Sending
<1>4. Post!MailedOnce'
  BY <1>1 DEF SendInv, Post!MailedOnce
<1> QED BY <1>2, <1>3, <1>4 DEF SendInv

LEMMA SendKeeps == SendInv /\ [Post!Next]_Post!vars => SendInv'
<1> SUFFICES ASSUME SendInv, [Post!Next]_Post!vars PROVE SendInv'
  OBVIOUS
<1>1. ASSUME NEW p \in Requests, Post!Serve(p) PROVE SendInv'
  BY <1>1, ReadsCampaign, Simulates, ClaimsSend, WipesRows, MailsGuest, LogsMail, FinishesSend
     DEF Post!Serve
<1> QED BY <1>1, AroundSend DEF Post!Next

LEMMA SendStarts == Post!Init => SendInv
BY DEF Post!Init, SendInv, Post!TypeOK, Post!CampaignRecord, Post!ProcRecord, Post!IdleProc, SentByOne,
       Sending, Post!MailedOnce

-----------------------------------------------------------------------------
(* The composition: a step of the front of house is a step of each part or *)
(* leaves it alone, so what is proved of a part holds of the whole.        *)

LEMMA BookingsPart == FrontSpec => Spec
<1>1. FrontInit => Init
  BY DEF FrontInit
<1>2. [FrontNext]_frontVars => [Next]_vars
  BY DEF FrontNext, frontVars
<1> QED BY <1>1, <1>2, PTL DEF FrontSpec, Spec

LEMMA CardsPart == FrontSpec => Cards!Spec
<1>1. FrontInit => Cards!Init
  BY DEF FrontInit
<1>2. [FrontNext]_frontVars => [Cards!Next]_Cards!vars
  BY DEF FrontNext, frontVars, menuVars, Cards!vars
<1> QED BY <1>1, <1>2, PTL DEF FrontSpec, Cards!Spec

LEMMA PostPart == FrontSpec => []SendInv
<1>1. FrontInit => SendInv
  BY SendStarts DEF FrontInit
<1>2. SendInv /\ [FrontNext]_frontVars => SendInv'
  <2>1. [FrontNext]_frontVars => [Post!Next]_Post!vars
    BY DEF FrontNext, frontVars, campaignVars, Post!vars
  <2> QED BY <2>1, SendKeeps
<1> QED BY <1>1, <1>2, PTL DEF FrontSpec

\* Whoever sends, dies and sends again, a live campaign mails every guest once at
\* most: the claim on sentAt, for any number of guests and requests.
THEOREM CampaignsMailOnce == FrontSpec => []MailedOnce
<1>1. SendInv => MailedOnce
  BY DEF SendInv, MailedOnce
<1> QED BY <1>1, PostPart, PTL

\* One draft and one live version of a menu, numbers that are not reused, and
\* prints of what was saved.
THEOREM VersionsStayKept == FrontSpec => []VersionsKept
<1>1. Cards!MenuCardsAssumption /\ Cards!Spec => []Cards!VersionsKept
  BY Cards!VersionsAreKept
<1>2. Cards!MenuCardsAssumption
  BY FrontAssumption
<1>3. Cards!VersionsKept => VersionsKept
  BY DEF VersionsKept
<1> QED BY <1>1, <1>2, <1>3, CardsPart, PTL

\* A listing and the PDF it links say the same.
THEOREM ListingsStayTrue == FrontSpec => []ListingMatchesCard
<1>1. Cards!MenuCardsAssumption /\ Cards!Spec => []Cards!ListingMatchesCard
  BY Cards!ListingsMatchTheirCards
<1>2. Cards!MenuCardsAssumption
  BY FrontAssumption
<1>3. Cards!ListingMatchesCard => ListingMatchesCard
  BY DEF ListingMatchesCard
<1> QED BY <1>1, <1>2, <1>3, CardsPart, PTL

\* Transactions on menus and promotions never wait for one another in a circle.
THEOREM TransactionsDoNotDeadlock == FrontSpec => []NobodyWaitsInACircle
<1>1. Cards!MenuCardsAssumption /\ Cards!Spec => []Cards!NobodyWaitsInACircle
  BY Cards!LocksAreOrdered
<1>2. Cards!MenuCardsAssumption
  BY FrontAssumption
<1>3. Cards!NobodyWaitsInACircle => NobodyWaitsInACircle
  BY DEF NobodyWaitsInACircle
<1> QED BY <1>1, <1>2, <1>3, CardsPart, PTL

\* Nobody writes over what he has not seen, nor into what was published, nor
\* into a menu that is archived.
THEOREM EditsStayRespected == FrontSpec => EditsRespected
<1>1. Cards!MenuCardsAssumption /\ Cards!Spec => Cards!EditsRespected
  BY Cards!EditsAreRespected
<1>2. Cards!MenuCardsAssumption
  BY FrontAssumption
<1> QED BY <1>1, <1>2, CardsPart DEF EditsRespected
=============================================================================
