----------------------------- MODULE Reservations -----------------------------
(***************************************************************************)
(* The bookings of one sitting at one venue: guests book and cancel on the *)
(* website, managers take bookings, move parties through the evening and   *)
(* seat the waiting list, and charge the card of a party that did not come.*)
(*                                                                         *)
(* The code is services/reserve.service.ts.  A request reads, waits for    *)
(* the database or for Stripe, and writes; Leave abandons it at any step,  *)
(* which is also its refusal and its death.                                *)
(***************************************************************************)
EXTENDS Naturals, FiniteSets, FiniteSetsExt

CONSTANTS
    Bookings,       \* ids of reservation rows
    Parties,        \* ids of waiting-list entries
    Requests,
    Capacity,       \* of the availability rule
    GuestCovers,    \* party sizes guests ask for
    StaffCovers,    \* party sizes managers enter, whatever is free
    Amounts,        \* fees a manager types in
    MaxCharged,     \* the default fee counts this many covers at most
    NoBooking, NoParty

ASSUME ReservationsAssumption ==
    /\ NoBooking \notin Bookings /\ NoParty \notin Parties
    /\ Capacity \in Nat /\ MaxCharged \in Nat
    /\ GuestCovers \subseteq Nat /\ StaffCovers \subseteq Nat /\ Amounts \subseteq Nat

VARIABLES
    reservation,    \* the ReserveReservation table
    waiting,        \* the ReserveWaitlistEntry table
    stripe,         \* what Stripe keeps under the idempotency key of a reservation
    taken,          \* how often the card of a party was charged
    proc

vars == <<reservation, waiting, stripe, taken, proc>>

-----------------------------------------------------------------------------
(* Types *)

Statuses == {"CONFIRMED", "SEATED", "COMPLETED", "CANCELLED", "NO_SHOW"}

\* CONFIRMED stands for PENDING too; "NONE" is a row that does not exist yet.
\* intent is noShowFeePaymentIntentId: null, the claim, or the intent of Stripe.
ReservationRecord ==
    [status : {"NONE"} \cup Statuses, covers : Nat, card : BOOLEAN,
     intent : {"null", "pending", "made"}, fee : Nat, charged : BOOLEAN]

WaitingRecord == [joined : BOOLEAN, covers : Nat, match : Bookings \cup {NoBooking}]

StripeRecord ==
    [amount : Nat, outcome : {"none", "succeeded", "requires_action", "declined"}]

ProcRecord ==
    [at : {"idle", "recheck", "insert", "cancel", "seat", "claim", "charge", "save", "release"},
     booking : Bookings \cup {NoBooking}, party : Parties \cup {NoParty}, covers : Nat,
     card : BOOLEAN, amount : Nat, status : {"none", "succeeded", "requires_action"}]

TypeOK ==
    /\ reservation \in [Bookings -> ReservationRecord]
    /\ waiting \in [Parties -> WaitingRecord]
    /\ stripe \in [Bookings -> StripeRecord]
    /\ taken \in [Bookings -> Nat]
    /\ proc \in [Requests -> ProcRecord]

IdleProc ==
    [at |-> "idle", booking |-> NoBooking, party |-> NoParty, covers |-> 0,
     card |-> FALSE, amount |-> 0, status |-> "none"]

Init ==
    /\ reservation = [b \in Bookings |->
          [status |-> "NONE", covers |-> 0, card |-> FALSE, intent |-> "null", fee |-> 0,
           charged |-> FALSE]]
    /\ waiting = [w \in Parties |-> [joined |-> FALSE, covers |-> 0, match |-> NoBooking]]
    /\ stripe = [b \in Bookings |-> [amount |-> 0, outcome |-> "none"]]
    /\ taken = [b \in Bookings |-> 0]
    /\ proc = [p \in Requests |-> IdleProc]

At(p, step) == proc[p].at = step

Become(p, next) == proc' = [proc EXCEPT ![p] = next]

Tables == <<reservation, waiting, stripe, taken>>

Begin(p, next) == At(p, "idle") /\ Become(p, next) /\ UNCHANGED Tables

Leave(p) == ~At(p, "idle") /\ Become(p, IdleProc) /\ UNCHANGED Tables

-----------------------------------------------------------------------------
(* Bookings *)

Reserved == {b \in Bookings : reservation[b].status \in {"CONFIRMED", "SEATED"}}

ReservedCovers == MapThenSumSet(LAMBDA b : reservation[b].covers, Reserved)

Fits(covers) == ReservedCovers + covers <= Capacity

Row(status, covers, card) ==
    [status |-> status, covers |-> covers, card |-> card, intent |-> "null", fee |-> 0,
     charged |-> FALSE]

Insert(b, row) ==
    /\ reservation[b].status = "NONE"
    /\ reservation' = [reservation EXCEPT ![b] = row]

\* listPublicSlots: the slot is offered.  Then the guest's profile and the
\* details of the card are fetched.
PublicBookRead(p, covers, card) ==
    /\ Fits(covers)
    /\ Begin(p, [IdleProc EXCEPT !.at = "recheck", !.covers = covers, !.card = card])

\* The transaction repeats the sum, and locks nothing.
Recheck(p) ==
    /\ At(p, "recheck")
    /\ Fits(proc[p].covers)
    /\ Become(p, [proc[p] EXCEPT !.at = "insert"])
    /\ UNCHANGED Tables

PublicBook(p, b) ==
    /\ At(p, "insert")
    /\ Insert(b, Row("CONFIRMED", proc[p].covers, proc[p].card))
    /\ Become(p, IdleProc)
    /\ UNCHANGED <<waiting, stripe, taken>>

\* A manager's booking is not held against the capacity.
CreateReservation(b, status, covers) ==
    /\ Insert(b, Row(status, covers, FALSE))
    /\ UNCHANGED <<waiting, stripe, taken, proc>>

Exists(b) == reservation[b].status # "NONE"

\* Any status and any size at any time.
UpdateReservation(b, status, covers) ==
    /\ Exists(b)
    /\ <<status, covers>> # <<reservation[b].status, reservation[b].covers>>
    /\ reservation' = [reservation EXCEPT ![b].status = status, ![b].covers = covers]
    /\ UNCHANGED <<waiting, stripe, taken, proc>>

\* The floor map: UNSEAT, SEAT and STAGE, CLEAR.
SetServiceState(b, status) ==
    /\ Exists(b)
    /\ status \in {"CONFIRMED", "SEATED", "COMPLETED"}
    /\ UpdateReservation(b, status, reservation[b].covers)

\* The page behind the link of the confirmation says whether it can be cancelled.
CancelRead(p, b) ==
    /\ b \in Reserved
    /\ Begin(p, [IdleProc EXCEPT !.at = "cancel", !.booking = b])

Cancel(p) ==
    /\ At(p, "cancel")
    /\ reservation' = [reservation EXCEPT ![proc[p].booking].status = "CANCELLED"]
    /\ Become(p, IdleProc)
    /\ UNCHANGED <<waiting, stripe, taken>>

-----------------------------------------------------------------------------
(* The waiting list *)

JoinWaitlist(w, covers) ==
    /\ ~waiting[w].joined
    /\ waiting' = [waiting EXCEPT ![w].joined = TRUE, ![w].covers = covers]
    /\ UNCHANGED <<reservation, stripe, taken, proc>>

\* A manager links an entry to a reservation, or takes the link away.
LinkParty(w, b) ==
    /\ waiting[w].joined /\ waiting[w].match # b
    /\ waiting' = [waiting EXCEPT ![w].match = b]
    /\ UNCHANGED <<reservation, stripe, taken, proc>>

\* BOOKED without a reservation seats the party: shouldSeatWalkIn is decided on
\* the entry as it was read.
SeatRead(p, w) ==
    /\ waiting[w].joined /\ waiting[w].match = NoBooking
    /\ Begin(p, [IdleProc EXCEPT !.at = "seat", !.party = w, !.covers = waiting[w].covers])

SeatWalkIn(p, b) ==
    /\ At(p, "seat")
    /\ Insert(b, Row("SEATED", proc[p].covers, FALSE))
    /\ waiting' = [waiting EXCEPT ![proc[p].party].match = b]
    /\ Become(p, IdleProc)
    /\ UNCHANGED <<stripe, taken>>

-----------------------------------------------------------------------------
(* chargeReservationNoShow *)

DefaultFee(b) == Min({reservation[b].covers, MaxCharged})

ChargeRead(p, b, amount) ==
    /\ Exists(b)
    /\ reservation[b].card /\ ~reservation[b].charged
    /\ Begin(p, [IdleProc EXCEPT !.at = "claim", !.booking = b, !.amount = amount])

\* "A second request hitting this endpoint at the same time" bails here.
Claim(p) ==
    LET b == proc[p].booking
    IN  /\ At(p, "claim")
        /\ reservation[b].intent = "null"
        /\ reservation' = [reservation EXCEPT ![b].intent = "pending"]
        /\ Become(p, [proc[p] EXCEPT !.at = "charge"])
        /\ UNCHANGED <<waiting, stripe, taken>>

\* Stripe charges the card and keeps the answer.
NewCharge(b, amount, outcome) ==
    /\ stripe' = [stripe EXCEPT ![b] = [amount |-> amount, outcome |-> outcome]]
    /\ taken' = [taken EXCEPT ![b] = IF outcome = "succeeded" THEN @ + 1 ELSE @]

\* Without the key a second call is a second charge.
AskStripeAnew(b, amount, outcome) ==
    outcome \in {"succeeded", "requires_action", "declined"} /\ NewCharge(b, amount, outcome)

\* With the key a repeated call gets the answer of the first, and one that asks
\* for something else an error ("declined" here: both throw).
AskStripe(b, amount, outcome) ==
    IF stripe[b].outcome = "none"
    THEN outcome \in {"succeeded", "requires_action", "declined"} /\ NewCharge(b, amount, outcome)
    ELSE /\ outcome = IF stripe[b].amount = amount THEN stripe[b].outcome ELSE "declined"
         /\ UNCHANGED <<stripe, taken>>

\* An answer that is lost on the way looks like an error too.
Charge(p, outcome, lost) ==
    /\ At(p, "charge")
    /\ AskStripe(proc[p].booking, proc[p].amount, outcome)
    /\ Become(p, IF lost \/ outcome = "declined" THEN [proc[p] EXCEPT !.at = "release"]
                 ELSE [proc[p] EXCEPT !.at = "save", !.status = outcome])
    /\ UNCHANGED <<reservation, waiting>>

SaveFee(p) ==
    LET b == proc[p].booking
    IN  /\ At(p, "save")
        /\ reservation' = [reservation EXCEPT ![b].status = "NO_SHOW", ![b].fee = proc[p].amount,
              ![b].intent = "made", ![b].charged = (proc[p].status = "succeeded")]
        /\ Become(p, IdleProc)
        /\ UNCHANGED <<waiting, stripe, taken>>

\* The catch block, which a failed save reaches as well.
Release(p) ==
    /\ proc[p].at \in {"save", "release"}
    /\ reservation' = [reservation EXCEPT ![proc[p].booking].intent = "null",
                                          ![proc[p].booking].fee = proc[p].amount]
    /\ Become(p, IdleProc)
    /\ UNCHANGED <<waiting, stripe, taken>>

-----------------------------------------------------------------------------
(* Specification *)

Serve(p) ==
    \/ \E covers \in GuestCovers, card \in BOOLEAN : PublicBookRead(p, covers, card)
    \/ Recheck(p)
    \/ \E b \in Bookings :
          \/ PublicBook(p, b) \/ CancelRead(p, b) \/ SeatWalkIn(p, b)
          \/ \E amount \in Amounts \cup {DefaultFee(b)} : ChargeRead(p, b, amount)
    \/ Cancel(p)
    \/ \E w \in Parties : SeatRead(p, w)
    \/ Claim(p) \/ SaveFee(p) \/ Release(p) \/ Leave(p)
    \/ \E outcome \in {"succeeded", "requires_action", "declined"}, lost \in BOOLEAN :
          Charge(p, outcome, lost)

Manage ==
    \/ \E b \in Bookings, status \in Statuses :
          \/ \E covers \in StaffCovers : CreateReservation(b, status, covers)
          \/ \E covers \in StaffCovers \cup {reservation[b].covers} :
                UpdateReservation(b, status, covers)
          \/ SetServiceState(b, status)
    \/ \E w \in Parties :
          \/ \E covers \in GuestCovers : JoinWaitlist(w, covers)
          \/ \E b \in Bookings \cup {NoBooking} : LinkParty(w, b)

Next == Manage \/ \E p \in Requests : Serve(p)

Spec == Init /\ [][Next]_vars

-----------------------------------------------------------------------------
(* Properties *)

\* "So a retry can't double-charge even if the first call's response was lost":
\* whoever charges, retries, dies or edits the booking, a card is charged once
\* at most, and a fee that is booked as charged is the one that was taken.
FeeOnce ==
    \A b \in Bookings :
        /\ taken[b] <= 1
        /\ reservation[b].charged => taken[b] = 1 /\ reservation[b].fee = stripe[b].amount
=============================================================================
