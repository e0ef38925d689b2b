------------------------------- MODULE GiftCard -------------------------------
(***************************************************************************)
(* The life of a consumer gift card: sold through a Stripe Checkout        *)
(* session or at the counter, activated by whichever of the webhook, the   *)
(* confirmation poll and the nightly sweep gets there first, redeemed,     *)
(* cancelled by a manager, expired, and e-mailed.                          *)
(*                                                                         *)
(* The code is services/gift-card.service.ts with                          *)
(* lib/checkout-session-state.ts.  Every request or job is a process; each *)
(* of its steps is one awaited database or Stripe call, so that any other  *)
(* process may run between the read a handler decides on and the write it  *)
(* makes.  A database transaction whose rows are locked from its first     *)
(* statement on is one step.                                               *)
(***************************************************************************)
EXTENDS Integers, FiniteSets

CONSTANTS
    Cards,               \* gift card rows
    LegacyCards,         \* rows an earlier release cancelled while the buyer was paying
    Requests,            \* web requests and webhook deliveries in flight
    Sweepers,            \* runs of the lifecycle job
    Drainers,            \* runs of the scheduled-delivery job
    NoCard,
    FaceValue,           \* initialValueCents, in units
    MaxRedemptions,      \* the promo code's limit
    SweepBatch,          \* take: 200 in the sweep and in the drain
    PaidOutcomes         \* {"paid"}, or with "paidOdd": paid, but not the amount due

Procs == Requests \cup Sweepers \cup Drainers

ASSUME GiftCardAssumption ==
    /\ IsFiniteSet(Cards)
    /\ FaceValue \in Nat \ {0}
    /\ MaxRedemptions \in Nat
    /\ SweepBatch \in Nat \ {0}
    /\ NoCard \notin Cards
    /\ LegacyCards \subseteq Cards
    /\ PaidOutcomes \subseteq {"paid", "paidOdd"}
    /\ Requests \cap Sweepers = {}
    /\ Requests \cap Drainers = {}
    /\ Sweepers \cap Drainers = {}

VARIABLES
    card,       \* the GiftCard table
    redeemed,   \* the sum of a card's GiftCardRedemption rows
    receipts,   \* how often issueAfterStripePayment was called for a card (2 = more)
    mails,      \* how many voucher e-mails left for a card (2 = more)
    ses,        \* Stripe's Checkout session of a card
    events,     \* webhook events Stripe ever emitted; any may arrive again, or never
    passed,     \* the deadlines of a card that have gone by
    proc        \* the handlers

dbVars == <<card, redeemed, receipts, mails>>
envVars == <<ses, events, passed>>
vars == <<card, redeemed, receipts, mails, ses, events, passed, proc>>

-----------------------------------------------------------------------------
(* Types *)

Status == {"NONE", "PENDING_PAYMENT", "ACTIVE", "REDEEMED", "CANCELLED", "EXPIRED"}

\* refundNote, as far as the code tells its values apart: the marker
\* UNCONFIRMED_CHECKOUT_REFUND_NOTE, a text that holds the "refund it or
\* reinstate" flag, or anything else.
Note == {"other", "unconfirmed", "flagged"}

\* STRIPE: a checkout.  COUNTER: activated at the counter against money, COMP:
\* given away there.  TEST: a test-mode checkout.
Tender == {"STRIPE", "COUNTER", "COMP", "TEST"}

CardRecord ==
    [status : Status, bal : Nat, paid : BOOLEAN, byPerson : BOOLEAN, note : Note,
     sess : BOOLEAN, emailed : BOOLEAN, scheduled : BOOLEAN, promo : BOOLEAN,
     tender : Tender]

SessionState == {"none", "open", "processing", "paid", "paidOdd", "failed", "expired"}

Event == [card : Cards, says : {"paid", "paidOdd", "pending", "closed"}]

Deadline == {"abandoned", "delivery", "expiry"}

PC == {"idle", "reserve", "createSession", "saveSession", "retrieve", "handleRead",
       "flag", "claim", "reread", "issue", "send", "mark", "disregardRead", "close",
       "cancelWrite", "redeemWrite", "resendReset", "sweepList", "sweepNext",
       "closeAbandoned", "drainNext"}

Arg == {"-", "promo", "noPromo", "paid", "paidOdd", "pending", "activate", "recover",
        "emailed", "unsent", "sent", "failed"}

ProcRecord ==
    [at : PC, card : Cards \cup {NoCard}, todo : SUBSET Cards, arg : Arg, amt : Nat]

TablesOK ==
    /\ card \in [Cards -> CardRecord]
    /\ redeemed \in [Cards -> Nat]
    /\ receipts \in [Cards -> 0..2]
    /\ mails \in [Cards -> 0..2]

WorldOK ==
    /\ ses \in [Cards -> SessionState]
    /\ events \subseteq Event
    /\ passed \in [Cards -> SUBSET Deadline]

\* Between two cards of a job a handler holds no card; otherwise it does.
ProcsOK ==
    /\ proc \in [Procs -> ProcRecord]
    /\ \A p \in Procs :
          proc[p].at \notin {"idle", "sweepList", "sweepNext", "drainNext"} => proc[p].card \in Cards

TypeOK == TablesOK /\ WorldOK /\ ProcsOK

-----------------------------------------------------------------------------
(* Initial states: no card sold yet, but for the ones an earlier release   *)
(* closed off on the first poll of a session that is still open.           *)

Unsold ==
    [status |-> "NONE", bal |-> 0, paid |-> FALSE, byPerson |-> FALSE, note |-> "other",
     sess |-> FALSE, emailed |-> FALSE, scheduled |-> FALSE, promo |-> FALSE,
     tender |-> "STRIPE"]

ClosedTooEarly ==
    [Unsold EXCEPT !.status = "CANCELLED", !.note = "unconfirmed", !.sess = TRUE,
                   !.promo = TRUE]

IdleProc == [at |-> "idle", card |-> NoCard, todo |-> {}, arg |-> "-", amt |-> 0]

Init ==
    /\ card = [c \in Cards |-> IF c \in LegacyCards THEN ClosedTooEarly ELSE Unsold]
    /\ redeemed = [c \in Cards |-> 0]
    /\ receipts = [c \in Cards |-> 0]
    /\ mails = [c \in Cards |-> 0]
    /\ ses = [c \in Cards |-> IF c \in LegacyCards THEN "open" ELSE "none"]
    /\ events = {}
    /\ passed = [c \in Cards |-> {}]
    /\ proc = [p \in Procs |-> IdleProc]

-----------------------------------------------------------------------------
(* Processes *)

C(p) == proc[p].card
At(p, where) == proc[p].at = where
Idle(p) == At(p, "idle")

Begin(p, where, c, arg) ==
    proc' = [proc EXCEPT ![p] = [IdleProc EXCEPT !.at = where, !.card = c, !.arg = arg]]

Goto(p, where, arg) == proc' = [proc EXCEPT ![p].at = where, ![p].arg = arg]

\* A handler returns (or its caller catches what it threw): a request is
\* over, a job goes on with the next card of its list.
Return(p) ==
    proc' = [proc EXCEPT ![p] =
        [IdleProc EXCEPT !.todo = proc[p].todo,
                         !.at = CASE p \in Sweepers -> "sweepNext"
                                  [] p \in Drainers -> "drainNext"
                                  [] OTHER -> "idle"]]

\* The server restarts, the request times out or a call it awaits throws.
Crash(p) ==
    /\ ~Idle(p)
    /\ proc' = [proc EXCEPT ![p] = IdleProc]
    /\ UNCHANGED <<dbVars, envVars>>

-----------------------------------------------------------------------------
(* What the code asks about a card or a session *)

\* isSystemCancelledBeforePayment
SystemCancelled(r) ==
    /\ r.status = "CANCELLED"
    /\ ~r.paid
    /\ ~r.byPerson
    /\ r.note = "unconfirmed"

\* paidCheckoutAction
PaidAction(r) ==
    CASE r.status = "PENDING_PAYMENT" -> "activate"
      [] SystemCancelled(r) -> "recover"
      [] r.status = "CANCELLED" /\ ~SystemCancelled(r) -> "needs_attention"
      [] OTHER -> "already_settled"

\* Deviations of the next definition: a complete session is a paid one; an
\* unpaid session, open or not, is an abandoned one.
DispositionCompleteIsPaid(s) ==
    CASE s \in {"paid", "paidOdd"} -> s
      [] s = "processing" -> "paid"
      [] s = "expired" -> "abandoned"
      [] OTHER -> "pending"

DispositionUnpaidIsAbandoned(s) == IF s \in {"paid", "paidOdd"} THEN s ELSE "abandoned"

\* checkoutSessionDisposition, with the amount of a paid session beside it
Disposition(s) ==
    CASE s \in {"paid", "paidOdd"} -> s
      [] s = "expired" -> "abandoned"
      [] OTHER -> "pending"

\* quotePromoCode: paid for and still usable
Confirmed ==
    {c \in Cards : /\ card[c].promo
                   /\ card[c].tender # "TEST"
                   /\ card[c].paid
                   /\ card[c].status \in {"ACTIVE", "REDEEMED"}}

\* createGiftCardReservingPromo: everything not cancelled holds a slot
Reserved ==
    {c \in Cards : /\ card[c].promo
                   /\ card[c].tender # "TEST"
                   /\ card[c].status \notin {"NONE", "CANCELLED"}}

\* No checkout request holds c as the card it is about to create or save.
Unclaimed(c) ==
    \A p \in Procs : C(p) = c => proc[p].at \notin {"reserve", "createSession", "saveSession"}

-----------------------------------------------------------------------------
(* createCheckout *)

\* The quote only advises: it counts outside the transaction that reserves.
StartCheckout(p, c, promo) ==
    /\ Idle(p)
    /\ card[c].status = "NONE"
    /\ Unclaimed(c)
    /\ promo => Cardinality(Confirmed) < MaxRedemptions
    /\ Begin(p, "reserve", c, IF promo THEN "promo" ELSE "noPromo")
    /\ UNCHANGED <<dbVars, envVars>>

Sold(c, promo, scheduled) ==
    [Unsold EXCEPT !.status = "PENDING_PAYMENT", !.bal = FaceValue,
                   !.scheduled = scheduled, !.promo = promo]

\* A test checkout takes no payment and is live at once.
SoldInTest(c, promo, scheduled) ==
    [Sold(c, promo, scheduled) EXCEPT !.status = "ACTIVE", !.paid = TRUE, !.sess = TRUE,
                                      !.tender = "TEST"]

\* A checkout that relies on the quote: the reserved cards are not counted again.
CreateCardOnQuote(p, scheduled) ==
    /\ At(p, "reserve")
    /\ card' = [card EXCEPT ![C(p)] = Sold(C(p), proc[p].arg = "promo", scheduled)]
    /\ Goto(p, "createSession", "-")
    /\ UNCHANGED <<redeemed, receipts, mails, envVars>>

\* The promo row is locked, so counting the reserved cards and creating this
\* one is one step.  The owner may have test checkouts switched on or off.
CreateCard(p, scheduled) ==
    LET c == C(p)
        promo == proc[p].arg = "promo"
    IN  /\ At(p, "reserve")
        /\ \/ /\ promo /\ Cardinality(Reserved) >= MaxRedemptions
              /\ Return(p)
              /\ UNCHANGED card
           \/ /\ promo => Cardinality(Reserved) < MaxRedemptions
              /\ card' = [card EXCEPT ![c] = SoldInTest(c, promo, scheduled)]
              /\ IF scheduled THEN Return(p) ELSE Goto(p, "send", "unsent")
           \/ /\ promo => Cardinality(Reserved) < MaxRedemptions
              /\ card' = [card EXCEPT ![c] = Sold(c, promo, scheduled)]
              /\ Goto(p, "createSession", "-")
        /\ UNCHANGED <<redeemed, receipts, mails, envVars>>

CreateSession(p) ==
    /\ At(p, "createSession")
    /\ ses' = [ses EXCEPT ![C(p)] = "open"]
    /\ Goto(p, "saveSession", "-")
    /\ UNCHANGED <<dbVars, events, passed>>

\* The session id is on the row before the buyer gets the session's URL.
SaveSession(p) ==
    /\ At(p, "saveSession")
    /\ card' = [card EXCEPT ![C(p)].sess = TRUE]
    /\ Return(p)
    /\ UNCHANGED <<redeemed, receipts, mails, envVars>>

-----------------------------------------------------------------------------
(* activatePhysicalCard: the code is unused, so the row is new *)

ActivatePhysicalCard(p, c, tender, withEmail) ==
    /\ Idle(p)
    /\ card[c].status = "NONE"
    /\ Unclaimed(c)
    /\ card' = [card EXCEPT ![c] =
          [Unsold EXCEPT !.status = "ACTIVE", !.bal = FaceValue, !.sess = TRUE,
                         !.paid = (tender # "COMP"), !.tender = tender]]
    /\ IF withEmail THEN Begin(p, "send", c, "unsent") ELSE UNCHANGED proc
    /\ UNCHANGED <<redeemed, receipts, mails, envVars>>

-----------------------------------------------------------------------------
(* Stripe and the buyer *)

Emit(c, says) == events' = events \cup {[card |-> c, says |-> says]}

\* The buyer can pay once createCheckout has answered with the URL.
BuyerPays(c, outcome) ==
    /\ ses[c] = "open" /\ card[c].sess
    /\ ses' = [ses EXCEPT ![c] = outcome]
    /\ Emit(c, outcome)
    /\ UNCHANGED <<dbVars, passed, proc>>

\* A delayed payment method: the session is complete, the money not yet there.
BuyerPaysLater(c) ==
    /\ ses[c] = "open" /\ card[c].sess
    /\ ses' = [ses EXCEPT ![c] = "processing"]
    /\ Emit(c, "pending")
    /\ UNCHANGED <<dbVars, passed, proc>>

MoneyArrives(c, outcome) ==
    /\ ses[c] = "processing"
    /\ ses' = [ses EXCEPT ![c] = outcome]
    /\ Emit(c, outcome)
    /\ UNCHANGED <<dbVars, passed, proc>>

MoneyFails(c) ==
    /\ ses[c] = "processing"
    /\ ses' = [ses EXCEPT ![c] = "failed"]
    /\ Emit(c, "closed")
    /\ UNCHANGED <<dbVars, passed, proc>>

SessionExpires(c) ==
    /\ ses[c] = "open"
    /\ ses' = [ses EXCEPT ![c] = "expired"]
    /\ Emit(c, "closed")
    /\ UNCHANGED <<dbVars, passed, proc>>

\* A day (abandonedAfterHours), the delivery date, three years (expiresAt).
\* No request is still creating a card after the first of them.
DeadlinePasses(c, d) ==
    /\ d \notin passed[c]
    /\ CASE d = "abandoned" -> card[c].status = "PENDING_PAYMENT" /\ Unclaimed(c)
         [] d = "delivery" -> card[c].scheduled
         [] d = "expiry" -> card[c].status = "ACTIVE"
    /\ passed' = [passed EXCEPT ![c] = @ \cup {d}]
    /\ UNCHANGED <<dbVars, ses, events, proc>>

-----------------------------------------------------------------------------
(* The three ways to learn of a payment *)

\* stripeGiftCardWebhook: completed and async_payment_succeeded go to
\* handleCheckoutCompleted, expired and async_payment_failed close the card.
Webhook(p, e) ==
    /\ Idle(p)
    /\ IF e.says = "closed"
       THEN Begin(p, "disregardRead", e.card, "-")
       ELSE Begin(p, "handleRead", e.card, e.says)
    /\ UNCHANGED <<dbVars, envVars>>

\* getByCheckoutSession, when it has something to ask Stripe about
Poll(p, c) ==
    /\ Idle(p)
    /\ card[c].sess
    /\ card[c].status = "PENDING_PAYMENT" \/ SystemCancelled(card[c])
    /\ Begin(p, "retrieve", c, "-")
    /\ UNCHANGED <<dbVars, envVars>>

\* A sweep that expires cards by their date alone.
SweepExpiredAnyStatus(p) ==
    /\ Idle(p)
    /\ card' = [c \in Cards |->
          IF "expiry" \in passed[c] THEN [card[c] EXCEPT !.status = "EXPIRED"] ELSE card[c]]
    /\ Begin(p, "sweepList", NoCard, "-")
    /\ UNCHANGED <<redeemed, receipts, mails, envVars>>

\* sweepGiftCardLifecycle expires what is past its date, then lists the stale
\* pending cards, SweepBatch of them at most and in no particular order.
SweepExpired(p) ==
    /\ Idle(p)
    /\ card' = [c \in Cards |->
          IF card[c].status = "ACTIVE" /\ "expiry" \in passed[c]
          THEN [card[c] EXCEPT !.status = "EXPIRED"] ELSE card[c]]
    /\ Begin(p, "sweepList", NoCard, "-")
    /\ UNCHANGED <<redeemed, receipts, mails, envVars>>

Stale == {c \in Cards : card[c].status = "PENDING_PAYMENT" /\ "abandoned" \in passed[c]}

\* What a findMany with a take gives of those that match.
Batches(found) ==
    {batch \in SUBSET found :
        IF Cardinality(found) <= SweepBatch THEN batch = found ELSE Cardinality(batch) = SweepBatch}

SweepList(p) ==
    /\ At(p, "sweepList")
    /\ \E batch \in Batches(Stale) :
          proc' = [proc EXCEPT ![p] = [IdleProc EXCEPT !.at = "sweepNext", !.todo = batch]]
    /\ UNCHANGED <<dbVars, envVars>>

\* A sweep that closes stale cards without asking Stripe.
SweepNextOnTimer(p, c) ==
    /\ At(p, "sweepNext")
    /\ c \in proc[p].todo
    /\ proc' = [proc EXCEPT ![p] =
          [@ EXCEPT !.at = "closeAbandoned", !.card = c, !.todo = proc[p].todo \ {c}]]
    /\ UNCHANGED <<dbVars, envVars>>

\* A card without a session never reached Stripe; of any other, ask Stripe.
SweepNext(p, c) ==
    /\ At(p, "sweepNext")
    /\ c \in proc[p].todo
    /\ proc' = [proc EXCEPT ![p] =
          [@ EXCEPT !.at = IF card[c].sess THEN "retrieve" ELSE "closeAbandoned",
                    !.card = c, !.todo = proc[p].todo \ {c}]]
    /\ UNCHANGED <<dbVars, envVars>>

JobEnds(p) ==
    /\ proc[p].at \in {"sweepNext", "drainNext"}
    /\ proc[p].todo = {}
    /\ proc' = [proc EXCEPT ![p] = IdleProc]
    /\ UNCHANGED <<dbVars, envVars>>

CloseAbandoned(p) ==
    LET c == C(p)
    IN  /\ At(p, "closeAbandoned")
        /\ card' = IF card[c].status = "PENDING_PAYMENT"
                   THEN [card EXCEPT ![c].status = "CANCELLED", ![c].bal = 0] ELSE card
        /\ Return(p)
        /\ UNCHANGED <<redeemed, receipts, mails, envVars>>

\* stripe.checkout.sessions.retrieve, asked by the poll or the sweep; what is
\* neither paid nor expired is left alone.
Retrieve(p) ==
    LET answer == Disposition(ses[C(p)])
    IN  /\ At(p, "retrieve")
        /\ CASE answer = "abandoned" -> Goto(p, "disregardRead", "-")
             [] answer = "pending" -> Return(p)
             [] OTHER -> Goto(p, "handleRead", answer)
        /\ UNCHANGED <<dbVars, envVars>>

\* Stripe is out of reach: the sweep leaves the card pending and goes on.
RetrieveFails(p) ==
    /\ At(p, "retrieve")
    /\ Return(p)
    /\ UNCHANGED <<dbVars, envVars>>

-----------------------------------------------------------------------------
(* handleCheckoutCompleted *)

\* Reads the card and decides.  (A completed session is never an expired one,
\* so the 'abandoned' branch of the handler has no event to take it.)
HandleRead(p) ==
    LET says == proc[p].arg
        action == PaidAction(card[C(p)])
    IN  /\ At(p, "handleRead")
        /\ CASE says = "pending" -> Return(p)
             [] says = "paidOdd" -> Goto(p, "disregardRead", "-")
             [] says = "paid" /\ action \in {"activate", "recover"} -> Goto(p, "claim", action)
             [] says = "paid" /\ action = "needs_attention" ->
                    IF card[C(p)].note = "flagged" THEN Return(p) ELSE Goto(p, "flag", "-")
             [] OTHER -> Return(p)
        /\ UNCHANGED <<dbVars, envVars>>

FlagForRefund(p) ==
    /\ At(p, "flag")
    /\ card' = [card EXCEPT ![C(p)].note = "flagged"]
    /\ Return(p)
    /\ UNCHANGED <<redeemed, receipts, mails, envVars>>

\* Deviations of the next definition: the claim is no longer conditional on
\* what was read; on a person not having cancelled in between.
ClaimableAlways(r, action) == TRUE

ClaimableOverCancel(r, action) == r.status \in {"PENDING_PAYMENT", "CANCELLED"}

\* An active card can be activated again.
ClaimableWhenActive(r, action) ==
    IF action = "activate" THEN r.status \in {"PENDING_PAYMENT", "ACTIVE"} ELSE SystemCancelled(r)

\* The condition of the claiming updateMany.
Claimable(r, action) ==
    IF action = "activate" THEN r.status = "PENDING_PAYMENT" ELSE SystemCancelled(r)

Claim(p) ==
    LET c == C(p)
        action == proc[p].arg
    IN  /\ At(p, "claim")
        /\ IF Claimable(card[c], action)
           THEN /\ card' = [card EXCEPT ![c] =
                       [@ EXCEPT !.status = "ACTIVE", !.bal = FaceValue, !.paid = TRUE,
                                 !.sess = TRUE,
                                 !.note = IF action = "recover" THEN "other" ELSE card[c].note]]
                /\ Goto(p, "reread", "-")
           ELSE /\ Return(p)
                /\ UNCHANGED card
        /\ UNCHANGED <<redeemed, receipts, mails, envVars>>

\* Only the winner goes on, with the row as it is now.
Reread(p) ==
    /\ At(p, "reread")
    /\ Goto(p, "issue", IF card[C(p)].emailed THEN "emailed" ELSE "unsent")
    /\ UNCHANGED <<dbVars, envVars>>

AtMostTwo(n) == IF n >= 2 THEN 2 ELSE n

\* issueAfterStripePayment, then the two early returns before the e-mail
IssueReceipt(p) ==
    LET c == C(p)
    IN  /\ At(p, "issue")
        /\ receipts' = [receipts EXCEPT ![c] = AtMostTwo(@ + 1)]
        /\ IF \/ proc[p].arg = "emailed"
              \/ card[c].scheduled /\ "delivery" \notin passed[c]
           THEN Return(p)
           ELSE Goto(p, "send", "unsent")
        /\ UNCHANGED <<card, redeemed, mails, envVars>>

-----------------------------------------------------------------------------
(* disregardUnconfirmedCheckout *)

Disregardable(r) == r.status = "PENDING_PAYMENT" /\ ~r.paid

DisregardRead(p) ==
    /\ At(p, "disregardRead")
    /\ IF Disregardable(card[C(p)]) THEN Goto(p, "close", "-") ELSE Return(p)
    /\ UNCHANGED <<dbVars, envVars>>

Close(p) ==
    LET c == C(p)
    IN  /\ At(p, "close")
        /\ card' = IF Disregardable(card[c])
                   THEN [card EXCEPT ![c] =
                            [@ EXCEPT !.status = "CANCELLED", !.bal = 0, !.sess = TRUE,
                                      !.note = "unconfirmed"]]
                   ELSE card
        /\ Return(p)
        /\ UNCHANGED <<redeemed, receipts, mails, envVars>>

-----------------------------------------------------------------------------
(* redeem and cancel *)

RedeemStart(p, c, amount) ==
    /\ Idle(p)
    /\ card[c].status = "ACTIVE"
    /\ "expiry" \notin passed[c]
    /\ amount <= card[c].bal
    /\ proc' = [proc EXCEPT ![p] =
          [IdleProc EXCEPT !.at = "redeemWrite", !.card = c, !.amt = amount]]
    /\ UNCHANGED <<dbVars, envVars>>

\* The conditional decrement locks the row; the redemption row and the new
\* status are written in the same transaction.
RedeemWrite(p) ==
    LET c == C(p)
        left == card[c].bal - proc[p].amt
    IN  /\ At(p, "redeemWrite")
        /\ IF card[c].status = "ACTIVE" /\ proc[p].amt <= card[c].bal
           THEN /\ card' = [card EXCEPT ![c].bal = left,
                                        ![c].status = IF left = 0 THEN "REDEEMED" ELSE "ACTIVE"]
                /\ redeemed' = [redeemed EXCEPT ![c] = @ + proc[p].amt]
           ELSE UNCHANGED <<card, redeemed>>
        /\ Return(p)
        /\ UNCHANGED <<receipts, mails, envVars>>

CancelStart(p, c) ==
    /\ Idle(p)
    /\ card[c].status \in {"PENDING_PAYMENT", "ACTIVE"}
    /\ Begin(p, "cancelWrite", c, "-")
    /\ UNCHANGED <<dbVars, envVars>>

\* Unconditional: the status was checked on the row read before.
CancelWrite(p) ==
    LET c == C(p)
    IN  /\ At(p, "cancelWrite")
        /\ card' = [card EXCEPT ![c] =
              [@ EXCEPT !.status = "CANCELLED", !.bal = 0, !.byPerson = TRUE, !.note = "other"]]
        /\ Return(p)
        /\ UNCHANGED <<redeemed, receipts, mails, envVars>>

-----------------------------------------------------------------------------
(* E-mail *)

\* sendGiftCardEmail was handed a row that was not e-mailed when it was read.
Send(p) ==
    /\ At(p, "send")
    /\ \/ /\ mails' = [mails EXCEPT ![C(p)] = AtMostTwo(@ + 1)]
          /\ Goto(p, "mark", "sent")
       \/ /\ Goto(p, "mark", "failed")
          /\ UNCHANGED mails
    /\ UNCHANGED <<card, redeemed, receipts, envVars>>

\* A send recorded as made whether it was or not.
MarkSentAnyway(p) ==
    /\ At(p, "mark")
    /\ card' = [card EXCEPT ![C(p)].emailed = TRUE]
    /\ Return(p)
    /\ UNCHANGED <<redeemed, receipts, mails, envVars>>

\* emailedAt when every recipient's message left, emailError otherwise.
MarkSent(p) ==
    LET c == C(p)
    IN  /\ At(p, "mark")
        /\ card' = IF proc[p].arg = "sent" THEN [card EXCEPT ![c].emailed = TRUE] ELSE card
        /\ Return(p)
        /\ UNCHANGED <<redeemed, receipts, mails, envVars>>

ResendStart(p, c) ==
    /\ Idle(p)
    /\ card[c].status = "ACTIVE"
    /\ Begin(p, "resendReset", c, "-")
    /\ UNCHANGED <<dbVars, envVars>>

ResendReset(p) ==
    /\ At(p, "resendReset")
    /\ card' = [card EXCEPT ![C(p)].emailed = FALSE]
    /\ Goto(p, "send", "unsent")
    /\ UNCHANGED <<redeemed, receipts, mails, envVars>>

\* drainScheduledGiftCardSends lists what is due, then sends card by card
\* from the rows of that list.
Due == {c \in Cards : /\ card[c].status = "ACTIVE"
                      /\ ~card[c].emailed
                      /\ card[c].scheduled
                      /\ "delivery" \in passed[c]}

DrainList(p) ==
    /\ Idle(p)
    /\ Due # {}
    /\ \E batch \in Batches(Due) :
          proc' = [proc EXCEPT ![p] = [IdleProc EXCEPT !.at = "drainNext", !.todo = batch]]
    /\ UNCHANGED <<dbVars, envVars>>

DrainNext(p, c) ==
    /\ At(p, "drainNext")
    /\ c \in proc[p].todo
    /\ proc' = [proc EXCEPT ![p] =
          [@ EXCEPT !.at = "send", !.card = c, !.todo = proc[p].todo \ {c}, !.arg = "unsent"]]
    /\ UNCHANGED <<dbVars, envVars>>

-----------------------------------------------------------------------------
(* The specification *)

RequestStarts(p) ==
    \/ \E e \in events : Webhook(p, e)
    \/ \E c \in Cards :
          \/ \E promo \in BOOLEAN : StartCheckout(p, c, promo)
          \/ \E tender \in {"COUNTER", "COMP"}, withEmail \in BOOLEAN :
                 ActivatePhysicalCard(p, c, tender, withEmail)
          \/ Poll(p, c)
          \/ \E amount \in 1..FaceValue : RedeemStart(p, c, amount)
          \/ CancelStart(p, c)
          \/ ResendStart(p, c)

CheckoutStep(p) ==
    \/ \E scheduled \in BOOLEAN : CreateCard(p, scheduled)
    \/ CreateSession(p)
    \/ SaveSession(p)

PaymentStep(p) ==
    \/ Retrieve(p)
    \/ RetrieveFails(p)
    \/ HandleRead(p)
    \/ FlagForRefund(p)
    \/ Claim(p)
    \/ Reread(p)
    \/ IssueReceipt(p)
    \/ DisregardRead(p)
    \/ Close(p)

CardStep(p) ==
    \/ RedeemWrite(p)
    \/ CancelWrite(p)
    \/ ResendReset(p)
    \/ Send(p)
    \/ MarkSent(p)

SweepStep(p) ==
    \/ SweepList(p)
    \/ CloseAbandoned(p)
    \/ \E c \in Cards : SweepNext(p, c)

HandlerStep(p) ==
    \/ CheckoutStep(p)
    \/ PaymentStep(p)
    \/ CardStep(p)
    \/ SweepStep(p)
    \/ \E c \in Cards : DrainNext(p, c)
    \/ JobEnds(p)

Stripe(c) ==
    \/ \E outcome \in PaidOutcomes : BuyerPays(c, outcome) \/ MoneyArrives(c, outcome)
    \/ BuyerPaysLater(c)
    \/ MoneyFails(c)
    \/ SessionExpires(c)

Step ==
    \/ \E p \in Requests : RequestStarts(p)
    \/ \E p \in Sweepers : SweepExpired(p)
    \/ \E p \in Drainers : DrainList(p)
    \/ \E p \in Procs : HandlerStep(p)
    \/ \E c \in Cards : Stripe(c) \/ \E d \in Deadline : DeadlinePasses(c, d)

Next == Step \/ \E p \in Procs : Crash(p)

Spec == Init /\ [][Next]_vars

-----------------------------------------------------------------------------
(* Safety *)

Live == {"ACTIVE", "REDEEMED", "EXPIRED"}

\* What a card has left and what was redeemed of it add up to what was sold,
\* from the moment it can be spent (an expired card keeps its figure); a card
\* that was never live was never redeemed; a cancelled card is worth nothing.
\* redeem(), cancel(), the claim and the sweep all write these columns.
ValueConserved ==
    \A c \in Cards :
        /\ card[c].status \in Live => card[c].bal + redeemed[c] = FaceValue
        /\ card[c].status = "ACTIVE" => card[c].bal > 0
        /\ card[c].status = "REDEEMED" => card[c].bal = 0
        /\ card[c].status = "PENDING_PAYMENT" => card[c].bal = FaceValue /\ redeemed[c] = 0
        /\ card[c].status = "CANCELLED" => card[c].bal = 0 /\ redeemed[c] <= FaceValue
        /\ SystemCancelled(card[c]) => redeemed[c] = 0

\* A card sold through Stripe is spendable only if Stripe holds the right
\* amount for its session: no reading of an open, processing, failed, expired or
\* mismatched session by webhook, poll or sweep makes a card live.
LiveMeansPaid ==
    \A c \in Cards :
        card[c].status \in Live /\ card[c].tender = "STRIPE" => ses[c] = "paid"

\* The receipt or tax invoice is issued by the one handler whose claim
\* activated the card: at most once per card, and never for an unpaid one.
ReceiptOnce ==
    \A c \in Cards :
        /\ receipts[c] <= 1
        /\ receipts[c] = 1 => card[c].paid /\ ses[c] = "paid"

\* The system itself closes a card only when its money can no longer come: a
\* card whose session is open or processing in the buyer's hands, or paid in
\* full, is cancelled only by a person (or was, by the earlier release).
ClosedOnlyWhenLost ==
    \A c \in Cards \ LegacyCards :
        card[c].status = "CANCELLED" /\ ~card[c].byPerson
            => \/ ses[c] \in {"none", "failed", "expired", "paidOdd"}
               \/ ses[c] = "open" /\ ~card[c].sess

\* However many checkouts quote the promo code at once, no more of its cards
\* are reserved than it allows, but for cards of the earlier release that came
\* back to life after their slot had been given away.
PromoWithinLimit == Cardinality(Reserved \ LegacyCards) <= MaxRedemptions

\* A person's cancellation is never undone or spent from, whatever payment,
\* redemption, sweep or e-mail was under way when it was made.
PersonCancelSticks ==
    [][\A c \in Cards : card[c].byPerson =>
          /\ card'[c].status = "CANCELLED" /\ card'[c].byPerson
          /\ card'[c].bal = 0
          /\ redeemed'[c] = redeemed[c]]_vars

\* Refines the promise of a card: see GiftCardLedger.
Phase(r) ==
    CASE r.status = "NONE" -> "unsold"
      [] r.status = "PENDING_PAYMENT" -> "offered"
      [] r.status = "ACTIVE" -> "live"
      [] r.status = "REDEEMED" -> "spent"
      [] r.status = "EXPIRED" -> "lapsed"
      [] SystemCancelled(r) -> "closed"
      [] OTHER -> "withdrawn"

Ledger == INSTANCE GiftCardLedger WITH
    Fresh <- Cards \ LegacyCards,
    phase <- [c \in Cards |-> Phase(card[c])],
    value <- [c \in Cards |-> card[c].bal],
    spent <- redeemed

\* Every step of every handler is a step of the ledger or none.
LedgerSpec == Ledger!Spec

-----------------------------------------------------------------------------
(* Liveness *)

\* The jobs are called by Cloud Scheduler again and again and their steps are
\* not put off for ever.  Strong fairness, since a run may crash, Stripe be out
\* of reach and the mail provider refuse: none of them every single time.
SweepFairness(p, c) ==
    /\ SF_vars(SweepNext(p, c))
    /\ SF_vars(C(p) = c /\ Retrieve(p))
    /\ SF_vars(C(p) = c /\ HandleRead(p))
    /\ SF_vars(C(p) = c /\ Claim(p))

DrainFairness(p, c) ==
    /\ SF_vars(DrainNext(p, c))
    /\ SF_vars(C(p) = c /\ Send(p) /\ mails' # mails)
    /\ SF_vars(C(p) = c /\ MarkSent(p))

SweepsFair ==
    /\ \A p \in Sweepers : WF_vars(SweepExpired(p)) /\ SF_vars(SweepList(p)) /\ WF_vars(JobEnds(p))
    /\ \A p \in Sweepers, c \in Cards : SweepFairness(p, c)
    /\ \A c \in Cards : WF_vars(DeadlinePasses(c, "abandoned"))

DrainsFair ==
    /\ \A p \in Drainers : WF_vars(DrainList(p)) /\ WF_vars(JobEnds(p))
    /\ \A p \in Drainers, c \in Cards : DrainFairness(p, c)

FairSpec == Spec /\ SweepsFair /\ DrainsFair

\* A buyer who paid gets the card, even if every webhook is lost, the page is
\* closed before it polls and servers crash: unless a person cancels it.
PaidIsHonoured ==
    \A c \in Cards : ses[c] = "paid" ~> (card[c].status \in Live \/ card[c].byPerson)

\* A scheduled card reaches its recipient once its date has come, unless it is
\* redeemed, expires or is cancelled first, however often a send failed.
ScheduledIsSent ==
    \A c \in Cards :
        card[c].status = "ACTIVE" /\ card[c].scheduled /\ "delivery" \in passed[c]
            ~> mails[c] >= 1 \/ card[c].status # "ACTIVE"
=============================================================================
