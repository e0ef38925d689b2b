---------------------------- MODULE CorporateCards ----------------------------
(***************************************************************************)
(* A company's bulk order of gift cards: its payment, the pool of cards it *)
(* turns into, and the handing out of the pool                             *)
(* (corporate-gift-card.service.ts, lib/corporate-gift-cards.ts).          *)
(*                                                                         *)
(* The payment and the pool are two transactions.  A webhook, a read of    *)
(* the order screen, a manual confirmation and a cancellation may each be  *)
(* under way at once and each may die between any two of its awaits; every *)
(* request keeps what it read of the order until it writes.                *)
(***************************************************************************)
EXTENDS Integers, FiniteSets, FiniteSetsExt

CONSTANTS
    Requests,     \* requests under way at once
    Sessions,     \* Stripe Checkout sessions
    Keys,         \* allocation keys: one for a row of a recipient file, or a click
    Quantity,     \* cards on the order
    NoSession,
    NoKey         \* a pool card nobody was given

CorporateAssumption ==
    /\ Quantity \in Nat \ {0}
    /\ NoSession \notin Sessions /\ NoKey \notin Keys

ASSUME CorporateAssumption

VARIABLES
    order,        \* the CorporateGiftCardOrder row
    pool,         \* the GiftCard rows of the order
    session,      \* Stripe's sessions
    acked,        \* sessions whose payment event was answered with 2xx
    answered,     \* keys for which a caller was told that a card is allocated
    proc          \* the requests

vars == <<order, pool, session, acked, answered, proc>>

-----------------------------------------------------------------------------
(* Types *)

OrderRecord ==
    [status : {"NONE", "AWAITING_PAYMENT", "ISSUED", "CANCELLED"},
     payment : {"AWAITING_PAYMENT", "PAID", "CANCELLED"},
     method : {"STRIPE", "OFFLINE"}, test : BOOLEAN,
     session : Sessions \cup {NoSession}]

\* The cards are 1, 2, ... in the order of creation.
CardRecord == [live : BOOLEAN, key : Keys \cup {NoKey}]

Stages ==
    {"idle", "ask", "settle", "reload", "clear", "issue", "checkout", "save", "bank", "cancel",
     "expire", "lookup", "list", "claim"}

\* kind is the request, s the session it works on; recover says that issueCards
\* was called by recoverIssuance; keys are the rows still to be allocated and
\* free the candidates that claimPoolCard found.
Request ==
    [at : Stages, kind : {"none", "create", "webhook", "read", "refresh", "manual", "cancel", "allocate"},
     s : Sessions \cup {NoSession}, recover : BOOLEAN, keys : SUBSET Keys, free : SUBSET Nat]

Idle == [at |-> "idle", kind |-> "none", s |-> NoSession, recover |-> FALSE, keys |-> {}, free |-> {}]

CorporateTypeOK ==
    /\ order \in OrderRecord
    /\ DOMAIN pool \in SUBSET Nat /\ \A c \in DOMAIN pool : pool[c] \in CardRecord
    /\ session \in [Sessions -> {"none", "new", "open", "paid", "expired"}]
    /\ acked \subseteq Sessions
    /\ answered \subseteq Keys
    /\ proc \in [Requests -> Request]

Init ==
    /\ order \in [status : {"NONE"}, payment : {"AWAITING_PAYMENT"}, method : {"STRIPE", "OFFLINE"},
                  test : BOOLEAN, session : {NoSession}]
    /\ pool = [c \in {} |-> 0]
    /\ session = [s \in Sessions |-> "none"]
    /\ acked = {}
    /\ answered = {}
    /\ proc = [r \in Requests |-> Idle]

-----------------------------------------------------------------------------
(* Requests *)

Pending == order.status = "AWAITING_PAYMENT" /\ order.payment = "PAID"
Unpaid == order.status = "AWAITING_PAYMENT" /\ order.payment = "AWAITING_PAYMENT"

Begin(r, kind, stage, s) ==
    /\ proc[r].at = "idle"
    /\ proc' = [proc EXCEPT ![r] = [Idle EXCEPT !.kind = kind, !.at = stage, !.s = s]]

Goto(r, stage) == proc' = [proc EXCEPT ![r].at = stage]
ToIssue(r, recover) == proc' = [proc EXCEPT ![r].at = "issue", ![r].recover = recover]
Throw(r) == proc' = [proc EXCEPT ![r] = Idle] /\ UNCHANGED acked

\* The reply: for a webhook, the 2xx that ends Stripe's redeliveries.
Reply(r) ==
    /\ proc' = [proc EXCEPT ![r] = Idle]
    /\ acked' = IF proc[r].kind = "webhook" THEN acked \cup {proc[r].s} ELSE acked

\* What a read of an order that still wants its money ends with.
StillUnpaid(r) ==
    IF proc[r].kind = "refresh" THEN Goto(r, "checkout") /\ UNCHANGED acked ELSE Reply(r)

\* An await that throws, a timeout, a restart: the rest is not done.
Crash(r) ==
    /\ proc[r].at # "idle"
    /\ proc' = [proc EXCEPT ![r] = Idle]
    /\ UNCHANGED <<order, pool, session, acked, answered>>

-----------------------------------------------------------------------------
(* The order and its payment *)

\* A test order is born paid.
CreateOrder(r) ==
    /\ order.status = "NONE"
    /\ order' = [order EXCEPT !.status = "AWAITING_PAYMENT", !.payment = IF order.test THEN "PAID" ELSE @]
    /\ IF order.test \/ order.method = "STRIPE"
       THEN Begin(r, "create", IF order.test THEN "issue" ELSE "checkout", NoSession)
       ELSE UNCHANGED proc
    /\ UNCHANGED <<pool, session, acked, answered>>

CreateSession(r, s) ==
    /\ proc[r].at = "checkout"
    /\ session[s] = "none"
    /\ session' = [session EXCEPT ![s] = "new"]
    /\ proc' = [proc EXCEPT ![r].at = "save", ![r].s = s]
    /\ UNCHANGED <<order, pool, acked, answered>>

\* The buyer gets the address once the order holds the session, whatever became
\* of the order in the meantime.
SaveSession(r) ==
    LET s == proc[r].s
    IN  /\ proc[r].at = "save"
        /\ order' = [order EXCEPT !.session = s]
        /\ session' = [session EXCEPT ![s] = IF @ = "new" THEN "open" ELSE @]
        /\ Reply(r)
        /\ UNCHANGED <<pool, answered>>

\* A paid order without cards is shown as it is.
ShowPending(r, kind) == Pending /\ UNCHANGED proc

\* reconcileStripe finishes the issuance first.
ReadPending(r, kind) == Pending /\ Begin(r, kind, "issue", NoSession)

ReadUnpaid(r, kind) ==
    /\ Unpaid /\ order.method = "STRIPE"
    /\ \/ order.session # NoSession /\ Begin(r, kind, "ask", order.session)
       \/ order.session = NoSession /\ kind = "refresh" /\ Begin(r, kind, "checkout", NoSession)

\* getOrder and refreshStripeCheckout.
Read(r, kind) ==
    /\ ReadPending(r, kind) \/ ReadUnpaid(r, kind)
    /\ UNCHANGED <<order, pool, session, acked, answered>>

\* When Stripe cannot be reached the order is taken to be unpaid still.
Ask(r) ==
    /\ proc[r].at = "ask"
    /\ \/ session[proc[r].s] = "paid" /\ Goto(r, "settle") /\ UNCHANGED acked
       \/ session[proc[r].s] = "expired" /\ Goto(r, "clear") /\ UNCHANGED acked
       \/ StillUnpaid(r)
    /\ UNCHANGED <<order, pool, session, answered>>

ClearedBy(s) ==
    IF order.payment = "AWAITING_PAYMENT" /\ order.session = s
    THEN [order EXCEPT !.session = NoSession] ELSE order

\* The order read again afterwards decides whether a new checkout is made.
Clear(r) ==
    /\ proc[r].at = "clear"
    /\ order' = ClearedBy(proc[r].s)
    /\ IF Unpaid THEN StillUnpaid(r) ELSE Throw(r)
    /\ UNCHANGED <<pool, session, answered>>

\* checkout.session.completed, delivered again until it is answered with 2xx and
\* perhaps once more.
Webhook(r, s) ==
    /\ session[s] = "paid"
    /\ IF order.payment # "PAID" THEN Begin(r, "webhook", "settle", s) /\ UNCHANGED acked
       ELSE IF Pending
       THEN /\ proc[r].at = "idle" /\ UNCHANGED acked
            /\ proc' = [proc EXCEPT ![r] =
                  [Idle EXCEPT !.kind = "webhook", !.at = "issue", !.s = s, !.recover = TRUE]]
       ELSE proc[r].at = "idle" /\ acked' = acked \cup {s} /\ UNCHANGED proc
    /\ UNCHANGED <<order, pool, session, answered>>

WebhookExpired(s) ==
    /\ session[s] = "expired"
    /\ order' = ClearedBy(s)
    /\ UNCHANGED <<pool, session, acked, answered, proc>>

\* settleStripePayment without the condition on the order's status.
PayableAnyStatus == order.payment # "PAID"

\* The condition under which a payment is recorded.
Payable == Unpaid

Settle(r) ==
    /\ proc[r].at = "settle"
    /\ IF Payable
       THEN order' = [order EXCEPT !.payment = "PAID", !.session = proc[r].s] /\ ToIssue(r, FALSE)
       ELSE Goto(r, "reload") /\ UNCHANGED order
    /\ UNCHANGED <<pool, session, acked, answered>>

Reload(r) ==
    /\ proc[r].at = "reload"
    /\ IF Pending THEN ToIssue(r, TRUE) /\ UNCHANGED acked ELSE Reply(r)
    /\ UNCHANGED <<order, pool, session, answered>>

\* recordManualPayment.
Manual(r) ==
    /\ Unpaid /\ order.method # "STRIPE"
    /\ Begin(r, "manual", "bank", NoSession)
    /\ UNCHANGED <<order, pool, session, acked, answered>>

RecordPayment(r) ==
    /\ proc[r].at = "bank"
    /\ IF Payable
       THEN order' = [order EXCEPT !.payment = "PAID"] /\ ToIssue(r, FALSE) /\ UNCHANGED acked
       ELSE Throw(r) /\ UNCHANGED order
    /\ UNCHANGED <<pool, session, answered>>

Cancel(r) ==
    /\ Unpaid
    /\ Begin(r, "cancel", "cancel", order.session)
    /\ UNCHANGED <<order, pool, session, acked, answered>>

CancelWrite(r) ==
    /\ proc[r].at = "cancel"
    /\ IF Unpaid
       THEN /\ order' = [order EXCEPT !.status = "CANCELLED", !.payment = "CANCELLED"]
            /\ IF proc[r].s = NoSession THEN Reply(r) ELSE Goto(r, "expire") /\ UNCHANGED acked
       ELSE Throw(r) /\ UNCHANGED order
    /\ UNCHANGED <<pool, session, answered>>

ExpireSession(r) ==
    /\ proc[r].at = "expire"
    /\ session' = [session EXCEPT ![proc[r].s] = IF @ \in {"new", "open"} THEN "expired" ELSE @]
    /\ Reply(r)
    /\ UNCHANGED <<order, pool, answered>>

-----------------------------------------------------------------------------
(* Issuance *)

\* Issues whatever is paid, a second time too.
IssuableWhenPaid == order.payment = "PAID"

\* issueBlockedReason, the pool that must not exist yet and the conditional flip.
Issuable == Pending /\ DOMAIN pool = {}

NextCards == (Cardinality(DOMAIN pool) + 1)..(Cardinality(DOMAIN pool) + Quantity)

\* issueCards, in one transaction on the locked order.  A recovery that comes too
\* late is content with an issued order; another caller's request fails.
Issue(r) ==
    /\ proc[r].at = "issue"
    /\ IF Issuable
       THEN /\ order' = [order EXCEPT !.status = "ISSUED"]
            /\ pool' = [c \in DOMAIN pool \cup NextCards |->
                           IF c \in DOMAIN pool THEN pool[c] ELSE [live |-> TRUE, key |-> NoKey]]
            /\ Reply(r)
       ELSE /\ IF proc[r].recover /\ order.status = "ISSUED" THEN Reply(r) ELSE Throw(r)
            /\ UNCHANGED <<order, pool>>
    /\ UNCHANGED <<session, answered>>

-----------------------------------------------------------------------------
(* The pool *)

Holders(k) == {c \in DOMAIN pool : pool[c].key = k}

\* The claim of whatever card the list gave, though somebody may have it by now.
FreeOnceListed(c) == c \in DOMAIN pool /\ pool[c].live

Free(c) == c \in DOMAIN pool /\ pool[c].live /\ pool[c].key = NoKey

\* allocate() of one key, and importRecipients of several: the file is refused as
\* a whole when the pool is too small for it.
Allocate(r, keys) ==
    LET new == {k \in keys : Holders(k) = {}}
    IN  /\ order.status = "ISSUED" /\ keys # {}
        /\ proc[r].at = "idle"
        /\ Cardinality(keys) > 1 => Cardinality(new) <= Cardinality({c \in DOMAIN pool : Free(c)})
        /\ proc' = [proc EXCEPT ![r] = [Idle EXCEPT !.kind = "allocate", !.at = "lookup", !.keys = keys]]
        /\ UNCHANGED <<order, pool, session, acked, answered>>

\* The key the request is at: the rows are worked through in turn.
Row(r) == CHOOSE k \in proc[r].keys : TRUE

Allocated(r) ==
    /\ answered' = answered \cup {Row(r)}
    /\ proc' = [proc EXCEPT ![r] =
          IF @.keys = {Row(r)} THEN Idle ELSE [@ EXCEPT !.at = "lookup", !.keys = proc[r].keys \ {Row(r)}, !.free = {}]]

LookUp(r) ==
    /\ proc[r].at = "lookup"
    /\ IF Holders(Row(r)) # {} THEN Allocated(r) ELSE Goto(r, "list") /\ UNCHANGED answered
    /\ UNCHANGED <<order, pool, session, acked>>

\* claimPoolCard: what is free now, the oldest first.
ListFree(r) ==
    /\ proc[r].at = "list"
    /\ LET free == {c \in DOMAIN pool : Free(c)}
       IN  proc' = [proc EXCEPT ![r] = IF free = {} THEN Idle ELSE [@ EXCEPT !.at = "claim", !.free = free]]
    /\ UNCHANGED <<order, pool, session, acked, answered>>

\* The unique index on (order, key) turns a second card for a key away.
ClaimCard(r) ==
    LET c == Min(proc[r].free)
    IN  /\ proc[r].at = "claim"
        /\ IF ~Free(c)
           THEN /\ proc' = [proc EXCEPT ![r].free = @ \ {c},
                                        ![r].at = IF proc[r].free = {c} THEN "list" ELSE @]
                /\ UNCHANGED <<pool, answered>>
           ELSE /\ pool' = IF Holders(Row(r)) # {} THEN pool ELSE [pool EXCEPT ![c].key = Row(r)]
                /\ Allocated(r)
        /\ UNCHANGED <<order, session, acked>>

\* The ordinary cancellation of one card of the pool.
CancelCard(c) ==
    /\ c \in DOMAIN pool /\ pool[c].live
    /\ pool' = [pool EXCEPT ![c].live = FALSE]
    /\ UNCHANGED <<order, session, acked, answered, proc>>

-----------------------------------------------------------------------------
(* Stripe *)

BuyerPays(s) ==
    /\ session[s] = "open"
    /\ session' = [session EXCEPT ![s] = "paid"]
    /\ UNCHANGED <<order, pool, acked, answered, proc>>

SessionExpires(s) ==
    /\ session[s] \in {"new", "open"}
    /\ session' = [session EXCEPT ![s] = "expired"]
    /\ UNCHANGED <<order, pool, acked, answered, proc>>

-----------------------------------------------------------------------------
(* The specification *)

PaymentStep(r) ==
    \/ \E s \in Sessions : CreateSession(r, s)
    \/ SaveSession(r) \/ Ask(r) \/ Clear(r) \/ Settle(r) \/ Reload(r)
    \/ RecordPayment(r) \/ CancelWrite(r) \/ ExpireSession(r)

Step(r) == PaymentStep(r) \/ Issue(r) \/ LookUp(r) \/ ListFree(r) \/ ClaimCard(r)

Start(r) ==
    \/ CreateOrder(r)
    \/ \E kind \in {"read", "refresh"} : Read(r, kind)
    \/ \E s \in Sessions : Webhook(r, s)
    \/ Manual(r)
    \/ Cancel(r)
    \/ \E keys \in SUBSET Keys : Allocate(r, keys)

Next ==
    \/ \E r \in Requests : Start(r) \/ Step(r) \/ Crash(r)
    \/ \E s \in Sessions : WebhookExpired(s) \/ BuyerPays(s) \/ SessionExpires(s)
    \/ \E c \in DOMAIN pool : CancelCard(c)

Spec == Init /\ [][Next]_vars

\* A request goes on unless it dies, and one that comes back to the issuance
\* again and again does not die every time.  Stripe delivers a payment until it
\* is answered; an order that Stripe knows nothing of, a test or an offline
\* payment, is finished when somebody opens its screen again.
ByStripe == order.method = "STRIPE" /\ ~order.test
Redeliver(s) == ByStripe /\ s \notin acked /\ \E r \in Requests : Webhook(r, s)
OpenScreen == ~ByStripe /\ \E r \in Requests : Read(r, "read")

Fairness ==
    /\ \A r \in Requests : WF_vars(Step(r))
    /\ SF_vars(\E r \in Requests : Issue(r))
    /\ \A s \in Sessions : SF_vars(Redeliver(s))
    /\ SF_vars(OpenScreen)

FairSpec == Spec /\ Fairness

-----------------------------------------------------------------------------
(* Properties *)

\* "CANCELLED + PAID is a state that cannot be reached": a cancellation and a
\* payment that race, by whatever way the payment comes, never both win; nor is
\* an order cancelled that has cards.
CancelledIsUnpaid ==
    order.status = "CANCELLED" => order.payment = "CANCELLED" /\ DOMAIN pool = {}

\* One payment, one pool: webhooks, reads, clicks and recoveries that arrive
\* together, each of which may have read the order before the others wrote it,
\* produce the cards of the order exactly once, and only for an order that was paid.
PoolOnce ==
    DOMAIN pool = IF order.status = "ISSUED" /\ order.payment = "PAID" THEN 1..Quantity ELSE {}

\* A key is one card: a retry of a click, a file uploaded twice and two people
\* allocating at once give no recipient a second card, and a card somebody was
\* told he has is not given to another.
OneCardPerKey ==
    \A k \in Keys : Cardinality(Holders(k)) = 1 \/ (k \notin answered /\ Holders(k) = {})

\* What was paid, the venue issues: a crash between the payment and the pool
\* leaves an order that Stripe's next delivery, or the next look at it, finishes.
PaidIsIssued == (order.payment = "PAID") ~> (order.status = "ISSUED")
=============================================================================
