# A verification project for the ALMA suite

The ALMA suite is the back office of a small restaurant group: a TypeScript
monorepo with a main API (`src/apps/api`), a stock API (`src/apps/stock-api`),
a print bridge (`src/apps/print-bridge`), eight web clients and one native
client over one PostgreSQL database (`src/packages/db/prisma/schema.prisma`).
This directory holds TLA+ models of the parts of it where state, money and
concurrency meet, the TLC runs that check them on small instances, and TLAPS
proofs for every instance.

Contents: 1 inventory, 2 plan, 3 how a request becomes actions, 4 gift cards,
5 the bill, the terminal and paying online, 6 the back office, 7 the front of
house, 8 the runs, 9 fairness, 10 what is proved, 11 findings and what else was
seen while modelling, 12 what is left out.

## 1. Inventory

The suite has no message broker and no in-process shared state worth the name.
Everything that matters is a row in the database, and everything that happens
is an HTTP request, a webhook or a job endpoint called by Cloud Scheduler
(`apps/api/src/routes/integration-jobs.ts`). Several instances of the API run at
once, each handling many requests. So the hard behaviour is always of one
kind: a handler reads rows, awaits, decides, awaits, writes, and some other
handler wrote in between; or it dies half way. Some code guards against this
with conditional updates (`updateMany` with the expected state in the `where`),
row locks, unique keys or Stripe's idempotency keys, some does not, and that is
what the models are about.

| Component (source) | State | Operations | Talks to | Hard behaviour | What makes it correct |
| --- | --- | --- | --- | --- | --- |
| Consumer gift cards (`gift-card.service.ts`, `checkout-session-state.ts`) | `GiftCard`, `GiftCardRedemption` | checkout, counter activation, webhook, confirmation poll, sweep, redeem, cancel, expire, send, resend, drain | Stripe, mail, documents, POS | three racing ways to learn of a payment; lost, late, repeated webhooks; delayed payments; stale reads; crashes | a card is live only when paid; balance and redemptions add up; one receipt; no paid card closed by the system; a paid card is honoured in the end |
| Donations, sponsorships, promo codes (same file) | settings, promo codes, vouchers | administration | cards | promo limit under concurrent checkouts (modelled) | the limit holds |
| Corporate gift cards (`corporate-gift-card.service.ts`) | an order, its pool of cards | create, pay, cancel, issue, recover, allocate | Stripe, mail | payment and pool in two transactions; cancellation against payment; a file applied twice | one pool per paid order; never cancelled and paid; one card per allocation key |
| Financial documents (`financial-document.service.ts`) | documents, series counters, `saleKey` | receipts, credit notes, voids | cards, Stripe, mail | a failed transaction with a number in hand; refunds announced several times | no gaps; one receipt that stands; credits within what was paid |
| POS bills (`pos.service.ts`) | `PosOrder`, lines, payments, gift card sales, drawers, day close | open, add, split, merge, pay, undo, void, reopen, refund | gift cards, loyalty, terminal, printers | two tills on one bill; redemption before the payment row; cards issued one by one | paid bills were covered; refunds within payments; cards only when paid for |
| Card terminal (`pos-terminal.service.ts`) | `PosTerminalCheckout`, `PosTerminalRefund` | start, poll, cancel, refund | Square, bills | polls that race; claim and crash; a bill that changed meanwhile | what Square moved is booked once, or loudly not at all |
| QR orders and pay at table (`qr-order.service.ts`) | pending rounds, payments | submit, link, confirm, pay | Square, Stripe, bills | claim then crash; find then pay; two loads of the page | a paid round is on a bill once; a payment is recorded whole and once |
| Loyalty (`loyalty.service.ts`) | members, points, ledger | join, earn, redeem, adjust | bills | two first-time joins | one member per phone |
| Stock ledger (`stock-api`: stocktakes, transfers, deliveries, purchase orders) | figures by item and venue, `InventoryMovement` | count, apply, correct, reverse, transfer, waste, receive | items | absolute writes; repeated completion; two lines of one item | the ledger explains the figure of a venue that took none over from the group; a reversal takes back all; nothing received twice |
| Items, recipes, invoices, suppliers, units (`stock-api`) | catalogue | edit, cost, match | stock ledger | averages, conversions | consistent conversions |
| Menus, promotions (`menu.service.ts`, `promotion.service.ts`) | drafts, versions, listings | edit, copy, publish, restore, list | the website, a PDF renderer | seconds of rendering between reading and writing; two rows to lock | what is public is what was saved; listing and PDF agree; nobody is overwritten unseen |
| Reservations (`reserve.service.ts`) | bookings, waiting list | book, edit, seat, cancel, charge a no-show | Stripe, guests | two bookings for the last table; a charge whose answer is lost | a card is charged once |
| Staff, rosters, tips (`staff.service.ts`, `shift-claims.ts`, `tips-allocation.ts`) | shifts, offers, claims, timesheets, tip runs | offer, claim, decide, confirm, clock, pay out | payroll | two approvals of one shift; rounding | one yes per shift; shares add up |
| Mail, marketing, messaging, push (`marketing.service.ts`, ...) | campaigns, recipients, automations | edit, simulate, test, send | mail providers | sent twice, or again after a failure | nobody is mailed twice |
| Deputy, Xero, integrations, imports | links, cursors | pull, push | external APIs | repeated runs | upserts by external id |
| Print queue and bridge (`print-bridge/bridge.mjs`) | dockets | queue, fetch, acknowledge | printers | lost acknowledgement | a docket is printed |
| Checklists, temperatures, incidents, tasks, training | one row per record | single-user edits | push | little | - |
| Forecasts, reports | none of their own | read | everything | numeric | - |
| Accounts, devices, audit, settings | users, sessions | administration | everything | - | - |
| Clients (`*-web`, `pos-native`) | view state | send requests | API | retry, double click | covered as repeated requests |

`PROJECT.json` lists the same components with their status, and every hazard
at the line where it bites.

## 2. Plan

In order of what would cost the business most, and of how much is concurrent.
Steps 1 to 7 are done, the rest is what would come next.

1. **GiftCard**, its abstract **GiftCardLedger**, and the proofs of all its safety
   properties and of the refinement.
2. **PosBill** with **PosTerminal** and **PosOnline** on top of it.
3. **StockLedger**: the figures of one item, every paper that changes them.
4. **CorporateCards** and **FinancialDocuments**: money in, pools out, numbers
   without gaps.
5. **QrRounds**: rounds that are paid before they are ordered.
6. **MenuCards**: menus, promotions and the locks they share.
7. **Reservations**, **Campaigns**, **ShiftSwaps**.
8. To come: discounts, surcharges, single lines, drawers and the end of
   the day in **PosBill**, with an abstract bill that it implements; stock papers
   two at a time, with the properties weakened to what the code then keeps.
9. To come: automations of marketing (a lease of one hour), timesheets, tips
   allocation and unit conversion as pure functions against reference definitions.

Parts that share no row are checked in one run, of which a behaviour works on one part;
the theorems about the parts are carried over to these compositions, so that they speak of
the specifications TLC runs (`OfficeSpec`, `FrontSpec`, `TendersSpec`, `TillsSpec`).

Of what the runs check only the liveness properties are without a theorem. The next
theorems, in this order, are those that say more than a run does: `Covered` with crashes and gift cards for sale, weakened to what the code
keeps there; the refinement of an abstract bill (step 8), once it is stated; and the rosters of
**ShiftSwaps** as far as they are right.

## 3. How a request becomes actions

Every request, webhook delivery and job run is a process. A process has the
row it works on, the awaited call it stands before, and the few facts it
remembers from what it read. The rules, in every module:

- Each awaited database, Stripe or Square call that another process could come
  before is an action of its own. Reads that follow one another and decide
  together are one action, as is a transaction whose rows are locked from its
  first statement on, or that consists of one conditional write.
- A conditional update is modelled with the row as it is when it runs; an
  unconditional update after a check is what it is, two actions.
- Whatever the code does at the end of a call (recompute a total, refresh a status,
  issue the cards of a settled bill) belongs to the call and is not optional.
- A database write commits and answers, or does neither. A call to Stripe, Square
  or the mail provider may take effect and its answer be lost.
- A handler that returns leaves its process idle, so that a few processes can play
  any number of requests. `Crash` (`Leave` in the newer modules, where it is
  also the refusal by a check that the model does not carry) drops a process at
  any point: a restart, a request timeout and an awaited call that throws all look
  like this to the tables.

Data is kept as far as the properties tell it apart: money in small units, texts as
model values, dates as "has passed". `updatedAt`, which the menus compare, counts the
writes of a row; in the code it has milliseconds.

Definitions whose names say how they deviate (`ClaimableAlways`, `AskStripeAnew`,
`CreateCardOnQuote`, ...) are plausible bugs; no action of a specification uses
them. Each is listed as a mutant in `PROJECT.json`: in the place of
the definition it deviates from, it breaks the property named there.

## 4. Gift cards

**GiftCard.tla** is the sale and the life of a consumer gift card.

| Variable | Stands for |
| --- | --- |
| `card` | the GiftCard row: status, `balanceCents`, `paidAt` set, `cancelledByUserId` set, `refundNote` as far as the code tells its values apart, `stripeCheckoutSessionId` set, `emailedAt` set, `scheduledSendAt` set, `promoCode` set, how it was sold |
| `redeemed` | the sum of the card's GiftCardRedemption rows |
| `receipts`, `mails` | calls of `issueAfterStripePayment`, voucher e-mails sent, counted up to two |
| `ses` | Stripe's view of the card's Checkout session |
| `events` | every webhook event Stripe emitted; any of them may be delivered any number of times, in any order, or never |
| `passed` | which deadlines of the card have gone by: a day as abandoned, its delivery date, its expiry |
| `proc` | the handlers |

| Code | Actions |
| --- | --- |
| `createCheckout` (quote, reserve and create, Stripe session, save the id; test checkouts) | `StartCheckout`, `CreateCard`, `CreateSession`, `SaveSession` |
| `activatePhysicalCard` | `ActivatePhysicalCard` |
| `stripeGiftCardWebhook` | `Webhook`, then the handler the event names |
| `getByCheckoutSession` | `Poll`, `Retrieve` or `RetrieveFails` |
| `sweepGiftCardLifecycle` | `SweepExpired`, `SweepList`, `SweepNext`, `CloseAbandoned`, `Retrieve`, `JobEnds` |
| `handleCheckoutCompleted` | `HandleRead`, `FlagForRefund`, `Claim`, `Reread`, `IssueReceipt`, then the e-mail |
| `disregardUnconfirmedCheckout` | `DisregardRead`, `Close` |
| `redeem`, `cancel` | `RedeemStart`, `RedeemWrite`; `CancelStart`, `CancelWrite` |
| `sendGiftCardEmail`, `resendGiftCardEmail` | `Send`, `MarkSent`, `ResendStart`, `ResendReset` |
| `drainScheduledGiftCardSends` | `DrainList`, `DrainNext`, then the e-mail |
| Stripe, the buyer, time (external) | `BuyerPays`, `BuyerPaysLater`, `MoneyArrives`, `MoneyFails`, `SessionExpires`, `DeadlinePasses` |

`LegacyCards` start as the code's comments describe the cards of an earlier
release (`checkout-session-state.ts:6-22`): cancelled by the first poll of a
session that was still open. The recovery path of the code exists for them.

**GiftCardLedger.tla** is what a card promises with no handlers at all: offered,
live with its whole value, spent down, and ending spent, lapsed or withdrawn.
`GiftCard!LedgerSpec` maps the rows to it: every step of every handler is a step of
the ledger or none.

**MCGiftCard.tla** and **MCGiftCardJobs.tla** are the instances: the second has one
of the two scheduled jobs at work in each behaviour (`job`).
**GiftCardProofs.tla** holds the proofs: types, values, the refinement, who paid.

**CorporateCards.tla** is a company's bulk order. `order` is its row, `pool` the cards
it turned into, each with its allocation key; `session` Stripe's sessions; `acked`
the payment events that were answered; `answered` the keys for which somebody was told
that a card is allocated.

| Code (`corporate-gift-card.service.ts`) | Actions |
| --- | --- |
| `createOrder` | `CreateOrder`, `CreateSession`, `SaveSession` |
| `getOrder`, `refreshPayment` | `Read`, `Ask`, then settling or issuing |
| the webhook | `Webhook`, `Clear` (the amount, the session), `WebhookExpired` |
| `settleOrderPayment` | `Settle`, `Reload` |
| `confirmPayment` by hand | `Manual`, `RecordPayment` |
| `cancelOrder` | `Cancel`, `CancelWrite`, `ExpireSession` |
| `issueCards`, `recoverIssuance` | `Issue` |
| `allocate`, `importRecipients`, `claimPoolCard` | `Allocate`, `LookUp`, `ListFree`, `ClaimCard` |

**FinancialDocuments.tla** is the receipts of gift card sales and the credit notes
against them. `doc` holds the rows in the order of their commits, `last` and `holder`
the counter of a series and the transaction that has it locked. A document is made in
`TakeNumber` and `InsertSale` or `InsertNote`, with `RollBack` for a failure;
`CardPaid`, `CatchUp` and `Issue` are the three ways to a receipt, `Check` the latch
that lets one of them win; `Reconcile`, `RefundEvent` and `ManualCredit` the three to a
note; `Email` the mail that only a winner sends. **FinancialDocumentsProofs.tla** holds the
proofs; those of corporate orders are in **BackOfficeProofs.tla**.

## 5. The bill, the terminal and paying online

**PosBill.tla** is a bill at the register. Money is counted in small units and a
bill totals its lines; `goods` and `gifts` are the sums of its ordinary lines and
of the lines that gift card sales put there. The places a handler may stand at are one set
(`Stops`, with those of the terminal and of the phone), so that all of them share the type of
`proc`. Sums over rows are `SumFunctionOnSet`, about which **SumTheorems.tla** has the lemmas.

| Variable | Stands for |
| --- | --- |
| `bill` | the PosOrder row: status, `totalCents`, `tipCents`, and the sums of its PosOrderLine rows |
| `pays`, `written` | the PosPayment rows, and how many were ever written (the bound `MaxPayments`) |
| `sale` | the PosGiftCardSale rows: the bill, issued, and whether the issued card was cancelled by a refund |
| `cards` | live gift cards activated for a sale, counted up to two |
| `wallet` | what is left on the gift cards and in the points the guests pay with |
| `proc` | the handlers; `then` and `catch` say who called, so the terminal and the online page use the same `payOrder` and `applyRefund` as the register |

| Code (`pos.service.ts`) | Actions |
| --- | --- |
| `createOrder` | `CreateOrder` |
| `setLines` | `SetLinesRead`, `SetLines`, then sync and recompute |
| `addGiftCardSale`, `removeGiftCardSale` | `AddGiftCardSaleRead`, `AddGiftCardSale`, `RemoveGiftCardSaleRead`, `RemoveGiftCardSale`, then sync and recompute |
| `syncGiftCardLines`, `recomputeOrder` | `SyncRead`, `SyncClear`, `SyncCreate`; `RecomputeRead`, `RecomputeWrite` |
| `payOrder` | `PayOrder` (or `Book`, `Pay`), `PayReread`, `Debit`, `Record`, `SetStatus`, then the gift cards |
| `issuePendingGiftCards` | `IssueList`, `IssueNext`, `IssueMark` |
| `undoPayment` | `UndoRead`, `UndoDelete`, `UndoStatus` |
| `voidOrder`, `reopenOrder` | `VoidRead`, `VoidOrder`, `ReopenRead`, `ReopenOrder` |
| `refundOrder`, `applyRefund` | `RefundOrder` (or `Book`), `Refund`, `RefundCards` |
| `mergeOrders` | `MergeRead`, `MergeOrders`, then recompute |
| `splitEvenly` (two ways) | `SplitRead`, `SplitChild` and recompute for each part, `SplitVoid` |

**PosTerminal.tla** extends it with card charges and refunds on a Square terminal.
`attempt` holds the rows of PosTerminalCheckout and PosTerminalRefund, which are
handled alike; `square` is Square's own record; `heard` is what a handler last read or
heard of a status. `latch` is the `paymentId` column that serves as the lock: null,
`PENDING`, or the payment's id.

| Code (`pos-terminal.service.ts`) | Actions |
| --- | --- |
| `startCheckout`, `startRefund` | `StartCheckout` or `StartRefund`, `LookInFlight`, `ToSquare`, `WriteRow` |
| `pollCheckout`, `pollRefund` | `Poll`, `AskSquare`, `WriteStatus`, or `Claim`, `Book` (all of `payOrder` or `applyRefund`), `Booked` or `NotBooked` |
| `cancelCheckout` | `CancelCheckout`, `CancelOnSquare`, then `WriteStatus` or the poll |
| Square and the guest (external) | `CardPresented`, `Completes`, `IsCanceled` |

**PosOnline.tla** extends PosBill with paying on the guest's phone: `session` is
Stripe's record with the metadata `payIntent` puts there, `confirmed` the sessions that
were answered ok.

| Code (`qr-order.service.ts`) | Actions |
| --- | --- |
| `payIntent` | `PayIntent`, `CreateSession` |
| `payConfirm` | `PayConfirm`, `LookForExisting`, `Decided`, `Pay` (all of `payOrder`), `PaidOk` |
| Stripe and the guest (external) | `GuestPays` |

**MCPosTills.tla** is PosBill without crashes, at any set of tills that are at work while the
others are away (`OneTill`: one is at work). **MCPosTenders.tla** has a bill paid on the terminal or
on the phone (`part`), several tills at work in the first case and one that may die
in the second. **PosBillProofs.tla** and **PosTendersProofs.tla** hold the theorems about the two.

**QrRounds.tla** is the rounds that the guests of a table order and pay before
anything reaches a bill (`submit`, `confirmPaid`, `materialisePending`): `Submit`, `Link`,
`ConfirmPaid`, `Ask`, `Claim`, and then one by one `Find` or `Create` (the bill), `AddLines`,
`AddPayment`, `Fire`, `Save`, while staff open and close bills.

## 6. The back office

**StockLedger.tla** is one item: `item` the group's figure, `shelf` a venue's,
`booked` the sum of a venue's movements, `sent` its transfers, `takenOver` (history) what
the venue's first figure took over from the group's, and the papers `count`, `delivery`,
`order`. A request is one action here, since the code locks nothing: what holds, holds
between requests, and section 11 says what two at once do. A venue without a figure has
nothing when it is counted, the group's figure when it is part of a transfer (`Current`)
or is adjusted before it has a row (`BeforeAdjusting`). No movement shows what it took over,
so `FigureExplained` is about the venues that took nothing over: their first figure came from
a count, or the group had none. Counts are `CreateCount`, `EditCount`, `UpdateLine`,
`AddLine`, `RemoveLine`, `SubmitCount`, `ReviewCount`, `LockCount`, `ReopenCount`, `DeleteCount`,
`ApplyCount`, `CorrectCount` and `ReverseCount`; then `Transfer`, `Waste`, the delivery
checks (`CreateDelivery`, `EditDelivery`, `CompleteDelivery`) and the purchase orders (`CreateOrder`,
`EditOrder`, `SendOrder`, `CancelOrder`, `Receive`, `MatchOrder`). `Balance` and `WithRow` are the
arithmetic of `balanceTargetForItem`, `Adjust` that of `adjustVenueOnHand`.

**MCBackOffice.tla** puts receipts, corporate orders, the stock ledger and the rounds
of guests into one run, **MCRepairs.tla** the liveness of the first two into another:
`part` says which of them a behaviour is about. **BackOfficeProofs.tla** proves what the run checks of
the former: of corporate orders, of rounds and of stock, and carries over what is proved of documents.

## 7. The front of house

**MenuCards.tla** is menus with drafts and versions, and the promotions that print a card
from a menu and list it on the website. `version` has what the rows say (`doc`), what was
printed (`printed`), the count of writes (`updatedAt`) and when its sections were last replaced
(`laid`). A request reads and renders first; `Lock` takes the row of a menu (or
the promotion) that its transaction asks for next, and the transaction is one action after the last of
them. `Held` and `Asked` are the locks it has and waits for. **MenuCardsProofs.tla** holds the proofs.

| Code (`menu.service.ts`, `promotion.service.ts`) | Actions |
| --- | --- |
| `createMenu`, `archiveMenu`, `unarchiveMenu` | `CreateMenuRead`, `CreateMenu`; `ArchiveMenu` |
| `createDraft`, `getDraft`, `saveDraft`, `discardDraft` | `CreateDraftRead`, `CreateDraft`; `OpenDraft`; `SaveDraftRead`, `SaveDraft`; `DiscardDraftRead`, `DiscardDraft` |
| `restore`, `copyItemTo` | `RestoreRead`, `Restore`; `CopyItemRead`, `CopyTarget`, `CopyItem` |
| `publish`, `preparePublish`, `commitPublish` | `PublishRead`, `Render`, `Publish` |
| promotion `create`, `update`, `setStatus` | `CreatePromotionRead`, `CreatePromotion`; `UpdatePromotionRead`, `UpdatePromotion`; `SetStatusRead`, `SetStatus` |
| promotion `publish` | `ListRead`, `LoadCard`, `Render`, then `ListAsIs`, `ListWithDraft` or `ListReprinted` |

**Reservations.tla** is the bookings of one sitting. `stripe` is what Stripe keeps under the
idempotency key of a booking, `taken` how often its card was charged. Stripe may forget a
key after a day; the model keeps it, so what is said of retries is said of that day.

| Code (`reserve.service.ts`) | Actions |
| --- | --- |
| the website | `PublicBookRead`, `Recheck`, `PublicBook`; `CancelRead`, `Cancel` |
| managers | `CreateReservation`, `UpdateReservation`, `SetServiceState` |
| the waiting list | `JoinWaitlist`, `LinkParty`, `SeatRead`, `SeatWalkIn` |
| `chargeReservationNoShow` | `ChargeRead`, `Claim`, `Charge`, `SaveFee` or `Release` |

**Campaigns.tla** is one e-mail campaign: `UpdateCampaign`, `SimulateRead`, `Simulate`, `TestSend`,
`TestMark`, the live send (`LiveSendRead`, `Claim`, `Wipe`, then `Mail` and `Log` for one guest after
another, `Finish`), the link in the footer (`Unsubscribe`) and the 24 hours (`TestGetsOld`).
`mailed` counts what the provider took for a guest.

**ShiftSwaps.tla** is shifts that are open or offered: managers write the roster
(`CreateRosterShift`, `UpdateRosterShift`, `PublishRoster`, `DeleteRosterShift`), the team
offers, takes back, claims, withdraws and confirms, and `decideClaim` is `DeclineRead`,
`Decline`, `ApproveRead`, `ApproveClashes`, `Approve`.

**MCFrontOfHouse.tla** puts menus, bookings and a campaign into one run (`part`),
**MCShiftSwaps.tla** is the instance of the finding. **FrontOfHouseProofs.tla** holds the proofs about
bookings and campaigns, and carries over those about menus.

## 8. The runs

All cards, bills, refs, requests, sweeps and drains are model values; those that are
interchangeable form the symmetry set of the safety runs (the liveness runs have
none). Two requests are enough for every race of this code, because
each is between one write and one stale read, with a sweep or a drain as a third
party; since a process is reused, sequences of any number of requests are covered.
Two payment rows tell a first payment from a settling one and a payment from its
refund; amounts of 2 tell a part from the whole, 3 splits unevenly; a tip of 1 is the
smallest that can be put on the wrong side. Bounds on writes (`MaxPayments`,
`MaxWrites`, `MaxDocuments`, `MaxSaves`, `MaxEdits`) limit how often something is done
and undone again.

| Run | Shows | Bounds |
| --- | --- | --- |
| `gift_sale` | `ValueConserved`: balance and redemptions agree with what was sold in every state. `LiveMeansPaid`: no reading of any session state makes an unpaid card live. `ReceiptOnce`: webhooks, polls and the sweep issue one receipt between them, and none without payment. `ClosedOnlyWhenLost`: the system never closes a card whose money is still coming or there. `LedgerSpec`: the refinement. | one card, two requests, a sweep, a drain that meets one other handler at a time (`DrainMeetsOne`), payments of the wrong amount; a face value of 2 |
| `gift_several` | `PromoWithinLimit`: the quote counts too few cards, but the reservation under the promo row's lock makes up for it. `PersonCancelSticks`, also for a card that can be recovered: a person's cancellation is never undone or spent from. | two cards and one of the earlier release compete for one slot of a promo code; `PromoCheckouts` keeps to cards bought with it and not redeemed or e-mailed |
| `gift_jobs` | `SweepHonours`: even if every webhook is lost, no page polls and handlers crash, a paid card goes live unless a person cancels it. `DrainSends`: a card with a delivery date is sent after it, however often a send failed. | one card, one request, the job |
| `pos_tills` | `CoveredAlone`: a bill that is paid was covered when it was settled. `RefundBounded`, `CardsArePaidFor` (a gift card is issued only for a paid bill, and once, also after reopening, undoing and settling again): one till, any sequence of requests. `GiftDebitsRecorded` and `CardsArePaidFor`: with a second till in between. The first two hold between requests, not between tills: see section 11. | one till on two bills with tips and a gift card for sale, or two tills on one bill with gift cards to pay with (`OneOrTwo`) |
| `pos_crash` | handlers die anywhere: `Covered`, `GiftNotFree` (no payment row without the debit), `SplitAddsUp` | three bills so that one is split in two and the parts are merged, paid, split again; `OddBills` keeps to amounts of 0, 1 and 3 and leaves out `undoPayment`, which does not survive a crash (section 11) |
| `tenders` | card terminal: `BookedOnce`, `BookedMeansDone`, `ChargeIsLoud` (what Square took and the books refuse is written down). Online: `RecordedAsPaid` (what is recorded was paid, whole and once). `TendersTypeOK` for both. | two requests that start, poll, cancel, take cash and refund around one charge, the register and the terminal never refunding at the same moment (`OneCharge`), or one request at a time that may die, on two bills that open again when a payment is undone, not by `reopen` (`OneSession`) |
| `backoffice` | documents: `CreditsCovered`. Corporate orders: `CancelledIsUnpaid`, `PoolOnce`, `OneCardPerKey`. Stock: `FigureExplained`, `ReversedIsUndone`, `ReceivedOnce`. Rounds: `RoundOnce`. `OfficeTypeOK` for all four. | two requests, one card with two refunds, three documents; two sessions, two keys, two cards; two venues, one paper beside transfers and wastage, three writes; two phones, two rounds, two bills |
| `repairs` | `PaidIsIssued`, `ReceiptIssued`: what a dead request left is finished. `GapFree`, `OneReceipt` on the way. | one card, one refund, two documents; one session, two cards |
| `front` | menus: `VersionsKept`, `ListingMatchesCard`, `EditsRespected`, `NobodyWaitsInACircle`. Bookings: `FeeOnce`. Campaigns: `MailedOnce`. | two menus, three versions, one promotion, one dish, two offers, one save and two edits, in the stories `Copying`, `Linked` and `Making`; two bookings, one party, a capacity of 2 (`Sittings`); two guests |
| `terminal_stuck`, `online_lost`, `swaps` | the findings of section 11 | two requests |

`CHECK_DEADLOCK FALSE` in every run: when every card is cancelled, spent or
expired, no job has anything to do and no request is accepted; likewise when all bills
are void, the payment rows are used up, or a bound on writes is reached. The system may
really stop there.

`PromoWithinLimit` leaves the legacy cards out: one that comes back after its
slot was given away does exceed the limit, and the code accepts that (the buyer has
paid). `ClosedOnlyWhenLost` leaves them out because the earlier release closed
them.

Processes that take no part in a behaviour of `pos_tills` and `tenders` stand at `"away"`,
where no action starts.

## 9. Fairness

Only jobs and repeated deliveries are assumed to make progress, never a poll or a buyer.

- *Gift card jobs* (`SweepsFair`, `DrainsFair`). Cloud Scheduler calls the sweep and the
  drain again and again, so their first steps are weakly fair; the steps in between are
  strongly fair: a run may crash, Stripe be out of reach (`RetrieveFails`) or the mail
  provider refuse, and then the next run tries again, but none of them happens every single
  time. The `abandoned` deadline passes because time does. Webhooks are not fair.
- *Corporate orders* (`CorporateCards!Fairness`). A request goes on unless it dies, and the
  issuance does not die every time. Stripe delivers an event until it is answered with 2xx,
  which the webhook does only after it has settled (`Redeliver`). A test or an offline
  order, which Stripe knows nothing of, is finished when somebody opens its screen again
  (`OpenScreen`, since `getOrder` recovers it).
- *Documents* (`FinancialDocuments!Fairness`). The catch-up job runs on a timer and its
  attempt at a card's receipt is not interrupted every time.

`SweepBatch` bounds a sweep and a run of the drain like the `take: 200` of the code. The
liveness run has no more cards than the batch; with more cards stuck for ever than the batch
holds, the code promises nothing, since its queries have no order.

The terminals and the online page have no liveness property: a charge is booked by a
poll, only the register polls (`pos-web/src/App.tsx`), it stops after five
minutes or at the first error, and no job takes over; nothing in the code makes a charge be
booked in the end. Nor has a live campaign: what a dead send left is not taken up again.

## 10. What is proved

`tlapm` checks the theorems of eight modules, for every value of the constants that
satisfies the named assumptions.

**Gift cards**, for any number of cards, requests, sweeps and drains, every face value and
promo limit, from `GiftCardAssumption` (face value positive, finitely many cards, the kinds of process
disjoint, legacy cards are cards).

- `TypeCorrect`, `Spec => []TypeOK` (proved, in no run). Balances and redemption sums never go
  below zero, in particular because the conditional decrement of `redeem` checks the
  row it decrements.
- `ValueKept`, `Spec => []ValueConserved`. `ValueConserved` is not inductive by
  itself. It is strengthened by `SoldInv`, which says what a handler in the
  middle of its work may rely on: a card that a checkout is about to create is
  unsold and nobody else is creating it, and every other handler that
  holds a card holds one that was sold (so no cancellation, closing or claim
  ever writes to a row that does not exist). What can be
  claimed is pending or was closed by the system, of neither was anything
  redeemed, so the full balance a claim sets is right; `redeem` takes from the balance what
  it adds to the redemptions; `cancel` leaves the redemptions alone and
  a cancelled card is never recovered over a person's name.
- `LiveIsPaid` and `OneReceiptEach` (`LiveMeansPaid`, `ReceiptOnce`) from `PaidInv`, which
  says what "Stripe said paid" is worth on its way from an event or a retrieved session
  through a handler to the claim: a session is never paid and then something else, so being
  late does not matter; and the one handler that has claimed and not yet issued the receipt
  is the only one, with no receipt issued so far.
- `ClosedWhenLost` (`ClosedOnlyWhenLost`) from three parts: what a handler heard before
  it closes a card cannot change back (`ClosingHeard`), a sweep holds a session only of a card that was a
  day old when it read it (`SweepOfStale`), and what was closed is lost (`ClosedIsLost`).
- `PromoKept` (`PromoWithinLimit`): the set of cards that count against the code changes by one at a time,
  under the lock that counts it.
- `CancelledForGood` (`PersonCancelSticks`) and `KeepsThePromise` (`LedgerSpec`): every
  action changes a row in one of seven ways (`Becomes`), each of which is a step of the ledger of that
  card, or none, and leaves a person's cancellation alone.

**Bills**, for any number of bills, tills, gift cards for sale, payment rows and amounts, from
`PosBillAssumption` (amounts are natural numbers, tills, sales and refs finitely many, the ids that stand
for nothing are none).

- `BillsTyped` (`BillTypes`: `TypeOK` with what a handler knows where it stands) and `GiftMoneyOnBooks`,
  `GiftMoneyNotFree` (`GiftDebitsRecorded`, `GiftNotFree`): with any number of tills at work, the second
  with requests that die. What was taken from the wallet, less what is booked, less what handlers
  have in hand (`Missing`) is zero, and with crashes not below it; a merge moves rows without changing
  their sum, and an undo takes none of a gift card.
- `PaidIsCovered`, `RefundsAreBounded`, `CardsWerePaidFor` (`CoveredAlone`, `RefundBounded`,
  `CardsArePaidFor`) and `OneTillCovers` (`Covered`, where there is one till), from `[]TillInv` while one
  till is at work. These are what the code promises between requests, so the
  invariant says what holds in the middle of one: what the handler read still stands
  (`AloneInv`); every bill in use totals its lines and has a line per sale on it, but for the one
  being edited, which says how far it is from that (`LinesInv`); the amount a payment or a refund
  has decided on is still right, and at most what is there (`MoneyInv`); a paid bill is covered, but for
  the moment between the two writes of an undo, and no edit of a paid bill takes its total
  above what was collected (`CoverInv`); a live
  card belongs to a sale that is marked issued, but for the one being marked (`CardInv`).
- `PartsAddUp` (`SplitAddsUp`) at one till whose requests may die: the parts made so far have
  their shares, and the part being made its lines (`SplitInv`).
- `CrashesCover` (`Covered`) at one till whose requests may die, that sells no gift cards
  (`Sales = {}`) and undoes no payment (`[]NobodyUndoes`). Both are needed: a crash between
  the two writes of an undo leaves a bill `PAID` with nothing paid, and one between a sale and its line makes
  the total of a paid bill grow at its next edit. The run `pos_crash` leaves the undo out for the same reason.

**The terminal**, for `CrashingTerminalSpec` and so for `TerminalSpec`, whose behaviours are among its.

- `BooksOnce` and `BooksWhatIsDone` (`BookedOnce`, `BookedMeansDone`) from
  `LatchKept`, `[]TerminalInv`. `TerminalInv` says why the conditional update is a lock. A
  ref is started by one handler, and nobody knows it before its row is written
  (`StartsAlone`), so no row ever gets a fresh latch while somebody is booking it; a row exists
  only for what Square knows (`KnownToSquare`); the latch is shut before anything is booked, and a handler
  that has shut it and not yet booked is the only one and finds no payment row
  (`LatchHolds`); two payment rows never share a ref (`OneRowEach`); what is claimed, being booked or booked
  is completed at Square, which takes nothing back (`DoneInv`). `Places` says where in the
  borrowed `payOrder` and `applyRefund` such a handler may stand and where they return to. Types are needed only so
  far as fields exist (`Shapes`): amounts, which are sums over rows, play no part.
- `ChargesStayLoud` (`[]ChargesLoud`, which is `ChargeIsLoud` of charges) and `AttemptsStayLoud`
  (`ChargeIsLoud`), for `TerminalSpec`: whose latch is shut has a payment row, a written reason why
  not, or a handler that is on its way to one of them (`Answered`). The second supposes `[]RefundsStand`: the
  register may undo the row that a refund on a terminal led to, and then nothing answers for the refund;
  a charge's row cannot be undone.

**The phone and the two together.** `OnlineIsPaid` (`OnlineMeansPaid`, a part of `RecordedAsPaid`) for `CrashingOnlineSpec`, with any number of tills:
an online payment on a bill is of a session that was paid, and bill and tip together are what came. `RecordsOnce`
(`RecordedAsPaid`) for `TendersSpec`, with one till at work on the side of the phone, as in the run: a row of a
session is on the session's bill, or that bill was merged away and is void with no rows of its own
(`RowsAtHome`), so that `LookForExisting` on the bill finds whatever there is (`NotYet`). With two tills it is false
(section 11). `TendersTyped` (`TendersTypeOK`) for both sides.

**Corporate orders**, from `CorporateAssumption` (a positive quantity). `OrderInvariant`, then
`NeverCancelledAndPaid`, `IssuedOnce`, `KeyedOnce` (`CancelledIsUnpaid`, `PoolOnce`, `OneCardPerKey`)
and `CorporateTypes`. The invariant adds to `PoolOnce` how the two statuses of an order go together
(`Agreed`: every writer's `where` names both, which is why no race can mix them) and to
`OneCardPerKey` that the unique index holds whatever a request listed before (`HandedOut`).

**Rounds** (`RoundsOnce`), from `QrAssumption` (ids of bills are numbers, finitely many). A claim is exclusive,
since the update is conditional (`ServedOnce`); how far the request has come is how much of the round is on the bill
(`StepByStep`); over all bills a round has its lines once (`OnOneBill`).

**Documents**, from `DocumentsAssumption`. `DocumentInvariant`, then `NumberedWithoutGaps` and
`OneReceiptPerCard` (`GapFree`, `OneReceipt`). The invariant says that the row of a series is held
by the transaction with its number in hand and by no other (`Locked`), so a number that is
given back is the last; that at most one request may still mail a receipt, and it has not
(`Mailed`); that a card has one receipt that stands (`OneLive`); and what each
request knows at its stage (`Fitting`). `CreditsAreCovered` (`CreditsCovered`) adds that the notes that
stand against a receipt, with the one that is being written and has the series locked, never credit more than the receipt says, and that
a refund has one note (`Covers`).

**Stock**, for any number of venues and papers and any quantities, from `StockLedgerAssumption`
(finitely many venues, quantities positive). `StockInvariant`, then `FiguresAreExplained`, `ReversalsUndo`
(`FigureExplained`, `ReversedIsUndone`): what a venue has is what it took over from the group and what was
booked and sent (`FiguresOK`; the theorem says it of the venues that took nothing over), and what a count has booked is the sum over its lines of what was adjusted and
corrected (`CountsOK`), which is why the reversal may take back the sum. `ReceiptsAddUp` (`ReceivedOnce`)
from the types of an order and that nothing has come on an order never sent (`OrdersOK`).

**No-show fees**, for any number of bookings, requests and amounts, from
`ReservationsAssumption`. `FeeInvariant`, then `FeeTakenOnce` (`FeeOnce`). Stripe takes the money
with the answer it keeps, once per key (`Kept`); the claim is exclusive, and who is
about to save knows what Stripe keeps, so a retry with another amount cannot book a fee
that was not taken (`Exclusive`); a fee that is booked stays with its intent, so the claim
can never be taken again (`Booked`).

**Menus and listings**, for any number of menus, versions, promotions and requests, from
`MenuCardsAssumption` (ids of rows are numbers, the ids that stand for nothing are no rows, finitely many requests).
`VersionsAreKept` and `ListingsMatchTheirCards` (`VersionsKept`, `ListingMatchesCard`). What
changes in a step at most is said once (`RowsKept`: a version is never unmade, its text changes only
with its `updatedAt`, what was published once keeps its print), and so is what a request
knows of the rows at its stage (`Fits`): a draft to be printed says what was read or has
a later `updatedAt`, and the same of the promotion it will list. What one request
knows survives the steps of all others (`StillFits`), which is why
`commitPublish` and `publish` may render for seconds and compare afterwards. Only one request holds the row
of a promotion (`Exclusive`), so the offer that is listed is the one on the print; a card
belongs to one promotion (`OneCard`), so the print has its offer; and the counter of a
menu is never behind its versions (`Counted`), so its next number is new.
`EditsAreRespected` (`EditsRespected`): the save compares under the lock, so what is
overwritten is what the page showed. `LocksAreOrdered` (`NobodyWaitsInACircle`): promotions come before menus and menus go by id, so each
request asks for a row behind those it has; of a finite set that waits for itself, the request with the last
row asked for would wait for somebody who asks for a later one.

**Campaigns** (`CampaignsMailOnce`, `MailedOnce`): the claim is won once and never given back,
so one request sends; whom it has yet to mail was not mailed (`SentByOne`).

**The compositions.** `CreditsStayCovered`, `FiguresStayExplained`, `ReversalsStayWhole`, `OrdersReceivedOnce`, `RoundsOnce`
and `OfficeTypes` are about `OfficeSpec`; `CampaignsMailOnce`, `VersionsStayKept`, `ListingsStayTrue`,
`TransactionsDoNotDeadlock` and `EditsStayRespected` about `FrontSpec`: a step of the whole is a step of each part or leaves it
alone.

**Sums.** The provers cannot instantiate the library's induction over finite sets, whose theorem takes an
operator. **SumTheorems** gets by without: the library has that the strict subsets of a
finite set are well-founded, as a statement about relations, so among the subsets for which a formula fails one is smallest
(`Smallest`), and that one leads to a contradiction. In this way the recursion behind a sum has a solution, the sum over a set is an
element and the sum over the rest (`SumRemove`), and sums of a changed function follow.

The layout is the same everywhere: lemmas for what a step does to its own process, then
one lemma per action or group of actions for each part of the invariant, and a
theorem on top.

Only model-checked are the liveness properties (`SweepHonours`, `DrainSends`, `PaidIsIssued`,
`ReceiptIssued`) and everything about fairness, which are out of the prover's reach. Every other property of
a passing run has a theorem. Some theorems suppose more than the assumptions on the constants, and say so in
their statements:

- `PaidIsCovered`, `RefundsAreBounded` and `CardsWerePaidFor` speak of one till at work, as the properties
  themselves or the tills at work do; what the run checks beyond that, `CardsArePaidFor` with two
  tills, is model-checked;
- `PartsAddUp` and `OneTillCovers` are for one till in all, `CrashesCover` also for no gift cards and no undo;
- `AttemptsStayLoud` supposes that no refund's row is undone (`OneCharge` of the run leaves
  `undoPayment` out);
- `RecordsOnce` is about one till on the side of the phone, by the specification of the run.

That they fail without it is the code's doing: section 11 tells how.

## 11. Findings

- `FinishOrCancel` (`terminal_stuck`): a poll that heard `IN_PROGRESS`, or a
  cancellation that heard `CANCEL_REQUESTED`, writes that status without a condition.
  If another poll has completed and booked the charge in between, the row says "in
  progress" for ever: `startCheckout` refuses the next card with "Finish or
  cancel it first", polling answers "settled" and cancelling "already went through".
- `NeverLost` (`online_lost`): if the bill is settled at the till while the guest
  pays on the phone, `payConfirm` finds it no longer open, answers `alreadyRecorded` and
  records nothing. The guest has paid twice and the books know of one payment.
- `YesIsForOne` (`swaps`): two claims on one open shift, approved at the same moment,
  are both approved: each approval read the shift before the other handed it over, and
  the transaction writes by id alone. The second also declines nobody, since the first
  claim is no longer pending.

### Seen while modelling

The same models show the following, or it was read in the code beside them. They have no run
of their own, because nothing the project claims depends on them, but
they are the reason why several properties above are stated for one request at a time.

*Gift cards and documents*

- `cancel()` of a gift card decides on a row it read and then writes unconditionally: a
  redemption or the expiry sweep in between is overwritten, so that a spent card ends
  `CANCELLED` in spite of "Gift card is fully redeemed and cannot be cancelled".
  `ValueConserved` still holds. Of two cancellations of one card, the second erases the
  refund flag that a late payment has left after the first.
- The handler that activated a card and the drain of scheduled deliveries can both
  send the voucher: `emailedAt` is written after the send.
- The sweep takes 200 stale cards, the drain 200 due ones, in no order: cards that stay pending, or whose
  mail is refused, for ever could fill them.
- A corporate payment after a cancellation, of an older session after a refresh, or of a second
  session, is taken by Stripe and recorded nowhere. A refresh may open a checkout on
  an order that was paid or cancelled meanwhile.
- The catch-up lists cards and issues afterwards: a person who issued and voided in between
  has the void undone. A refund between the activation and the automatic receipt is
  credited by the next refund event only.

*Bills, terminals, phones*

- `payOrder` settles on the balance it read. Lines that another till adds meanwhile are
  given away: the bill is `PAID` and not covered. A payment that read a parent bill
  before `splitEvenly` voided it makes it `PAID` again.
- `undoPayment` deletes the row and reopens the bill in two writes: a crash in between
  leaves it `PAID` with nothing paid. It refuses gift cards, but undoing a payment
  made with points keeps the points spent.
- Two refunds at once are each held against what was taken before the other.
- A bill that is refunded in parts keeps some of its card tip in the tip pool, since only a
  refund that takes everything at once gives tips back.
- `mergeOrders` leaves the gift card sales of the source behind: the target charges
  for cards that nobody issues, until its next edit drops the lines.
- `startCheckout` looks for a charge in flight before its own row exists: two requests
  put two charges on terminals. Each is booked once, or loudly not at all. A request that dies
  after Square has the charge and before its row is written leaves a charge nobody polls.
- A poll that could not settle the bill answers with an error; all later ones answer
  "settled", since the latch is shut.
- `startRefund` counts what terminals have given back, not the refunds of the register:
  the card is refunded a second time and the books then refuse it, loudly.
- `payConfirm` looks for a payment with the intent's id and records one if there is none: two
  loads of the page record it twice if the bill has grown enough to take it.
- A crash after the claim of a paid round loses it: `posOrderId` stays `PENDING` and the
  page answers that it is done. Two rounds at once may open two bills for a table.
- Opening a drawer looks for an open one and then creates: two tills open two.

*Stock*, two requests at once: the upsert of a figure's row has an empty `update` and
takes no lock, so transfers, counts and receipts lose each other's updates; two receipts
of one order both add to what they read. One at a time: a manager's `PATCH` edits the lines of a
locked count, against `stocktakes.service.ts:579-583`; the reversal takes a locked count back to
`IN_PROGRESS` without a reason; a count whose movements net to zero cannot be reversed; a
delivery that ended with a discrepancy can be completed again and is counted twice; a
transfer treats a venue that never counted as holding the group's figure ("the same way the
stocktake variance does", `transfers.service.ts:64-65`, which it no longer does: "its prior holding is
zero, not the group total", `stocktakes.service.ts:433-441`), and an adjustment or a receipt does so while the
venue has no row (`stock-operations.service.ts:232`, `purchase-orders.service.ts:183`), so that a venue gains stock that no
movement shows; sending a purchase order writes `SENT` after the mail, whatever
the order is by then.

*Menus and promotions*: a listing published as a reprint may replace a version that was
published during its render by older text; the source of a new draft is read before the
transaction; restoring over a draft deletes what was saved in it meanwhile; `setStatus` writes
unconditionally; a card that is archived meanwhile may still be listed.

*Reservations*

- The transaction that "closes that window so two simultaneous bookings can't overbook the same slot"
  (`reserve.service.ts:1658-1663`) repeats the sum and locks nothing, at the default isolation level: two
  guests repeat it and both insert. TLC finds two bookings above the capacity in seven states.
- Two clicks seat a waiting party twice. The cancel link cancels a party that was seated
  after its page was read. A no-show charge writes `NO_SHOW` whatever the status is by then.
- Once Stripe has declined a card it repeats that answer for the key, so "Release the claim so a
  retry from the manager works" does not hold for a day. A request that dies after the claim leaves
  "already in flight" for ever. A retry after the key is forgotten, of a charge whose
  answer was lost, charges again.

*Campaigns and rosters*

- A simulation, and a test that failed, set `simulatedAt`, so the test that is "Required at least once
  within the last 24h" is not.
- Simulating during or after a live send replaces its `SENT` rows; a simulation at the same
  moment makes the send fail on the unique key, after which `sentAt` forbids another. Guests who opt
  out during a send are mailed; two guests with one address are mailed twice.
- Automations hold a lease of one hour and release it unconditionally: a run that takes longer is
  overtaken, and frees the lease of the other.
- A manager who puts somebody else on an offered shift leaves the offer and its claims standing.
- Two first-time joins of the loyalty program with one phone number make two members.
- The last person of a tip run absorbs the rounding and is cut off at zero, so the parts need not
  sum to the pool as `tips-allocation.ts:219-222` says; two clicks pay out a run twice.

## 12. What is left out, and why

No component is modelled to the last operation; `PROJECT.json` says of each which operations are
left out. In short:

- *Gift cards*: donation vouchers, sponsorships, administration of promo codes (single rows, one
  person); art, messages, codes and session ids (unique); the amounts of a discount (a session is paid in
  full, or "odd": not the amount due; a corporate session of another amount makes the request fail, which is a
  `Crash`). Stripe is taken to be configured: without it the sweep closes every stale card
  unasked (`gift-card.service.ts:2048`). A hand-made credit note that repeats a `clientRequestId` gets
  the note that is there and writes nothing, so `Manual` has no step for it. Corporate accounts and quotes, reassigning a card, the pool's
  e-mails; corporate tax invoices, the issuer set-up, PDFs and exports.
- *Bills*: discounts, surcharges and GST (a total is the sum of its lines), adjusting,
  moving and firing single lines, training bills, manager approval, drawers and the end of
  the day; `undoPayment`'s read of the payment apart from that of the bill (it checks the payment, then only
  whether there is a bill), and a refund's cancellation of the cards of a bill one by one (each is tried whatever became
  of the others; a crash that leaves some is not modelled); how gift cards sold on a bill are spent meanwhile (GiftCard models that);
  splits into more than two parts. Pairing and removing terminals.
- *Stock*: merging items, templates, notices, photos, invoices; the interleaving of two
  papers, which the code does not survive (section 11).
- *Menus*: renaming, previews and public pages, which read; the numbers of publications.
- *Reservations*: availability rules and blackouts, tables, prepaid drinks, guest profiles.
  *Staff*: timesheets, leave, bulk edits, tips. *Marketing*: automations, segments, social posts.
- *Not modelled at all*: integrations, imports and payroll, most of whose behaviour is that of
  services outside the repository; forecasts and reports, floating-point statistics over read-only
  data; checklists, incidents, tasks and training, single rows of one user; the print queue, which
  prints at least once by design; accounts and permissions, taken as passed.
- The web and native clients appear as the requests they may send, repeats included. With the
  integrations and reports they are most of the repository's lines, which is why the map, which names
  only lines that a definition translates, covers a small share of them.
