-------------------------------- MODULE PosBill --------------------------------
(***************************************************************************)
(* A bill at the register: lines and gift card sales are rung up, payments *)
(* taken until they cover the total, bills split and merged, payments      *)
(* undone and refunded, gift cards issued once the bill is settled.        *)
(*                                                                         *)
(* The code is services/pos.service.ts.  Every request is a process (a     *)
(* till) whose steps are the awaited database calls of the handler, so     *)
(* other tills may run between the bill a handler read and the rows it     *)
(* writes.  Money is counted in small units; surcharges, discounts and GST *)
(* are left out, so a bill totals its lines.                               *)
(***************************************************************************)
EXTENDS Integers, FiniteSets, FiniteSetsExt, Functions

CONSTANTS
    Bills,           \* PosOrder rows
    Sales,           \* PosGiftCardSale rows, for a gift card of one unit each
    Tills,           \* requests in flight
    Refs,            \* what an outside payment is known by
    NoBill, NoRef,
    TillTenders,     \* how a till may be paid
    Wallet,          \* what the guests' gift cards and points are worth at first
    MaxGoods,        \* bound: the most that lines of one edit add up to
    MaxTip,          \* bound: the largest tip
    MaxPayments      \* bound: payment rows ever written

Wallets == {"GIFT_CARD", "LOYALTY"}

Methods == {"CASH", "CARD_EXTERNAL", "SQUARE_TERMINAL", "ONLINE", "REFUND"} \cup Wallets

ASSUME PosBillAssumption ==
    /\ Wallet \in [Wallets -> Nat]
    /\ MaxGoods \in Nat /\ MaxTip \in Nat /\ MaxPayments \in Nat
    /\ TillTenders \subseteq {"CASH", "CARD_EXTERNAL"} \cup Wallets
    /\ NoBill \notin Bills /\ NoRef \notin Refs
    /\ IsFiniteSet(Tills) /\ IsFiniteSet(Sales) /\ IsFiniteSet(Refs)

VARIABLES
    bill,      \* the PosOrder table
    pays,      \* the PosPayment rows
    written,   \* how many payment rows were ever written
    sale,      \* the PosGiftCardSale table
    cards,     \* live gift cards that were activated for a sale
    wallet,    \* what is left in gift cards and points
    proc       \* the handlers

billVars == <<bill, pays, written, sale, cards, wallet>>
vars == <<bill, pays, written, sale, cards, wallet, proc>>

-----------------------------------------------------------------------------
(* Types *)

\* goods and gifts are the sums of a bill's ordinary and gift card lines;
\* total is the column, tip the tipCents column.
BillRecord ==
    [status : {"NONE", "OPEN", "PAID", "VOID"}, goods : Nat, gifts : Nat, total : Nat, tip : Nat]

PaymentRecord ==
    [id : Nat, bill : Bills, method : Methods, amt : Int, tip : Int, ref : Refs \cup {NoRef}]

SaleRecord == [on : Bills \cup {NoBill}, issued : BOOLEAN, revoked : BOOLEAN]

\* Where a handler may stand: at the register, on the terminal (PosTerminal), on
\* the guest's phone (PosOnline), or taking no part.
Stops ==
    {"idle", "setLines", "addSale", "removeSale", "syncRead", "syncClear", "syncCreate", "recRead",
     "recWrite", "merge", "splitNext", "payReread", "debit", "record", "status", "issueList",
     "issueNext", "issueMark", "undoDelete", "undoStatus", "void", "reopen", "refund", "refundCards"}
    \cup {"inFlight", "toSquare", "row", "ask", "writeStatus", "claim", "book", "booked", "notBooked",
          "cancel"}
    \cup {"session", "existing", "confirm", "pay", "paid"}
    \cup {"away"}

\* b is the bill a handler works on, other a second one; want, tip, method and
\* ref are what it was asked to pay, amt what it decided on; settle, tips and
\* sum are what it read; todo and kids the sales and bills it is working off;
\* then and catch are where it goes when it returns and when it throws.
ProcRecord ==
    [at : Stops, b : Bills \cup {NoBill}, other : Bills \cup {NoBill}, want : Nat, tip : Nat,
     method : Methods, ref : Refs \cup {NoRef}, amt : Int, settle : BOOLEAN, tips : Int,
     sum : Nat, pay : Nat, todo : SUBSET Sales, doing : SUBSET Sales, kids : SUBSET Bills,
     back : {"idle", "payReread", "splitNext"}, then : {"idle", "booked", "paid"},
     catch : {"idle", "notBooked"}]

TypeOK ==
    /\ bill \in [Bills -> BillRecord]
    /\ pays \subseteq PaymentRecord
    /\ written \in 0..MaxPayments
    /\ sale \in [Sales -> SaleRecord]
    /\ cards \in [Sales -> 0..2]
    /\ wallet \in [Wallets -> Nat]
    /\ proc \in [Tills -> ProcRecord]

-----------------------------------------------------------------------------
(* Initial states *)

NoBillYet == [status |-> "NONE", goods |-> 0, gifts |-> 0, total |-> 0, tip |-> 0]

NoSaleYet == [on |-> NoBill, issued |-> FALSE, revoked |-> FALSE]

IdleProc ==
    [at |-> "idle", b |-> NoBill, other |-> NoBill, want |-> 0, tip |-> 0, method |-> "CASH",
     ref |-> NoRef, amt |-> 0, settle |-> FALSE, tips |-> 0, sum |-> 0, pay |-> 0, todo |-> {},
     doing |-> {}, kids |-> {}, back |-> "idle", then |-> "idle", catch |-> "idle"]

Init ==
    /\ bill = [b \in Bills |-> NoBillYet]
    /\ pays = {}
    /\ written = 0
    /\ sale = [s \in Sales |-> NoSaleYet]
    /\ cards = [s \in Sales |-> 0]
    /\ wallet = Wallet
    /\ proc = [p \in Tills |-> IdleProc]

-----------------------------------------------------------------------------
(* Processes and sums *)

At(p, where) == proc[p].at = where
Idle(p) == At(p, "idle")
B(p) == proc[p].b

Begin(p, where, b) == proc' = [proc EXCEPT ![p] = [IdleProc EXCEPT !.at = where, !.b = b]]
Goto(p, where) == proc' = [proc EXCEPT ![p].at = where]

GoOrIdle(p, where) ==
    proc' = [proc EXCEPT ![p] = IF where = "idle" THEN IdleProc ELSE [@ EXCEPT !.at = where]]

Return(p) == GoOrIdle(p, proc[p].then)
Throw(p) == GoOrIdle(p, proc[p].catch)

Of(b) == {r \in pays : r.bill = b}
Paid(rows) == SumFunctionOnSet([r \in rows |-> r.amt], rows)
Tips(rows) == SumFunctionOnSet([r \in rows |-> r.tip], rows)
Taken(b) == Paid(Of(b)) + Tips(Of(b))
SalesOn(b) == {s \in Sales : sale[s].on = b}
HasLines(b) == bill[b].goods + bill[b].gifts > 0

\* A new row, while the bound allows one.
AddPayment(b, method, amt, tip, ref) ==
    /\ written < MaxPayments
    /\ written' = written + 1
    /\ pays' = pays \cup {[id |-> written + 1, bill |-> b, method |-> method, amt |-> amt,
                           tip |-> tip, ref |-> ref]}

-----------------------------------------------------------------------------
(* createOrder *)

CreateOrder(p, b) ==
    /\ Idle(p)
    /\ bill[b].status = "NONE"
    /\ bill' = [bill EXCEPT ![b].status = "OPEN"]
    /\ UNCHANGED <<pays, written, sale, cards, wallet, proc>>

-----------------------------------------------------------------------------
(* Ringing up: setLines, gift card sales, and what follows each of them *)

SetLinesRead(p, b, goods) ==
    /\ Idle(p)
    /\ bill[b].status = "OPEN"
    /\ proc' = [proc EXCEPT ![p] = [IdleProc EXCEPT !.at = "setLines", !.b = b, !.want = goods]]
    /\ UNCHANGED billVars

\* One transaction replaces every line, the gift card lines too.
SetLines(p) ==
    /\ At(p, "setLines")
    /\ bill' = [bill EXCEPT ![B(p)].goods = proc[p].want, ![B(p)].gifts = 0]
    /\ Goto(p, "syncRead")
    /\ UNCHANGED <<pays, written, sale, cards, wallet>>

AddGiftCardSaleRead(p, b) ==
    /\ Idle(p)
    /\ bill[b].status = "OPEN"
    /\ Begin(p, "addSale", b)
    /\ UNCHANGED billVars

\* A new row: no sale, and none that a handler still remembers.
Unsold(s) ==
    /\ sale[s].on = NoBill /\ cards[s] = 0
    /\ \A p \in Tills : s \notin proc[p].todo \cup proc[p].doing

\* A sale that shows on the bill when the next edit gets to it.
AddGiftCardSaleOnly(p, s) ==
    /\ At(p, "addSale")
    /\ Unsold(s)
    /\ sale' = [sale EXCEPT ![s].on = B(p)]
    /\ Return(p)
    /\ UNCHANGED <<bill, pays, written, cards, wallet>>

AddGiftCardSale(p, s) ==
    /\ At(p, "addSale")
    /\ Unsold(s)
    /\ sale' = [sale EXCEPT ![s].on = B(p)]
    /\ Goto(p, "syncRead")
    /\ UNCHANGED <<bill, pays, written, cards, wallet>>

RemoveGiftCardSaleRead(p, s) ==
    /\ Idle(p)
    /\ sale[s].on # NoBill /\ ~sale[s].issued
    /\ proc' = [proc EXCEPT ![p] =
          [IdleProc EXCEPT !.at = "removeSale", !.b = sale[s].on, !.todo = {s}]]
    /\ UNCHANGED billVars

\* Deleting a row that is gone throws.
RemoveGiftCardSale(p) ==
    /\ At(p, "removeSale")
    /\ \E s \in proc[p].todo :
          IF sale[s].on = NoBill
          THEN Throw(p) /\ UNCHANGED sale
          ELSE /\ sale' = [sale EXCEPT ![s] = NoSaleYet]
               /\ proc' = [proc EXCEPT ![p].at = "syncRead", ![p].todo = {}]
    /\ UNCHANGED <<bill, pays, written, cards, wallet>>

\* syncGiftCardLines: the gift card lines are rebuilt from the sales.
SyncRead(p) ==
    /\ At(p, "syncRead")
    /\ proc' = [proc EXCEPT ![p].at = "syncClear", ![p].todo = SalesOn(B(p))]
    /\ UNCHANGED billVars

SyncClear(p) ==
    /\ At(p, "syncClear")
    /\ bill' = [bill EXCEPT ![B(p)].gifts = 0]
    /\ Goto(p, IF proc[p].todo = {} THEN "recRead" ELSE "syncCreate")
    /\ UNCHANGED <<pays, written, sale, cards, wallet>>

SyncCreate(p) ==
    /\ At(p, "syncCreate")
    /\ bill' = [bill EXCEPT ![B(p)].gifts = @ + Cardinality(proc[p].todo)]
    /\ proc' = [proc EXCEPT ![p].at = "recRead", ![p].todo = {}]
    /\ UNCHANGED <<pays, written, sale, cards, wallet>>

\* recomputeOrder: the total follows the lines, whatever the bill's status.
RecomputeRead(p) ==
    /\ At(p, "recRead")
    /\ proc' = [proc EXCEPT ![p].at = "recWrite", ![p].sum = bill[B(p)].goods + bill[B(p)].gifts]
    /\ UNCHANGED billVars

RecomputeWrite(p) ==
    /\ At(p, "recWrite")
    /\ bill' = [bill EXCEPT ![B(p)].total = proc[p].sum]
    /\ GoOrIdle(p, proc[p].back)
    /\ UNCHANGED <<pays, written, sale, cards, wallet>>

-----------------------------------------------------------------------------
(* payOrder *)

Refused(q) == IF q.catch = "idle" THEN IdleProc ELSE [q EXCEPT !.at = q.catch]

\* A tip that counts towards the balance.
DecideWithTip(q) ==
    LET balance == bill[q.b].total - Paid(Of(q.b))
        amount == IF q.want = 0 THEN balance ELSE q.want
    IN  IF amount < 0 \/ amount > balance
        THEN Refused(q)
        ELSE [q EXCEPT !.amt = amount, !.settle = (amount + q.tip >= balance), !.tips = bill[q.b].tip,
                       !.at = IF q.method \in Wallets THEN "debit" ELSE "record"]

\* A payment that settles the bill is one of the balance as it is now; want = 0
\* asks for that balance.
Decide(q) ==
    LET balance == bill[q.b].total - Paid(Of(q.b))
        amount == IF q.want = 0 THEN balance ELSE q.want
    IN  IF amount < 0 \/ amount > balance
        THEN Refused(q)
        ELSE [q EXCEPT !.amt = amount, !.settle = (amount >= balance), !.tips = bill[q.b].tip,
                       !.at = IF q.method \in Wallets THEN "debit" ELSE "record"]

\* The bill is recomputed and read again before its first payment.
TakePayment(q) ==
    IF bill[q.b].status # "OPEN" \/ ~HasLines(q.b)
    THEN Refused(q)
    ELSE IF Of(q.b) = {} THEN [q EXCEPT !.at = "recRead", !.back = "payReread"] ELSE Decide(q)

PayOrder(p, b, method, want, tip) ==
    /\ Idle(p)
    /\ bill[b].status = "OPEN" /\ HasLines(b)
    /\ proc' = [proc EXCEPT ![p] = TakePayment(
          [IdleProc EXCEPT !.b = b, !.method = method, !.want = want, !.tip = tip])]
    /\ UNCHANGED billVars

PayReread(p) ==
    /\ At(p, "payReread")
    /\ proc' = [proc EXCEPT ![p] = Decide([@ EXCEPT !.back = "idle"])]
    /\ UNCHANGED billVars

\* A redemption that is refused and recorded nevertheless.
DebitUnheeded(p) ==
    LET m == proc[p].method
        due == proc[p].amt + proc[p].tip
    IN  /\ At(p, "debit")
        /\ wallet' = [wallet EXCEPT ![m] = IF due > 0 /\ due <= @ THEN @ - due ELSE @]
        /\ Goto(p, "record")
        /\ UNCHANGED <<bill, pays, written, sale, cards>>

\* giftCardService.redeem and loyaltyService.redeemForOrder: the conditional
\* decrement either takes the whole amount or throws.
Debit(p) ==
    LET m == proc[p].method
        due == proc[p].amt + proc[p].tip
    IN  /\ At(p, "debit")
        /\ IF due > 0 /\ due <= wallet[m]
           THEN wallet' = [wallet EXCEPT ![m] = @ - due] /\ Goto(p, "record")
           ELSE Throw(p) /\ UNCHANGED wallet
        /\ UNCHANGED <<bill, pays, written, sale, cards>>

Record(p) ==
    /\ At(p, "record")
    /\ AddPayment(B(p), proc[p].method, proc[p].amt, proc[p].tip, proc[p].ref)
    /\ Goto(p, "status")
    /\ UNCHANGED <<bill, sale, cards, wallet>>

\* A payment that settles the bill whatever it covers.
SetStatusAlways(p) ==
    /\ At(p, "status")
    /\ bill' = [bill EXCEPT ![B(p)].tip = proc[p].tips + proc[p].tip, ![B(p)].status = "PAID"]
    /\ Goto(p, "issueList")
    /\ UNCHANGED <<pays, written, sale, cards, wallet>>

\* The status and the tip come from the bill as it was read.
SetStatus(p) ==
    /\ At(p, "status")
    /\ bill' = [bill EXCEPT ![B(p)].tip = proc[p].tips + proc[p].tip,
                            ![B(p)].status = IF proc[p].settle THEN "PAID" ELSE @]
    /\ IF proc[p].settle THEN Goto(p, "issueList") ELSE Return(p)
    /\ UNCHANGED <<pays, written, sale, cards, wallet>>

\* issuePendingGiftCards
IssueList(p) ==
    LET pending == {s \in SalesOn(B(p)) : ~sale[s].issued}
    IN  /\ At(p, "issueList")
        /\ IF pending = {}
           THEN Return(p)
           ELSE proc' = [proc EXCEPT ![p].at = "issueNext", ![p].todo = pending]
        /\ UNCHANGED billVars

\* On to the next sale, or done.
NextSale(p, rest) ==
    IF rest = {}
    THEN Return(p)
    ELSE proc' = [proc EXCEPT ![p].at = "issueNext", ![p].todo = rest, ![p].doing = {}]

\* activatePhysicalCard; a card that cannot be activated is logged and passed over.
IssueNext(p, s) ==
    /\ At(p, "issueNext")
    /\ s \in proc[p].todo
    /\ \/ /\ cards' = [cards EXCEPT ![s] = IF @ = 2 THEN 2 ELSE @ + 1]
          /\ proc' = [proc EXCEPT ![p].at = "issueMark", ![p].todo = @ \ {s}, ![p].doing = {s}]
       \/ /\ NextSale(p, proc[p].todo \ {s})
          /\ UNCHANGED cards
    /\ UNCHANGED <<bill, pays, written, sale, wallet>>

\* The sale is marked after its card exists; its row may be gone by now.
IssueMark(p) ==
    /\ At(p, "issueMark")
    /\ sale' = [s \in Sales |->
          IF s \in proc[p].doing /\ sale[s].on # NoBill
          THEN [sale[s] EXCEPT !.issued = TRUE] ELSE sale[s]]
    /\ NextSale(p, proc[p].todo)
    /\ UNCHANGED <<bill, pays, written, cards, wallet>>

-----------------------------------------------------------------------------
(* undoPayment, voidOrder, reopenOrder *)

\* Gift card payments that can be undone like cash.
NotUndoneButGifts == {"SQUARE_TERMINAL"}

\* Tenders that undo refuses: they are reversed elsewhere.
NotUndone == {"GIFT_CARD", "SQUARE_TERMINAL"}

AtLeastZero(n) == IF n < 0 THEN 0 ELSE n

UndoRead(p, r) ==
    /\ Idle(p)
    /\ r.method \notin NotUndone
    /\ proc' = [proc EXCEPT ![p] =
          [IdleProc EXCEPT !.at = "undoDelete", !.b = r.bill, !.pay = r.id,
                           !.tips = AtLeastZero(bill[r.bill].tip - r.tip)]]
    /\ UNCHANGED billVars

\* Deleting a row that is gone throws.
UndoDelete(p) ==
    LET row == {r \in pays : r.id = proc[p].pay}
    IN  /\ At(p, "undoDelete")
        /\ IF row = {} THEN Throw(p) ELSE Goto(p, "undoStatus")
        /\ pays' = pays \ row
        /\ UNCHANGED <<bill, written, sale, cards, wallet>>

\* Whatever the bill was, it is open now.
UndoStatus(p) ==
    /\ At(p, "undoStatus")
    /\ bill' = [bill EXCEPT ![B(p)].status = "OPEN", ![B(p)].tip = proc[p].tips]
    /\ Return(p)
    /\ UNCHANGED <<pays, written, sale, cards, wallet>>

VoidRead(p, b) ==
    /\ Idle(p)
    /\ bill[b].status = "OPEN"
    /\ Begin(p, "void", b)
    /\ UNCHANGED billVars

VoidOrder(p) ==
    /\ At(p, "void")
    /\ bill' = [bill EXCEPT ![B(p)].status = "VOID"]
    /\ Return(p)
    /\ UNCHANGED <<pays, written, sale, cards, wallet>>

ReopenRead(p, b) ==
    /\ Idle(p)
    /\ bill[b].status = "PAID"
    /\ Begin(p, "reopen", b)
    /\ UNCHANGED billVars

ReopenOrder(p) ==
    /\ At(p, "reopen")
    /\ bill' = [bill EXCEPT ![B(p)].status = "OPEN"]
    /\ Return(p)
    /\ UNCHANGED <<pays, written, sale, cards, wallet>>

-----------------------------------------------------------------------------
(* applyRefund *)

CardTips(b) == Tips({r \in Of(b) : r.method # "CASH" /\ r.tip > 0})

\* A refund that is not held against what was paid.
TakeRefundUnchecked(q) ==
    [q EXCEPT !.at = "refund", !.amt = IF q.want = 0 THEN bill[q.b].total ELSE q.want,
              !.settle = TRUE, !.tips = 0]

\* A full refund gives the card tips back.  amt is what is refunded, settle
\* whether that is all that was taken, tips the part of it that is tip.
TakeRefund(q) ==
    LET r == bill[q.b]
        over == Taken(q.b) - (r.total + r.tip)
        refundable == IF r.status = "PAID" THEN Taken(q.b) ELSE over
        amount == IF q.want = 0 THEN refundable ELSE q.want
        full == amount >= Taken(q.b)
        allowed == r.status = "PAID" \/ (r.status = "OPEN" /\ over > 0)
    IN  IF ~allowed \/ amount > refundable
        THEN Refused(q)
        ELSE [q EXCEPT !.at = "refund", !.amt = amount, !.settle = full,
                       !.tips = IF full THEN Min({CardTips(q.b), amount}) ELSE 0]

RefundOrder(p, b, method, want) ==
    /\ Idle(p)
    /\ bill[b].status \in {"OPEN", "PAID"}
    /\ proc' = [proc EXCEPT ![p] =
          TakeRefund([IdleProc EXCEPT !.b = b, !.method = method, !.want = want])]
    /\ UNCHANGED billVars

Refund(p) ==
    /\ At(p, "refund")
    /\ AddPayment(B(p), proc[p].method, proc[p].tips - proc[p].amt, -proc[p].tips, proc[p].ref)
    /\ IF proc[p].settle THEN Goto(p, "refundCards") ELSE Return(p)
    /\ UNCHANGED <<bill, sale, cards, wallet>>

\* giftCardService.cancel for the issued card of every sale on the bill; one
\* that is cancelled already stays so.
RefundCards(p) ==
    LET revoked == {s \in SalesOn(B(p)) : sale[s].issued /\ ~sale[s].revoked}
    IN  /\ At(p, "refundCards")
        /\ cards' = [s \in Sales |-> IF s \in revoked THEN cards[s] - 1 ELSE cards[s]]
        /\ sale' = [s \in Sales |->
              IF s \in revoked THEN [sale[s] EXCEPT !.revoked = TRUE] ELSE sale[s]]
        /\ Return(p)
        /\ UNCHANGED <<bill, pays, written, wallet>>

-----------------------------------------------------------------------------
(* mergeOrders and splitEvenly *)

MergeRead(p, target, source) ==
    /\ Idle(p)
    /\ target # source
    /\ bill[target].status = "OPEN" /\ bill[source].status = "OPEN"
    /\ proc' = [proc EXCEPT ![p] =
          [IdleProc EXCEPT !.at = "merge", !.b = target, !.other = source]]
    /\ UNCHANGED billVars

\* Lines and payments move, gift card sales and the tip do not.
MergeOrders(p) ==
    LET t == B(p)
        s == proc[p].other
    IN  /\ At(p, "merge")
        /\ bill' = [bill EXCEPT
              ![t].goods = @ + bill[s].goods, ![t].gifts = @ + bill[s].gifts,
              ![s].goods = 0, ![s].gifts = 0, ![s].status = "VOID"]
        /\ pays' = {IF r.bill = s THEN [r EXCEPT !.bill = t] ELSE r : r \in pays}
        /\ Goto(p, "recRead")
        /\ UNCHANGED <<written, sale, cards, wallet>>

Ways == 2

\* A one-unit line has no share for everybody: the smallest bill that is split
\* holds a unit for each.
SplitRead(p, b) ==
    LET unused == {c \in Bills : bill[c].status = "NONE"}
    IN  /\ Idle(p)
        /\ bill[b].status = "OPEN"
        /\ bill[b].goods + bill[b].gifts >= Ways
        /\ Of(b) = {} /\ SalesOn(b) = {}
        /\ Cardinality(unused) >= Ways
        /\ proc' = [proc EXCEPT ![p] =
              [IdleProc EXCEPT !.at = "splitNext", !.other = b,
                               !.want = bill[b].goods + bill[b].gifts]]
        /\ UNCHANGED billVars

\* Shares rounded down, the remainder dropped.
ShareRoundedDown(n, part) == n \div Ways

\* The remainder of the division falls on the first bills.
Share(n, part) == n \div Ways + (IF part < n % Ways THEN 1 ELSE 0)

SplitChild(p, c) ==
    /\ At(p, "splitNext")
    /\ Cardinality(proc[p].kids) < Ways
    /\ bill[c].status = "NONE"
    /\ bill' = [bill EXCEPT ![c] =
          [@ EXCEPT !.status = "OPEN", !.goods = Share(proc[p].want, Cardinality(proc[p].kids))]]
    /\ proc' = [proc EXCEPT ![p].at = "recRead", ![p].b = c, ![p].back = "splitNext",
                            ![p].kids = @ \cup {c}]
    /\ UNCHANGED <<pays, written, sale, cards, wallet>>

\* The parent stops existing as a payable bill.
SplitVoid(p) ==
    /\ At(p, "splitNext")
    /\ Cardinality(proc[p].kids) = Ways
    /\ bill' = [bill EXCEPT ![proc[p].other] =
          [@ EXCEPT !.status = "VOID", !.goods = 0, !.gifts = 0, !.total = 0]]
    /\ Return(p)
    /\ UNCHANGED <<pays, written, sale, cards, wallet>>

-----------------------------------------------------------------------------
(* The specification *)

\* The server restarts, the request times out or a call it awaits throws.
Crash(p) ==
    /\ ~Idle(p)
    /\ proc' = [proc EXCEPT ![p] = IdleProc]
    /\ UNCHANGED billVars

RingUp(p) ==
    \/ \E b \in Bills :
          \/ CreateOrder(p, b)
          \/ \E goods \in 0..MaxGoods : SetLinesRead(p, b, goods)
          \/ AddGiftCardSaleRead(p, b)
          \/ SplitRead(p, b)
          \/ \E source \in Bills : MergeRead(p, b, source)
    \/ \E s \in Sales : RemoveGiftCardSaleRead(p, s)

SettleUp(p) ==
    \/ \E b \in Bills :
          \/ \E method \in TillTenders, want \in 0..MaxGoods, tip \in 0..MaxTip :
                 PayOrder(p, b, method, want, tip)
          \/ \E method \in {"CASH", "REFUND"}, want \in 0..MaxGoods : RefundOrder(p, b, method, want)
          \/ VoidRead(p, b)
          \/ ReopenRead(p, b)
    \/ \E r \in pays : UndoRead(p, r)

LineStep(p) ==
    \/ SetLines(p)
    \/ \E s \in Sales : AddGiftCardSale(p, s)
    \/ RemoveGiftCardSale(p)
    \/ SyncRead(p)
    \/ SyncClear(p)
    \/ SyncCreate(p)
    \/ RecomputeRead(p)
    \/ RecomputeWrite(p)
    \/ MergeOrders(p)
    \/ \E c \in Bills : SplitChild(p, c)
    \/ SplitVoid(p)

PayStep(p) ==
    \/ PayReread(p)
    \/ Debit(p)
    \/ Record(p)
    \/ SetStatus(p)
    \/ IssueList(p)
    \/ \E s \in Sales : IssueNext(p, s)
    \/ IssueMark(p)

ReverseStep(p) ==
    \/ UndoDelete(p)
    \/ UndoStatus(p)
    \/ VoidOrder(p)
    \/ ReopenOrder(p)
    \/ Refund(p)
    \/ RefundCards(p)

StepOf(p) == RingUp(p) \/ SettleUp(p) \/ LineStep(p) \/ PayStep(p) \/ ReverseStep(p)

Step == \E p \in Tills : StepOf(p)

\* Nothing fails half way.
Spec == Init /\ [][Step]_vars

CrashingSpec == Init /\ [][Step \/ \E p \in Tills : Crash(p)]_vars

-----------------------------------------------------------------------------
(* Properties *)

AllIdle == \A p \in Tills : Idle(p)

Collected(b) == Paid({r \in Of(b) : r.amt > 0})

PaidInFull == \A b \in Bills : bill[b].status = "PAID" => Collected(b) >= bill[b].total

\* payOrder: "The order closes when the payments (excluding tips) cover the
\* total": a bill that counts as paid was paid in full, whatever was edited,
\* undone, refunded and reopened on the way (between requests).
Covered == AllIdle => PaidInFull

\* applyRefund: "Only ... was paid on this bill": a refund never leaves a bill
\* with more given back than was taken.
RefundsWithin ==
    \A b \in Bills : written' # written /\ Taken(b)' < Taken(b) => Taken(b)' >= 0

\* payOrder: "an unpaid or voided bill must never put a live card in someone's
\* hand": when a card is activated it is the only one of its sale, whatever was
\* settled and reopened before, its bill is settled and covered, and what was
\* charged includes the goods and every card sold on it.
CardsArePaidFor ==
    [][\A s \in Sales : cards'[s] > cards[s] =>
          /\ cards[s] = 0
          /\ \E b \in Bills :
                /\ sale[s].on = b
                /\ bill[b].status = "PAID"
                /\ Collected(b) >= bill[b].total
                /\ bill[b].total >= bill[b].goods + Cardinality(SalesOn(b))]_vars

\* splitEvenly: "the parts stop adding back up to the whole, which is the one
\* thing a split must never do".
SplitAddsUp ==
    \A p \in Tills :
        At(p, "splitNext") /\ Cardinality(proc[p].kids) = Ways =>
            SumFunctionOnSet([c \in Bills |-> bill[c].total], proc[p].kids)
                = bill[proc[p].other].goods + bill[proc[p].other].gifts

\* What handlers have taken from a wallet and not yet written as a payment.
InHand(m) ==
    SumFunctionOnSet([p \in Tills |-> proc[p].amt + proc[p].tip],
                     {p \in Tills : At(p, "record") /\ proc[p].method = m})

OnBooks(m) ==
    LET rows == {r \in pays : r.method = m} IN Paid(rows) + Tips(rows)

\* Gift card money is on a bill or in the hand of the handler that took it: no
\* gift card payment without a redemption, none redeemed twice or lost, with
\* any number of tills on the same bills.
GiftDebitsRecorded == Wallet["GIFT_CARD"] - wallet["GIFT_CARD"] = OnBooks("GIFT_CARD") + InHand("GIFT_CARD")

\* "A failed redemption must leave the order untouched": however handlers die,
\* no bill is paid with gift card money that was not taken.
GiftNotFree == OnBooks("GIFT_CARD") <= Wallet["GIFT_CARD"] - wallet["GIFT_CARD"]
=============================================================================
