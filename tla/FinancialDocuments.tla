-------------------------- MODULE FinancialDocuments --------------------------
(***************************************************************************)
(* Receipts of gift card sales and the credit notes against them           *)
(* (financial-document.service.ts, lib/gift-card-documents.ts).            *)
(*                                                                         *)
(* A document is made in a transaction that takes the next number of its   *)
(* series, holds that row's lock until it ends and gives the number back   *)
(* when it fails.  A credit note holds the lock of the sale document as    *)
(* well.  What a request found out before its transaction (that a card has *)
(* no receipt, which of Stripe's refunds have no note) may be stale in it. *)
(***************************************************************************)
EXTENDS Integers, Sequences, FiniteSets, FiniteSetsExt

CONSTANTS
    Requests,     \* requests and jobs under way at once
    Cards,        \* gift cards
    Refunds,      \* Stripe refunds
    Price,        \* what a card was paid
    MaxDocuments, \* documents in a behaviour
    Nobody,       \* no holder of a lock
    NoRefund, NoCard

DocumentsAssumption ==
    /\ Price \in Nat \ {0} /\ MaxDocuments \in Nat
    /\ Nobody \notin Requests /\ NoRefund \notin Refunds /\ NoCard \notin Cards

ASSUME DocumentsAssumption

VARIABLES
    paid,         \* cards that a Stripe Checkout has paid
    refund,       \* Stripe's refunds: of which card, how much (0: not made)
    doc,          \* the FinancialDocument rows in the order of their commits
    last,         \* FinancialDocumentSequence.lastNumber by series
    holder,       \* who holds the row of a series
    proc          \* the requests

vars == <<paid, refund, doc, last, holder, proc>>

-----------------------------------------------------------------------------
(* Types *)

Series == {"sale", "credit"}
Sources == {"MANUAL", "AUTO_STRIPE", "CATCH_UP", "STRIPE_REFUND"}

\* of is the sale document a note credits (its index), 0 for a sale; mails counts
\* the times it was e-mailed by itself.
DocumentRecord ==
    [series : Series, number : Nat, card : Cards, live : BOOLEAN, amount : Nat,
     of : Nat, refund : Refunds \cup {NoRefund}, mails : Nat]

\* series is that of the transaction under way; sale, amount and refund are of the
\* note it makes; plan holds the refunds still to be credited, todo the cards a
\* catch-up still has to look at.
Request ==
    [at : {"idle", "check", "number", "insert", "reconcile", "credit", "email"},
     source : Sources, series : Series, card : Cards \cup {NoCard}, sale : Nat, amount : Nat,
     refund : Refunds \cup {NoRefund}, plan : SUBSET Refunds, todo : SUBSET Cards]

Idle ==
    [at |-> "idle", source |-> "MANUAL", series |-> "sale", card |-> NoCard, sale |-> 0, amount |-> 0,
     refund |-> NoRefund, plan |-> {}, todo |-> {}]

DocumentsTypeOK ==
    /\ paid \subseteq Cards
    /\ refund \in [Refunds -> [card : Cards, amount : 0..Price]]
    /\ doc \in Seq(DocumentRecord)
    /\ last \in [Series -> Nat]
    /\ holder \in [Series -> Requests \cup {Nobody}]
    /\ proc \in [Requests -> Request]

Init ==
    /\ paid = {}
    /\ refund \in [Refunds -> [card : Cards, amount : {0}]]
    /\ doc = <<>>
    /\ last = [s \in Series |-> 0]
    /\ holder = [s \in Series |-> Nobody]
    /\ proc = [r \in Requests |-> Idle]

-----------------------------------------------------------------------------
(* What the tables say *)

Documents == 1..Len(doc)
LiveSales(c) == {i \in Documents : doc[i].series = "sale" /\ doc[i].card = c /\ doc[i].live}
NeverIssued(c) == \A i \in Documents : doc[i].series = "credit" \/ doc[i].card # c
LiveNotes(i) == {j \in Documents : doc[j].of = i /\ doc[j].live}
NotesFor(f) == {j \in Documents : doc[j].refund = f /\ doc[j].live}
Credited(i) == SumFunctionOnSet([j \in Documents |-> doc[j].amount], LiveNotes(i))

\* A credit note's transaction that is under way keeps others from its sale document.
InNote(r) == proc[r].series = "credit" /\ proc[r].at \in {"number", "insert"}

\* Credits and voids that do not wait for one another.
UnlockedAnyway(i) == i \in Documents

Unlocked(i) == i \in Documents /\ \A r \in Requests : InNote(r) => proc[r].sale # i

-----------------------------------------------------------------------------
(* The transaction *)

\* The next card of a catch-up, or the end of the request.
Over(r) ==
    LET todo == proc[r].todo
        c == CHOOSE c \in todo : TRUE
    IN  proc' = [proc EXCEPT ![r] =
            IF todo = {} THEN Idle
            ELSE [Idle EXCEPT !.at = "check", !.source = "CATCH_UP", !.card = c, !.todo = todo \ {c}]]

Goto(r, stage) == proc' = [proc EXCEPT ![r].at = stage]

\* createNumberedDocument: the number, and with it the row of the series.
TakeNumber(r) ==
    LET s == proc[r].series
    IN  /\ proc[r].at = "number"
        /\ holder[s] = Nobody
        /\ Len(doc) < MaxDocuments
        /\ last' = [last EXCEPT ![s] = @ + 1]
        /\ holder' = [holder EXCEPT ![s] = r]
        /\ Goto(r, "insert")
        /\ UNCHANGED <<paid, refund, doc>>

Commit(r, record) ==
    /\ doc' = Append(doc, record)
    /\ holder' = [holder EXCEPT ![proc[r].series] = Nobody]
    /\ UNCHANGED last

\* The document is given up and its number with it lost.
AbandonNumber(r) ==
    /\ holder' = [s \in Series |-> IF holder[s] = r THEN Nobody ELSE holder[s]]
    /\ UNCHANGED <<doc, last>>

RollBack(r) ==
    /\ holder' = [s \in Series |-> IF holder[s] = r THEN Nobody ELSE holder[s]]
    /\ last' = [s \in Series |-> IF holder[s] = r THEN last[s] - 1 ELSE last[s]]
    /\ UNCHANGED doc

\* An await that throws, a timeout, a restart.
Crash(r) ==
    /\ proc[r].at # "idle"
    /\ RollBack(r)
    /\ proc' = [proc EXCEPT ![r] = Idle]
    /\ UNCHANGED <<paid, refund>>

-----------------------------------------------------------------------------
(* Receipts *)

\* The unique saleKey is not looked at.
SaleKeyIgnored(c) == c \in Cards

SaleKeyFree(c) == LiveSales(c) = {}

\* issueForGiftCard, by hand.
Issue(r, c) ==
    /\ c \in paid /\ proc[r].at = "idle"
    /\ proc' = [proc EXCEPT ![r] = [Idle EXCEPT !.at = "check", !.card = c]]
    /\ UNCHANGED <<paid, refund, doc, last, holder>>

\* The checkout handler has activated the card and calls issueAfterStripePayment.
CardPaid(r, c) ==
    /\ c \notin paid /\ proc[r].at = "idle"
    /\ paid' = paid \cup {c}
    /\ proc' = [proc EXCEPT ![r] = [Idle EXCEPT !.at = "check", !.source = "AUTO_STRIPE", !.card = c]]
    /\ UNCHANGED <<refund, doc, last, holder>>

\* The condition turned round: the cards whose receipt was voided.
MissedVoided == {c \in paid : ~NeverIssued(c) /\ LiveSales(c) = {}}

\* The cards the automatic hook missed, those with a voided receipt not among them.
Missed == {c \in paid : NeverIssued(c)}

\* catchUpGiftCardDocuments.
CatchUp(r) ==
    LET c == CHOOSE c \in Missed : TRUE
    IN  /\ Missed # {} /\ proc[r].at = "idle"
        /\ proc' = [proc EXCEPT ![r] =
              [Idle EXCEPT !.at = "check", !.source = "CATCH_UP", !.card = c, !.todo = Missed \ {c}]]
        /\ UNCHANGED <<paid, refund, doc, last, holder>>

\* issueGiftCardSale looks for a receipt before it asks Stripe for the details.
Check(r) ==
    /\ proc[r].at = "check"
    /\ IF LiveSales(proc[r].card) # {} THEN Over(r) ELSE Goto(r, "number")
    /\ UNCHANGED <<paid, refund, doc, last, holder>>

\* The one that made the receipt goes on to its refunds and its e-mail; the loser of
\* the race hands back the winner's.
InsertSale(r) ==
    /\ proc[r].at = "insert" /\ proc[r].series = "sale"
    /\ IF SaleKeyFree(proc[r].card)
       THEN /\ Commit(r, [series |-> "sale", number |-> last["sale"], card |-> proc[r].card, live |-> TRUE,
                          amount |-> Price, of |-> 0, refund |-> NoRefund, mails |-> 0])
            /\ proc' = [proc EXCEPT ![r].sale = Len(doc) + 1,
                  ![r].at = IF proc[r].source = "AUTO_STRIPE" THEN "email" ELSE "reconcile"]
       ELSE RollBack(r) /\ Over(r)
    /\ UNCHANGED <<paid, refund>>

\* An automatic receipt goes out once, from the request that made it.
Email(r) ==
    /\ proc[r].at = "email"
    /\ doc' = [doc EXCEPT ![proc[r].sale].mails = @ + 1]
    /\ Over(r)
    /\ UNCHANGED <<paid, refund, last, holder>>

-----------------------------------------------------------------------------
(* Credit notes *)

\* Stripe's refunds, and which of them planStripeRefundCredits finds without a note.
Reconcile(r) ==
    LET c == doc[proc[r].sale].card
        made == {f \in Refunds : refund[f].card = c /\ refund[f].amount > 0}
    IN  /\ proc[r].at = "reconcile"
        /\ proc' = [proc EXCEPT ![r].at = "credit", ![r].plan = {f \in made : NotesFor(f) = {}}]
        /\ UNCHANGED <<paid, refund, doc, last, holder>>

\* handleStripeRefund: Stripe sends three events for one refund, each perhaps twice.
RefundEvent(r, f) ==
    LET sales == LiveSales(refund[f].card)
    IN  /\ refund[f].amount > 0 /\ sales # {} /\ proc[r].at = "idle"
        /\ proc' = [proc EXCEPT ![r] =
              [Idle EXCEPT !.at = "reconcile", !.source = "STRIPE_REFUND", !.sale = Max(sales)]]
        /\ UNCHANGED <<paid, refund, doc, last, holder>>

\* createCreditNote: with a refund id, which is checked with Stripe, or without one.
ManualCredit(r, i, amount, f) ==
    /\ proc[r].at = "idle" /\ amount \in 1..Price
    /\ i \in Documents /\ doc[i].series = "sale"
    /\ f # NoRefund => refund[f].card = doc[i].card /\ amount <= refund[f].amount
    /\ proc' = [proc EXCEPT ![r] =
          [Idle EXCEPT !.at = "credit", !.sale = i, !.amount = amount, !.refund = f]]
    /\ UNCHANGED <<paid, refund, doc, last, holder>>

LatchFree(f) == f = NoRefund \/ NotesFor(f) = {}

\* raiseCreditNote under the lock of the sale document.
Creditable(i, amount, f) ==
    /\ LatchFree(f)
    /\ doc[i].live
    /\ Credited(i) + amount <= doc[i].amount

\* What follows the last note of a reconciliation.
NotesDone(r) ==
    IF proc[r].source \in {"MANUAL", "STRIPE_REFUND"} THEN Over(r) ELSE Goto(r, "email")

Credit(r) ==
    LET byHand == proc[r].amount > 0
        f == IF byHand THEN proc[r].refund ELSE CHOOSE f \in proc[r].plan : TRUE
        amount == IF byHand THEN proc[r].amount ELSE refund[f].amount
        rest == IF byHand THEN {} ELSE proc[r].plan \ {f}
    IN  /\ proc[r].at = "credit"
        /\ IF ~byHand /\ proc[r].plan = {} THEN NotesDone(r)
           ELSE /\ Unlocked(proc[r].sale)
                /\ IF Creditable(proc[r].sale, amount, f)
                   THEN proc' = [proc EXCEPT ![r] =
                           [@ EXCEPT !.at = "number", !.series = "credit", !.amount = amount, !.refund = f,
                                     !.plan = rest]]
                   ELSE IF byHand THEN Over(r) ELSE proc' = [proc EXCEPT ![r].plan = rest]
        /\ UNCHANGED <<paid, refund, doc, last, holder>>

InsertNote(r) ==
    /\ proc[r].at = "insert" /\ proc[r].series = "credit"
    /\ IF LatchFree(proc[r].refund)
       THEN Commit(r, [series |-> "credit", number |-> last["credit"], card |-> doc[proc[r].sale].card,
                       live |-> TRUE, amount |-> proc[r].amount, of |-> proc[r].sale,
                       refund |-> proc[r].refund, mails |-> 0])
       ELSE RollBack(r)
    /\ proc' = [proc EXCEPT ![r].at = "credit", ![r].series = "sale", ![r].amount = 0, ![r].refund = NoRefund]
    /\ UNCHANGED <<paid, refund>>

Voidable(i) == doc[i].live /\ LiveNotes(i) = {}

Void(i) ==
    /\ Unlocked(i)
    /\ Voidable(i)
    /\ doc' = [doc EXCEPT ![i].live = FALSE]
    /\ UNCHANGED <<paid, refund, last, holder, proc>>

\* Somebody refunds the payment in Stripe, in parts that it covers.
StripeRefunds(f, amount) ==
    LET c == refund[f].card
        given == SumFunctionOnSet([g \in Refunds |-> refund[g].amount], {g \in Refunds : refund[g].card = c})
    IN  /\ c \in paid /\ refund[f].amount = 0
        /\ amount > 0 /\ given + amount <= Price
        /\ refund' = [refund EXCEPT ![f].amount = amount]
        /\ UNCHANGED <<paid, doc, last, holder, proc>>

-----------------------------------------------------------------------------
(* The specification *)

Step(r) ==
    \/ Check(r) \/ TakeNumber(r) \/ InsertSale(r) \/ Email(r)
    \/ Reconcile(r) \/ Credit(r) \/ InsertNote(r)

Start(r) ==
    \/ \E c \in Cards : Issue(r, c) \/ CardPaid(r, c)
    \/ CatchUp(r)
    \/ \E f \in Refunds : RefundEvent(r, f)
    \/ \E i \in Documents, amount \in 1..Price, f \in Refunds \cup {NoRefund} : ManualCredit(r, i, amount, f)

Next ==
    \/ \E r \in Requests : Start(r) \/ Step(r) \/ Crash(r)
    \/ \E i \in Documents : Void(i)
    \/ \E f \in Refunds, amount \in 1..Price : StripeRefunds(f, amount)

Spec == Init /\ [][Next]_vars

\* The job runs on a timer; a request goes on unless it dies, and a receipt that is
\* tried again and again is not interrupted every time.
Fairness ==
    /\ \A r \in Requests : WF_vars(Step(r))
    /\ \A c \in Cards :
          /\ SF_vars(\E r \in Requests : proc[r].card = c /\ Check(r))
          /\ SF_vars(\E r \in Requests : proc[r].card = c /\ TakeNumber(r))
          /\ SF_vars(\E r \in Requests : proc[r].card = c /\ InsertSale(r))
    /\ SF_vars(\E r \in Requests : CatchUp(r))

FairSpec == Spec /\ Fairness

-----------------------------------------------------------------------------
(* Properties *)

\* "That is what keeps the series gap-free": the committed documents of a series
\* are numbered 1, 2, 3, ... in the order of their commits, though transactions
\* fail, lose the race for a card and die with a number in hand.
GapFree ==
    \A s \in Series :
        LET rows == {i \in Documents : doc[i].series = s}
        IN  /\ \A i \in rows : doc[i].number = Cardinality({j \in rows : j <= i})
            /\ last[s] = Cardinality(rows) + (IF holder[s] = Nobody THEN 0 ELSE 1)

\* The webhook, the catch-up and a person may issue for a card at the same moment:
\* it has one receipt that stands, and nobody gets an automatic one by mail twice.
OneReceipt ==
    /\ \A c \in Cards : Cardinality(LiveSales(c)) <= 1
    /\ \A i \in Documents : doc[i].mails <= 1

\* The notes that stand never credit more than was paid, never a receipt that was
\* voided and never one refund twice, whoever raises and voids them at once.
CreditsCovered ==
    /\ \A i \in Documents : Credited(i) <= (IF doc[i].live THEN doc[i].amount ELSE 0)
    /\ \A f \in Refunds : Cardinality(NotesFor(f)) <= 1

\* A paid card gets a receipt, though the automatic attempt died: the job finds
\* what it missed.
ReceiptIssued == \A c \in Cards : (c \in paid) ~> ~NeverIssued(c)
=============================================================================
