----------------------------- MODULE MCBackOffice -----------------------------
(***************************************************************************)
(* Receipts, corporate orders, the stock ledger and the rounds of guests,  *)
(* for TLC.  No two of them share a row, so that a behaviour is about one  *)
(* of the four and the others rest in an initial state.                    *)
(***************************************************************************)
EXTENDS CorporateCards, TLC

CONSTANTS
    Cards, Refunds, Price, MaxDocuments, Nobody, NoRefund, NoCard, \* of FinancialDocuments
    Venues, Counts, Deliveries, PurchaseOrders, Sheets, NoVenue, NoRow, Blank, NoLine,
    MaxQty, MaxCounted, MaxWrites,                          \* of StockLedger
    Phones, Rounds, Tabs, NoTab, Claimed                    \* of QrRounds

VARIABLES
    part,                                                   \* what the behaviour is about
    paid, refund, doc, last, holder, receiptProc,
    item, shelf, takenOver, booked, sent, count, delivery, purchase, writes,
    round, square, tab, phone

Receipts == INSTANCE FinancialDocumentsProofs WITH proc <- receiptProc
Stock == INSTANCE StockLedger WITH Orders <- PurchaseOrders, order <- purchase
Guests == INSTANCE QrRounds

ASSUME OfficeAssumption ==
    Receipts!DocumentsAssumption /\ Stock!StockLedgerAssumption /\ Guests!QrAssumption

receiptVars == <<paid, refund, doc, last, holder, receiptProc>>
stockVars == <<item, shelf, takenOver, booked, sent, count, delivery, purchase, writes>>
guestVars == <<round, square, tab, phone>>
officeVars == <<part, vars, receiptVars, stockVars, guestVars>>

OfficeInit ==
    /\ part \in {"receipts", "orders", "stock", "rounds"}
    /\ Init /\ Receipts!Init /\ Stock!Init /\ Guests!Init
    /\ part # "receipts" => \A f \in Refunds : refund[f].card = CHOOSE c \in Cards : TRUE
    /\ part # "orders" => order.method = "OFFLINE" /\ ~order.test
    /\ part # "stock" => item = 0

OfficeNext ==
    \/ part = "receipts" /\ Receipts!Next /\ UNCHANGED <<part, vars, stockVars, guestVars>>
    \/ part = "orders" /\ Next /\ UNCHANGED <<part, receiptVars, stockVars, guestVars>>
    \/ part = "stock" /\ Stock!Next /\ UNCHANGED <<part, vars, receiptVars, guestVars>>
    \/ part = "rounds" /\ Guests!Next /\ UNCHANGED <<part, vars, receiptVars, stockVars>>

OfficeSpec == OfficeInit /\ [][OfficeNext]_officeVars

\* Sheets with one line or two, counted or not.
SomeSheets == {<<Blank, NoLine>>, <<NoLine, 1>>, <<1, 0>>}

Symmetry == Permutations(Requests) \cup Permutations(Venues)

\* One count, one delivery or one purchase order in a behaviour, beside any
\* transfers and wastage.
OnePaper ==
    LET counts == {c \in Counts : Stock!Paper(c)}
        deliveries == {d \in Deliveries : delivery[d].status # "NONE"}
        orders == {o \in PurchaseOrders : purchase[o].status # "NONE"}
    IN  Cardinality(counts) + Cardinality(deliveries) + Cardinality(orders) <= 1

\* The parts keep their types, and a movement of stock points at a line that is
\* still on its sheet.
OfficeTypeOK == CorporateTypeOK /\ Receipts!DocumentsTypeOK /\ Stock!TypeOK /\ Guests!QrTypeOK

\* Credits never exceed what was paid.
CreditsCovered == Receipts!CreditsCovered

\* The movements and transfers explain a venue's figure, but for what it took
\* over from the group's.
FigureExplained == Stock!FigureExplained

\* The reversal of a count takes back all it moved.
ReversedIsUndone == Stock!ReversedIsUndone

\* Purchase orders put on the shelf what their lines received.
ReceivedOnce == Stock!ReceivedOnce

\* A guest's round is on the bill once, and only when it is paid.
RoundOnce == Guests!RoundOnce
=============================================================================
