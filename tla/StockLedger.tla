------------------------------ MODULE StockLedger ------------------------------
(***************************************************************************)
(* How much of one item each venue holds, and the papers that change it:   *)
(* stocktakes, transfers, wastage, delivery checks and purchase orders.    *)
(*                                                                         *)
(* The code is stocktakes.service.ts, transfers.service.ts,                *)
(* stock-operations.service.ts and purchase-orders.service.ts of the stock *)
(* API.  Every paper writes the venue's figure as an absolute number and,  *)
(* but for a transfer, an InventoryMovement with the difference beside it; *)
(* nothing but the arithmetic ties the two together.  A request is one     *)
(* action here: what holds, holds between requests (see the README for     *)
(* what two at once do).                                                   *)
(***************************************************************************)
EXTENDS Integers, FiniteSets, FiniteSetsExt

CONSTANTS
    Venues,
    Counts,       \* stocktakes
    Deliveries,   \* delivery checks
    Orders,       \* purchase orders
    Sheets,       \* the lines of a count that may be saved at once
    NoVenue,      \* a stocktake of the group as a whole
    NoRow,        \* no VenueStockItem row yet
    Blank,        \* null: onHand of a venue that never counted, a line nobody filled in
    NoLine,       \* no such line on the sheet
    MaxQty,       \* largest quantity on an order, a delivery or a transfer
    MaxCounted,   \* largest quantity on a count
    MaxWrites     \* how often the figures are written in a behaviour

Lines == 1..2
Qty == 0..MaxQty
Countable == 0..MaxCounted
Filled == Countable \cup {Blank, NoLine}

StockLedgerAssumption ==
    /\ MaxQty \in Nat \ {0} /\ MaxCounted \in Nat \ {0} /\ MaxWrites \in Nat
    /\ IsFiniteSet(Venues) /\ NoVenue \notin Venues
    /\ Sheets \subseteq [Lines -> Filled]
    /\ {NoRow, Blank, NoLine} \cap Int = {}
    /\ Cardinality({NoRow, Blank, NoLine}) = 3

VARIABLES
    item,       \* StockItem.onHand, the group's figure
    shelf,      \* VenueStockItem.onHand by venue
    takenOver,  \* by venue, what its first figure took over from the group's (history)
    booked,     \* by venue, the sum of the InventoryMovement rows
    sent,       \* by venue, transfers in less transfers out
    count,      \* the Stocktake rows with their lines and movements
    delivery,   \* the StockDeliveryCheck rows
    order,      \* the PurchaseOrder rows, one line each
    writes      \* papers that changed a figure so far (the bound MaxWrites)

shelfVars == <<item, shelf, takenOver, booked, sent>>
vars == <<shelfVars, count, delivery, order, writes>>

-----------------------------------------------------------------------------
(* Types *)

CountStatuses == {"IN_PROGRESS", "SUBMITTED", "REVIEWED", "LOCKED", "REOPENED"}

\* net is what the ADJUSTMENT and CORRECTION movements of a line since appliedAt
\* add up to; ledger is the sum of all movements of the count, anchored the lines
\* that any of them points at.
CountRecord ==
    [status : CountStatuses \cup {"NONE"}, venue : Venues \cup {NoVenue}, applied : BOOLEAN,
     lines : [Lines -> Filled], net : [Lines -> Int], ledger : Int, anchored : SUBSET Lines]

DeliveryRecord ==
    [status : {"NONE", "DRAFT", "DISCREPANCY", "COMPLETED"}, venue : Venues \cup {NoVenue}, received : Qty,
     discrepancy : BOOLEAN]

\* ledger is the sum of the movements noted "PO receipt" of this order.
OrderRecord ==
    [status : {"NONE", "DRAFT", "SENT", "PARTIALLY_RECEIVED", "RECEIVED", "CANCELLED", "MATCHED"},
     venue : Venues \cup {NoVenue}, ordered : Qty, received : Nat, ledger : Int]

\* A movement points at a line that is on the sheet.
TypeOK ==
    /\ item \in Int
    /\ shelf \in [Venues -> Int \cup {NoRow, Blank}]
    /\ takenOver \in [Venues -> Int]
    /\ booked \in [Venues -> Int]
    /\ sent \in [Venues -> Int]
    /\ count \in [Counts -> CountRecord]
    /\ \A c \in Counts : \A i \in count[c].anchored : count[c].lines[i] # NoLine
    /\ delivery \in [Deliveries -> DeliveryRecord]
    /\ order \in [Orders -> OrderRecord]
    /\ writes \in 0..MaxWrites

NoCount(v) ==
    [status |-> "NONE", venue |-> v, applied |-> FALSE, lines |-> [i \in Lines |-> NoLine],
     net |-> [i \in Lines |-> 0], ledger |-> 0, anchored |-> {}]

\* The group has a figure from the day the item was entered, the venues none.
Init ==
    /\ item \in Qty
    /\ shelf = [v \in Venues |-> NoRow]
    /\ takenOver = [v \in Venues |-> 0]
    /\ booked = [v \in Venues |-> 0]
    /\ sent = [v \in Venues |-> 0]
    /\ count = [c \in Counts |-> NoCount(NoVenue)]
    /\ delivery = [d \in Deliveries |->
          [status |-> "NONE", venue |-> NoVenue, received |-> 0, discrepancy |-> FALSE]]
    /\ order = [o \in Orders |->
          [status |-> "NONE", venue |-> NoVenue, ordered |-> 0, received |-> 0, ledger |-> 0]]
    /\ writes = 0

-----------------------------------------------------------------------------
(* The figures *)

Figure(v) == IF shelf[v] \in {NoRow, Blank} THEN 0 ELSE shelf[v]

\* ensureVenueStockRowsForLines, and the upserts that create a row without a figure.
WithRow(v) == IF v \in Venues /\ shelf[v] = NoRow THEN [shelf EXCEPT ![v] = Blank] ELSE shelf

\* A venue that never counted holds what the group holds.
BeforeFromGroup(v) == IF v = NoVenue \/ shelf[v] \in {NoRow, Blank} THEN item ELSE shelf[v]

\* What balanceTargetForItem reads: a venue that never counted holds nothing,
\* "its prior holding is zero, not the group total".
Before(v) == IF v = NoVenue THEN item ELSE Figure(v)

\* updateQuantityAfter: the group's figure becomes the sum of the venues that
\* have one.
SumOfVenues(figures) ==
    SumFunctionOnSet(figures, {v \in Venues : figures[v] \notin {NoRow, Blank}})

\* Moves the figure of the venue, or of the group, from Before(v) to after.
Balance(v, after) ==
    IF v = NoVenue
    THEN item' = after /\ UNCHANGED <<shelf, booked>>
    ELSE /\ shelf' = [shelf EXCEPT ![v] = after]
         /\ item' = SumOfVenues([shelf EXCEPT ![v] = after])
         /\ booked' = [booked EXCEPT ![v] = @ + after - Before(v)]

\* getVenueStock and receiveIntoStock: a venue without a row starts from the
\* group's figure, one that never counted from nothing.
BeforeAdjusting(v) == IF shelf[v] = NoRow THEN item ELSE Figure(v)

\* adjustVenueOnHand.
Adjust(v, delta) ==
    LET before == BeforeAdjusting(v)
    IN  /\ shelf' = [shelf EXCEPT ![v] = before + delta]
        /\ takenOver' = [takenOver EXCEPT ![v] = IF shelf[v] = NoRow THEN item ELSE @]
        /\ booked' = [booked EXCEPT ![v] = @ + delta]
        /\ UNCHANGED <<item, sent>>

Write == writes < MaxWrites /\ writes' = writes + 1

-----------------------------------------------------------------------------
(* Stocktakes: the sheet *)

Paper(c) == count[c].status # "NONE"

\* The lines somebody filled in.
Counted(lines) == {i \in Lines : lines[i] \notin {Blank, NoLine}}

\* ensureVenueStockRowsForLines.
RowsFor(v, lines) == IF \E i \in Lines : lines[i] # NoLine THEN WithRow(v) ELSE shelf

CreateCount(c, v, lines, status) ==
    /\ ~Paper(c)
    /\ count' = [count EXCEPT ![c] = [NoCount(v) EXCEPT !.status = status, !.lines = lines]]
    /\ shelf' = RowsFor(v, lines)
    /\ UNCHANGED <<item, takenOver, booked, sent, delivery, order, writes>>

\* updateStocktake: a manager saves the whole sheet of a count that is not applied,
\* a locked one too, and names any status and venue; lines that are not sent are
\* gone, with the ledger's pointers to them.
EditCount(c, v, lines, status) ==
    /\ Paper(c) /\ ~count[c].applied
    /\ count' = [count EXCEPT ![c] =
          [count[c] EXCEPT !.venue = v, !.lines = lines, !.status = status,
                           !.anchored = {i \in count[c].anchored : lines[i] # NoLine}]]
    /\ shelf' = RowsFor(v, lines)
    /\ UNCHANGED <<item, takenOver, booked, sent, delivery, order, writes>>

\* assertLinesWritable, for a manager.
Writable(c) == Paper(c) /\ count[c].status # "LOCKED" /\ ~count[c].applied

UpdateLine(c, i, q) ==
    /\ Writable(c) /\ count[c].lines[i] # NoLine
    /\ count' = [count EXCEPT ![c].lines[i] = q]
    /\ UNCHANGED <<shelfVars, delivery, order, writes>>

\* One line per item by this way; a whole sheet may hold more.
AddLine(c) ==
    /\ Writable(c) /\ \A i \in Lines : count[c].lines[i] = NoLine
    /\ count' = [count EXCEPT ![c].lines[1] = Blank]
    /\ shelf' = WithRow(count[c].venue)
    /\ UNCHANGED <<item, takenOver, booked, sent, delivery, order, writes>>

\* A line is removed whatever the ledger says of it.
RemoveLineAnyway(c, i) ==
    /\ Writable(c) /\ count[c].lines[i] # NoLine
    /\ count' = [count EXCEPT ![c].lines[i] = NoLine]
    /\ UNCHANGED <<shelfVars, delivery, order, writes>>

RemoveLine(c, i) ==
    /\ Writable(c) /\ count[c].lines[i] # NoLine /\ i \notin count[c].anchored
    /\ count' = [count EXCEPT ![c].lines[i] = NoLine]
    /\ UNCHANGED <<shelfVars, delivery, order, writes>>

-----------------------------------------------------------------------------
(* Stocktakes: the way to the ledger *)

Becomes(c, from, to) ==
    /\ count[c].status \in from
    /\ count' = [count EXCEPT ![c].status = to]
    /\ UNCHANGED <<shelfVars, delivery, order, writes>>

\* "Blanks become zeros here, at submit, and nowhere earlier."
SubmitCount(c) ==
    /\ count[c].status \in {"IN_PROGRESS", "REOPENED"}
    /\ count' = [count EXCEPT ![c].status = "SUBMITTED",
                              ![c].lines = [i \in Lines |-> IF @[i] = Blank THEN 0 ELSE @[i]]]
    /\ UNCHANGED <<shelfVars, delivery, order, writes>>

ReviewCount(c) == Becomes(c, {"SUBMITTED"}, "REVIEWED")
LockCount(c) == Becomes(c, {"SUBMITTED", "REVIEWED"}, "LOCKED")
ReopenCount(c) == ~count[c].applied /\ Becomes(c, {"SUBMITTED", "REVIEWED"}, "IN_PROGRESS")
ReopenWithReason(c) == Becomes(c, {"SUBMITTED", "REVIEWED", "LOCKED"}, "REOPENED")

\* The movements stay, and forget the count they came from.
DeleteCount(c) ==
    /\ Paper(c) /\ ~count[c].applied
    /\ count' = [count EXCEPT ![c] = NoCount(NoVenue)]
    /\ UNCHANGED <<shelfVars, delivery, order, writes>>

\* The lines are written one after the other, each over the one before, so that
\* the last counted line stands and every line's movement starts where the one
\* before ended.
AdjustmentOf(c, i) ==
    LET lines == count[c].lines
        earlier == {j \in Counted(lines) : j < i}
    IN  IF i \notin Counted(lines) THEN 0
        ELSE lines[i] - IF earlier = {} THEN Before(count[c].venue) ELSE lines[Max(earlier)]

ApplyCount(c) ==
    LET k == count[c]
        v == k.venue
        done == Counted(k.lines)
        after == IF done = {} THEN Before(v) ELSE k.lines[Max(done)]
    IN  /\ k.status \in {"SUBMITTED", "REVIEWED"} /\ ~k.applied
        /\ Write
        /\ count' = [count EXCEPT ![c] =
              [k EXCEPT !.status = "REVIEWED", !.applied = TRUE,
                        !.net = [i \in Lines |-> AdjustmentOf(c, i)],
                        !.anchored = k.anchored \cup done,
                        !.ledger = IF done = {} THEN k.ledger ELSE k.ledger + after - Before(v)]]
        /\ IF done = {} THEN UNCHANGED <<item, shelf, booked>> ELSE Balance(v, after)
        /\ UNCHANGED <<takenOver, sent, delivery, order>>

CorrectCount(c, i, after) ==
    LET k == count[c]
        v == k.venue
        delta == after - Before(v)
    IN  /\ k.applied /\ k.lines[i] # NoLine
        /\ delta # 0
        /\ Write
        /\ count' = [count EXCEPT ![c] =
              [k EXCEPT !.net[i] = @ + delta, !.ledger = k.ledger + delta,
                        !.anchored = k.anchored \cup {i}]]
        /\ Balance(v, after)
        /\ UNCHANGED <<takenOver, sent, delivery, order>>

\* A reversal of the first line's movements alone.
NetOfFirst(c) == count[c].net[1]

\* What a reversal takes back: what the count's lines have moved since it was applied.
NetOf(c) == count[c].net[1] + count[c].net[2]

\* A count whose movements cancel out has nothing to reverse, and is refused.
ReverseCount(c) ==
    LET k == count[c]
    IN  /\ k.applied
        /\ \E i \in Lines : k.net[i] # 0
        /\ Write
        /\ count' = [count EXCEPT ![c] =
              [k EXCEPT !.status = "IN_PROGRESS", !.applied = FALSE, !.ledger = k.ledger - NetOf(c),
                        !.net = [i \in Lines |-> 0]]]
        /\ Balance(k.venue, Before(k.venue) - NetOf(c))
        /\ UNCHANGED <<takenOver, sent, delivery, order>>

-----------------------------------------------------------------------------
(* Transfers and wastage *)

\* What create() of the transfers reads: a venue that never counted has what the
\* group has, whatever the counts say of such a venue.
Current(v) == IF shelf[v] \in {NoRow, Blank} THEN item ELSE shelf[v]

Transfer(v, w, q) ==
    /\ v # w /\ q > 0
    /\ Write
    /\ shelf' = [shelf EXCEPT ![v] = Current(v) - q, ![w] = Current(w) + q]
    /\ sent' = [sent EXCEPT ![v] = @ - q, ![w] = @ + q]
    /\ takenOver' = [u \in Venues |->
          IF u \in {v, w} /\ shelf[u] \in {NoRow, Blank} THEN item ELSE takenOver[u]]
    /\ UNCHANGED <<item, booked, count, delivery, order>>

\* createWastage and createStaffUsage.
Waste(v, q) ==
    /\ q > 0
    /\ Write
    /\ Adjust(v, -q)
    /\ UNCHANGED <<count, delivery, order>>

-----------------------------------------------------------------------------
(* Delivery checks *)

CreateDelivery(d, v, q, discrepancy) ==
    /\ delivery[d].status = "NONE"
    /\ delivery' = [delivery EXCEPT ![d] =
          [@ EXCEPT !.status = "DRAFT", !.venue = v, !.received = q, !.discrepancy = discrepancy]]
    /\ UNCHANGED <<shelfVars, count, order, writes>>

EditDelivery(d, q, discrepancy, status) ==
    /\ delivery[d].status \notin {"NONE", "COMPLETED"}
    /\ delivery' = [delivery EXCEPT ![d] =
          [@ EXCEPT !.status = status, !.received = q, !.discrepancy = discrepancy]]
    /\ UNCHANGED <<shelfVars, count, order, writes>>

\* One that is completed with a discrepancy can be completed again.
CompleteDelivery(d) ==
    /\ delivery[d].status \notin {"NONE", "COMPLETED"}
    /\ Write
    /\ delivery' = [delivery EXCEPT ![d].status =
          IF delivery[d].discrepancy THEN "DISCREPANCY" ELSE "COMPLETED"]
    /\ IF delivery[d].received > 0 THEN Adjust(delivery[d].venue, delivery[d].received)
       ELSE UNCHANGED shelfVars
    /\ UNCHANGED <<count, order>>

-----------------------------------------------------------------------------
(* Purchase orders *)

CreateOrder(o, v, q) ==
    /\ order[o].status = "NONE" /\ q > 0
    /\ order' = [order EXCEPT ![o] = [@ EXCEPT !.status = "DRAFT", !.venue = v, !.ordered = q]]
    /\ UNCHANGED <<shelfVars, count, delivery, writes>>

\* The lines are deleted and written anew: what was received on them is forgotten.
EditOrder(o, q) ==
    /\ order[o].status = "DRAFT" /\ q > 0
    /\ order' = [order EXCEPT ![o] = [@ EXCEPT !.ordered = q, !.received = 0]]
    /\ UNCHANGED <<shelfVars, count, delivery, writes>>

SendOrder(o) ==
    /\ order[o].status \in {"DRAFT", "SENT"}
    /\ order' = [order EXCEPT ![o].status = "SENT"]
    /\ UNCHANGED <<shelfVars, count, delivery, writes>>

CancelOrder(o) ==
    /\ order[o].status \notin {"NONE", "MATCHED"}
    /\ order' = [order EXCEPT ![o].status = "CANCELLED"]
    /\ UNCHANGED <<shelfVars, count, delivery, writes>>

MatchOrder(o) ==
    /\ order[o].status # "NONE"
    /\ order' = [order EXCEPT ![o].status = "MATCHED"]
    /\ UNCHANGED <<shelfVars, count, delivery, writes>>

\* A receipt of what was said to have come, whatever came before.
OutstandingInFull(o, q) == q

\* What a receipt of q units in all still has to put on the shelf.
Outstanding(o, q) == q - order[o].received

Receive(o, q) ==
    LET delta == Outstanding(o, q)
        r == order[o]
        status == IF q >= r.ordered THEN "RECEIVED"
                  ELSE IF q > 0 THEN "PARTIALLY_RECEIVED" ELSE r.status
    IN  /\ r.status \notin {"NONE", "CANCELLED", "MATCHED"}
        /\ Write
        /\ order' = [order EXCEPT ![o] =
              [r EXCEPT !.status = status, !.received = q, !.ledger = r.ledger + delta]]
        /\ IF delta # 0 THEN Adjust(r.venue, delta) ELSE UNCHANGED shelfVars
        /\ UNCHANGED <<count, delivery>>

-----------------------------------------------------------------------------
(* The specification *)

CountStep(c) ==
    \/ \E v \in Venues \cup {NoVenue}, lines \in Sheets, status \in CountStatuses :
          CreateCount(c, v, lines, status) \/ EditCount(c, v, lines, status)
    \/ \E i \in Lines, q \in Countable \cup {Blank} : UpdateLine(c, i, q)
    \/ AddLine(c)
    \/ \E i \in Lines : RemoveLine(c, i)
    \/ SubmitCount(c)
    \/ ReviewCount(c)
    \/ LockCount(c)
    \/ ReopenCount(c)
    \/ ReopenWithReason(c)
    \/ DeleteCount(c)
    \/ ApplyCount(c)
    \/ \E i \in Lines, q \in Countable : CorrectCount(c, i, q)
    \/ ReverseCount(c)

DeliveryStep(d) ==
    \/ \E q \in Qty, bad \in BOOLEAN :
          \/ \E v \in Venues : CreateDelivery(d, v, q, bad)
          \/ \E status \in {"DRAFT", "DISCREPANCY"} : EditDelivery(d, q, bad, status)
    \/ CompleteDelivery(d)

OrderStep(o) ==
    \/ \E q \in Qty : EditOrder(o, q) \/ Receive(o, q) \/ \E v \in Venues : CreateOrder(o, v, q)
    \/ SendOrder(o)
    \/ CancelOrder(o)
    \/ MatchOrder(o)

Next ==
    \/ \E c \in Counts : CountStep(c)
    \/ \E d \in Deliveries : DeliveryStep(d)
    \/ \E o \in Orders : OrderStep(o)
    \/ \E v \in Venues, q \in Qty : Waste(v, q) \/ \E w \in Venues : Transfer(v, w, q)

Spec == Init /\ [][Next]_vars

-----------------------------------------------------------------------------
(* Properties *)

\* A venue's figure is what the papers say of it and nothing else: the movements
\* and the transfers, in whatever order counts were applied, corrected, moved to
\* another venue and reversed and goods came and went.  Of a venue whose first
\* figure was the group's nothing is said: a transfer, or an adjustment before
\* there is a row, gives it stock that no paper shows.
FigureExplained ==
    \A v \in Venues :
        shelf[v] \in Int /\ takenOver[v] = 0 => shelf[v] = booked[v] + sent[v]

\* A count that is not applied has left nothing in the ledger: what it and its
\* corrections moved was taken back to the unit by its reversal, however often
\* it was applied, corrected, reversed and edited.
ReversedIsUndone == \A c \in Counts : ~count[c].applied => count[c].ledger = 0

\* What purchase orders have put on the shelves is what their lines say was
\* received, over any sequence of part receipts, repeated receipts and
\* corrections of the quantity.
ReceivedOnce == \A o \in Orders : order[o].ledger = order[o].received
=============================================================================
