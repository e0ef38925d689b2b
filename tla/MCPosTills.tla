------------------------------ MODULE MCPosTills ------------------------------
(***************************************************************************)
(* PosBill without crashes, for TLC: one till on two bills, with a gift    *)
(* card for sale and tips, or two tills on one bill, with gift cards to    *)
(* pay with.                                                               *)
(***************************************************************************)
EXTENDS PosBill, TLC

\* What the wallets hold at first.
Rich == [m \in Wallets |-> 2]

\* A till that takes no part is away: no step of PosBill starts there.
Away == [IdleProc EXCEPT !.at = "away"]

OneTill == \E p \in Tills : \A q \in Tills \ {p} : At(q, "away")

TillsInit ==
    \E working \in (SUBSET Tills) \ {{}} :
        /\ bill = [b \in Bills |-> NoBillYet]
        /\ pays = {}
        /\ written = 0
        /\ sale = [s \in Sales |-> NoSaleYet]
        /\ cards = [s \in Sales |-> 0]
        /\ wallet = Wallet
        /\ proc = [p \in Tills |-> IF p \in working THEN IdleProc ELSE Away]

TillsSpec == TillsInit /\ [][Step]_vars

TillsSymmetry == Permutations(Bills) \cup Permutations(Tills)

\* What each of the two leaves out.
OneOrTwo ==
    IF OneTill THEN \A p \in Tills : proc[p].method # "GIFT_CARD"
    ELSE /\ Cardinality({b \in Bills : bill[b].status # "NONE"}) <= 1
         /\ \A s \in Sales : sale[s].on = NoBill
         /\ \A p \in Tills : proc[p].tip = 0 /\ proc[p].at # "addSale"

\* A bill that is paid was covered when it was settled, with one request at a time.
CoveredAlone == OneTill /\ (\A p \in Tills : Idle(p) \/ At(p, "away")) => PaidInFull

\* Refunds never exceed what was paid, with one request at a time.
RefundBounded == [][OneTill => RefundsWithin]_vars
=============================================================================
