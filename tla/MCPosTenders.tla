----------------------------- MODULE MCPosTenders -----------------------------
(***************************************************************************)
(* Bills that are paid on the card terminal and bills that guests pay on   *)
(* their phone, for TLC; a behaviour is about one of the two, and the rows *)
(* of the other stay as they are at first.                                 *)
(***************************************************************************)
EXTENDS PosTerminal, PosOnline, MCPosTills

VARIABLE part

tenderVars == <<part, vars, terminalVars, onlineVars>>

TendersInit ==
    \E working \in (SUBSET Tills) \ {{}} :
        /\ part = IF \E p \in Tills : working = {p} THEN "online" ELSE "terminal"
        /\ bill = [b \in Bills |-> NoBillYet]
        /\ pays = {}
        /\ written = 0
        /\ sale = [s \in Sales |-> NoSaleYet]
        /\ cards = [s \in Sales |-> 0]
        /\ wallet = Wallet
        /\ proc = [p \in Tills |-> IF p \in working THEN IdleProc ELSE Away]
        /\ attempt = [k \in Refs |-> NoAttempt]
        /\ square = [k \in Refs |-> NotOnSquare]
        /\ heard = [p \in Tills |-> [status |-> "PENDING", of |-> NoRef]]
        /\ session = [k \in Refs |-> [status |-> "none", bill |-> NoBill, received |-> 0, tip |-> 0]]
        /\ confirmed = {}

\* A request that pays on the phone may die at any step.
TendersNext ==
    \/ part = "terminal" /\ TerminalNext /\ UNCHANGED <<part, onlineVars>>
    \/ part = "online" /\ OnlineNext /\ UNCHANGED <<part, terminalVars>>
    \/ /\ part = "online"
       /\ \E p \in Tills : ~At(p, "away") /\ Crash(p)
       /\ UNCHANGED <<part, terminalVars, onlineVars>>

TendersSpec == TendersInit /\ [][TendersNext]_tenderVars

\* No gift cards and no points here.
Empty == [m \in Wallets |-> 0]

Symmetry == Permutations(Bills) \cup Permutations(Tills) \cup Permutations(Refs)

\* Bills are rung up, paid, refunded; the rest is left to the runs of PosBill.
Corrections == {"addSale", "splitNext", "merge", "undoDelete", "void", "reopen"}

Editing == {"setLines", "syncRead", "syncClear", "syncCreate"}

\* A bill is edited while a card is on the terminal, but not in the middle of
\* another request; one card is charged and may get its money back, and the
\* register does not refund in the middle of that.
OneCharge ==
    /\ Cardinality({b \in Bills : bill[b].status # "NONE"}) <= 1
    /\ \A p, q \in Tills : proc[p].at \in Editing /\ p # q => Idle(q)
    /\ Cardinality({k \in Refs : square[k].kind = "charge"}) <= 1
    /\ \A p \in Tills : proc[p].at \notin Corrections
    /\ \A p, q \in Tills : p # q /\ proc[p].at = "refund" /\ proc[p].ref = NoRef
                             => proc[q].method # "REFUND"

\* One request at a time on two bills, no gift cards for sale, and one session;
\* a bill that was paid is open again when a payment is undone.
OneSession ==
    /\ \A p \in Tills : proc[p].at \notin {"addSale", "reopen"}
    /\ Cardinality({k \in Refs : session[k].status # "none" \/ \E p \in Tills : proc[p].ref = k}) <= 1

OneTender == IF part = "terminal" THEN OneCharge ELSE OneSession

\* The rows of both keep their types.
TendersTypeOK == TerminalTypeOK /\ OnlineTypeOK

=============================================================================
