------------------------------- MODULE QrRounds -------------------------------
(***************************************************************************)
(* Rounds that the guests of one table order and pay on their phones       *)
(* before anything reaches the bill or the kitchen: submit, confirmPaid    *)
(* and materialisePending of qr-order.service.ts.                          *)
(***************************************************************************)
EXTENDS Integers, FiniteSets, FiniteSetsExt, Functions

CONSTANTS
    Phones,       \* requests under way at once
    Rounds,       \* baskets: PosQrPendingOrder rows
    Tabs,         \* bills of the table, 1, 2, ... in the order they are opened
    NoTab, Claimed \* posOrderId: null, and 'PENDING' while a round is put on its bill

QrAssumption ==
    /\ IsFiniteSet(Tabs) /\ Tabs \subseteq Nat
    /\ NoTab \notin Tabs /\ Claimed \notin Tabs /\ NoTab # Claimed
    /\ Rounds # {}

VARIABLES
    round,        \* the pending orders
    square,       \* Square's payment of a round's link
    tab,          \* the bills: status and, by round, its lines, payments and dockets
    phone         \* the requests

vars == <<round, square, tab, phone>>

-----------------------------------------------------------------------------

Times == 0..2    \* 2 = more than once

RoundRecord == [status : {"NONE", "WAITING", "LINKED", "PAID", "EXPIRED"}, posOrder : Tabs \cup {NoTab, Claimed}]
TabRecord == [status : {"NONE", "OPEN", "CLOSED"}, lines : [Rounds -> Times], money : [Rounds -> Times],
              fired : [Rounds -> Times]]
Request == [at : {"idle", "link", "ask", "claim", "find", "create", "lines", "pay", "fire", "save"},
            round : Rounds, tab : Tabs \cup {NoTab}]

QrTypeOK ==
    /\ round \in [Rounds -> RoundRecord]
    /\ square \in [Rounds -> {"none", "OPEN", "COMPLETED"}]
    /\ tab \in [Tabs -> TabRecord]
    /\ phone \in [Phones -> Request]

Idle == [at |-> "idle", round |-> CHOOSE g \in Rounds : TRUE, tab |-> NoTab]
Nothing == [g \in Rounds |-> 0]

Init ==
    /\ round = [g \in Rounds |-> [status |-> "NONE", posOrder |-> NoTab]]
    /\ square = [g \in Rounds |-> "none"]
    /\ tab = [t \in Tabs |-> [status |-> "NONE", lines |-> Nothing, money |-> Nothing, fired |-> Nothing]]
    /\ phone = [p \in Phones |-> Idle]

-----------------------------------------------------------------------------

Begin(p, stage, g) ==
    phone[p].at = "idle" /\ phone' = [phone EXCEPT ![p] = [Idle EXCEPT !.at = stage, !.round = g]]
At(p, stage) == phone[p].at = stage
Goto(p, stage) == phone' = [phone EXCEPT ![p].at = stage]
Return(p) == phone' = [phone EXCEPT ![p] = Idle]
More(n) == Min({n + 1, 2})

\* A request dies, or the guest closes the page.
Crash(p) ==
    /\ ~At(p, "idle")
    /\ Return(p)
    /\ UNCHANGED <<round, square, tab>>

Submit(p, g) ==
    /\ round[g].status = "NONE"
    /\ round' = [round EXCEPT ![g].status = "WAITING"]
    /\ Begin(p, "link", g)
    /\ UNCHANGED <<square, tab>>

\* Square makes the payment link, or does not.
Link(p) ==
    LET g == phone[p].round
    IN  /\ At(p, "link")
        /\ \/ round' = [round EXCEPT ![g].status = "LINKED"] /\ square' = [square EXCEPT ![g] = "OPEN"]
           \/ round' = [round EXCEPT ![g].status = "EXPIRED"] /\ UNCHANGED square
        /\ Return(p)
        /\ UNCHANGED tab

GuestPays(g) ==
    /\ square[g] = "OPEN"
    /\ square' = [square EXCEPT ![g] = "COMPLETED"]
    /\ UNCHANGED <<round, tab, phone>>

\* confirmPaid: the page may be loaded in two tabs, and again after a failure.
ConfirmPaid(p, g) ==
    /\ round[g].status \in {"LINKED", "PAID"}
    /\ round[g].posOrder \in {NoTab, Claimed}
    /\ Begin(p, "ask", g)
    /\ UNCHANGED <<round, square, tab>>

Ask(p) ==
    /\ At(p, "ask")
    /\ IF square[phone[p].round] = "COMPLETED" THEN Goto(p, "claim") ELSE Return(p)
    /\ UNCHANGED <<round, square, tab>>

\* A round that is taken by whoever comes.
ClaimableUnlessDone(g) == round[g].posOrder \notin Tabs

\* The latch: nobody has put the round on a bill, or is about to.
Claimable(g) == round[g].posOrder = NoTab

Claim(p) ==
    LET g == phone[p].round
    IN  /\ At(p, "claim")
        /\ IF Claimable(g)
           THEN round' = [round EXCEPT ![g] = [status |-> "PAID", posOrder |-> Claimed]] /\ Goto(p, "find")
           ELSE Return(p) /\ UNCHANGED round
        /\ UNCHANGED <<square, tab>>

\* materialisePending: the table's oldest open bill, or a fresh one.
Find(p) ==
    LET open == {t \in Tabs : tab[t].status = "OPEN"}
    IN  /\ At(p, "find")
        /\ phone' = [phone EXCEPT ![p].at = IF open = {} THEN "create" ELSE "lines",
                                  ![p].tab = IF open = {} THEN NoTab ELSE Min(open)]
        /\ UNCHANGED <<round, square, tab>>

Unused == {t \in Tabs : tab[t].status = "NONE"}

Create(p) ==
    /\ At(p, "create") /\ Unused # {}
    /\ tab' = [tab EXCEPT ![Min(Unused)].status = "OPEN"]
    /\ phone' = [phone EXCEPT ![p].at = "lines", ![p].tab = Min(Unused)]
    /\ UNCHANGED <<round, square>>

\* The lines, the money and the docket follow one another whatever has become of
\* the bill.
AddLines(p) ==
    /\ At(p, "lines")
    /\ tab' = [tab EXCEPT ![phone[p].tab].lines[phone[p].round] = More(@)]
    /\ Goto(p, "pay")
    /\ UNCHANGED <<round, square>>

AddPayment(p) ==
    /\ At(p, "pay")
    /\ tab' = [tab EXCEPT ![phone[p].tab].money[phone[p].round] = More(@)]
    /\ Goto(p, "fire")
    /\ UNCHANGED <<round, square>>

Fire(p) ==
    /\ At(p, "fire")
    /\ tab' = [tab EXCEPT ![phone[p].tab].fired[phone[p].round] = More(@)]
    /\ Goto(p, "save")
    /\ UNCHANGED <<round, square>>

Save(p) ==
    /\ At(p, "save")
    /\ round' = [round EXCEPT ![phone[p].round].posOrder = phone[p].tab]
    /\ Return(p)
    /\ UNCHANGED <<square, tab>>

\* Staff open a bill for the table, and settle, void or merge one away.
StaffOpen ==
    /\ Unused # {}
    /\ tab' = [tab EXCEPT ![Min(Unused)].status = "OPEN"]
    /\ UNCHANGED <<round, square, phone>>

StaffClose(t) ==
    /\ tab[t].status = "OPEN"
    /\ tab' = [tab EXCEPT ![t].status = "CLOSED"]
    /\ UNCHANGED <<round, square, phone>>

-----------------------------------------------------------------------------

Step(p) ==
    \/ Link(p) \/ Ask(p) \/ Claim(p) \/ Find(p) \/ Create(p) \/ AddLines(p) \/ AddPayment(p)
    \/ Fire(p) \/ Save(p)

Next ==
    \/ \E p \in Phones : Step(p) \/ Crash(p) \/ \E g \in Rounds : Submit(p, g) \/ ConfirmPaid(p, g)
    \/ \E g \in Rounds : GuestPays(g)
    \/ StaffOpen
    \/ \E t \in Tabs : StaffClose(t)

Spec == Init /\ [][Next]_vars

-----------------------------------------------------------------------------

Sum(what) == SumFunctionOnSet(what, Tabs)

\* "A refreshed success page must not order a second round": over all bills of the
\* table a round has its lines once, its money and its docket only where its lines
\* are, and none of it before Square has the money; a round that says where it went
\* is there whole.  Two tabs may come back at once, staff may close the bill under
\* the round, and a request may die between any two steps.
RoundOnce ==
    \A g \in Rounds :
        /\ Sum([t \in Tabs |-> tab[t].lines[g]]) <= (IF square[g] = "COMPLETED" THEN 1 ELSE 0)
        /\ \A t \in Tabs : tab[t].fired[g] <= tab[t].money[g] /\ tab[t].money[g] <= tab[t].lines[g]
        /\ round[g].posOrder \in Tabs => tab[round[g].posOrder].fired[g] = 1
=============================================================================
