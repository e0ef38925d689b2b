------------------------------ MODULE PosTerminal ------------------------------
(***************************************************************************)
(* Card payments and refunds on a Square terminal, for the bills of        *)
(* PosBill: a request puts a charge or a refund on the terminal, polls ask *)
(* Square how it went, and the first that hears "completed" books it.      *)
(*                                                                         *)
(* The code is services/pos-terminal.service.ts.  The two tables           *)
(* PosTerminalCheckout and PosTerminalRefund mirror each other and are one *)
(* variable here; a payment row a terminal leads to carries the row's id   *)
(* as its ref.                                                             *)
(***************************************************************************)
EXTENDS PosBill

VARIABLES
    attempt,   \* the PosTerminalCheckout and PosTerminalRefund rows, one per ref
    square,    \* what Square knows of each
    heard      \* what a handler last read or heard of the status, and the card it refunds

terminalVars == <<attempt, square, heard>>
allVars == <<vars, terminalVars>>

-----------------------------------------------------------------------------
(* Types *)

Statuses == {"PENDING", "IN_PROGRESS", "CANCEL_REQUESTED", "COMPLETED", "CANCELED"}

\* Square's own vocabulary for a terminal that has finished with a card.
TERMINAL_DONE == {"COMPLETED", "CANCELED"}

Kinds == {"none", "charge", "refund"}

\* latch is paymentId (refundPaymentId): null, 'PENDING' or the payment's id;
\* failed is failureReason on a completed row; of is squarePaymentId, the
\* charge that a refund returns.
AttemptRecord ==
    [kind : Kinds, bill : Bills \cup {NoBill}, amt : Nat, tip : Nat, status : Statuses,
     latch : {"open", "claimed", "paid"}, failed : BOOLEAN, of : Refs \cup {NoRef}]

\* amt is what the terminal shows; tip is what the guest adds on it, asked for
\* only if the register has not keyed one in.
SquareRecord ==
    [kind : Kinds, status : Statuses, bill : Bills \cup {NoBill}, amt : Nat, asks : BOOLEAN,
     tip : Nat, of : Refs \cup {NoRef}]

\* "Amount must be at least 1c."
TerminalTypeOK ==
    /\ TypeOK
    /\ \A k \in Refs : attempt[k].kind # "none" => attempt[k].amt >= 1
    /\ attempt \in [Refs -> AttemptRecord]
    /\ square \in [Refs -> SquareRecord]
    /\ heard \in [Tills -> [status : Statuses, of : Refs \cup {NoRef}]]

NoAttempt ==
    [kind |-> "none", bill |-> NoBill, amt |-> 0, tip |-> 0, status |-> "PENDING",
     latch |-> "open", failed |-> FALSE, of |-> NoRef]

NotOnSquare ==
    [kind |-> "none", status |-> "PENDING", bill |-> NoBill, amt |-> 0, asks |-> FALSE,
     tip |-> 0, of |-> NoRef]

TerminalInit ==
    /\ Init
    /\ attempt = [k \in Refs |-> NoAttempt]
    /\ square = [k \in Refs |-> NotOnSquare]
    /\ heard = [p \in Tills |-> [status |-> "PENDING", of |-> NoRef]]

-----------------------------------------------------------------------------
(* Helpers *)

K(p) == proc[p].ref
KindOf(p) == IF proc[p].method = "REFUND" THEN "refund" ELSE "charge"

\* An id that is nobody's yet.
Fresh(k) == square[k].kind = "none" /\ \A p \in Tills : K(p) # k

Hears(p, status) == heard' = [heard EXCEPT ![p].status = status]

Rows(kind, b, statuses) ==
    {k \in Refs : attempt[k].kind = kind /\ attempt[k].bill = b /\ attempt[k].status \in statuses}

\* What is in flight for a handler that looks for it.
InFlight(kind, b) ==
    Rows(kind, b, {"PENDING", "IN_PROGRESS"} \cup IF kind = "charge" THEN {"CANCEL_REQUESTED"} ELSE {})

-----------------------------------------------------------------------------
(* startCheckout *)

\* A charge of nothing.
StartCheckoutUnchecked(p, b, k, want, tip) ==
    LET balance == bill[b].total - Paid(Of(b))
        amount == IF want = 0 THEN balance ELSE want
    IN  /\ Idle(p)
        /\ Fresh(k)
        /\ bill[b].status = "OPEN" /\ HasLines(b)
        /\ amount >= 0 /\ amount <= balance
        /\ proc' = [proc EXCEPT ![p] =
              [IdleProc EXCEPT !.at = "inFlight", !.b = b, !.ref = k, !.method = "SQUARE_TERMINAL",
                               !.amt = amount, !.tip = tip]]
        /\ UNCHANGED <<billVars, terminalVars>>

StartCheckout(p, b, k, want, tip) ==
    LET balance == bill[b].total - Paid(Of(b))
        amount == IF want = 0 THEN balance ELSE want
    IN  /\ Idle(p)
        /\ Fresh(k)
        /\ bill[b].status = "OPEN" /\ HasLines(b)
        /\ amount >= 1 /\ amount <= balance
        /\ proc' = [proc EXCEPT ![p] =
              [IdleProc EXCEPT !.at = "inFlight", !.b = b, !.ref = k, !.method = "SQUARE_TERMINAL",
                               !.amt = amount, !.tip = tip]]
        /\ UNCHANGED <<billVars, terminalVars>>

\* refundableCards: the terminal charges booked on the bill and what is left of
\* each, counting the refunds that a terminal has completed.
Refundable(b, k) ==
    SumFunctionOnSet([r \in Of(b) |-> r.amt + r.tip],
                     {r \in Of(b) : r.method = "SQUARE_TERMINAL" /\ r.amt > 0 /\ r.ref = k})
    - SumFunctionOnSet([j \in Refs |-> attempt[j].amt],
                       {j \in Rows("refund", b, Statuses) : attempt[j].of = k /\ attempt[j].latch # "open"})

StartRefund(p, b, k, of, want) ==
    LET amount == IF want = 0 THEN Refundable(b, of) ELSE want
    IN  /\ Idle(p)
        /\ Fresh(k) /\ of # k
        /\ bill[b].status = "PAID"
        /\ amount >= 1 /\ amount <= Refundable(b, of)
        /\ proc' = [proc EXCEPT ![p] =
              [IdleProc EXCEPT !.at = "inFlight", !.b = b, !.ref = k, !.method = "REFUND",
                               !.amt = amount]]
        /\ heard' = [heard EXCEPT ![p].of = of]
        /\ UNCHANGED <<billVars, attempt, square>>

\* Only one at a time, says the code; the row is written after Square's answer.
LookInFlight(p) ==
    /\ At(p, "inFlight")
    /\ IF InFlight(KindOf(p), B(p)) # {} THEN Throw(p) ELSE Goto(p, "toSquare")
    /\ UNCHANGED <<billVars, terminalVars>>

\* What Square has promised to give back of a charge, or has given back.
Returned(k) ==
    SumFunctionOnSet([j \in Refs |-> square[j].amt],
                     {j \in Refs : square[j].kind = "refund" /\ square[j].of = k
                                   /\ square[j].status # "CANCELED"})

\* Square refuses to give back more than it took.
ToSquare(p) ==
    LET of == heard[p].of
        isCharge == KindOf(p) = "charge"
    IN  /\ At(p, "toSquare")
        /\ IF isCharge \/ Returned(of) + proc[p].amt <= square[of].amt + square[of].tip
           THEN /\ square' = [square EXCEPT ![K(p)] =
                      [NotOnSquare EXCEPT !.kind = KindOf(p), !.bill = B(p),
                                          !.amt = proc[p].amt + proc[p].tip,
                                          !.asks = (isCharge /\ proc[p].tip = 0),
                                          !.of = IF isCharge THEN NoRef ELSE of]]
                /\ Goto(p, "row")
           ELSE Throw(p) /\ UNCHANGED square
        /\ UNCHANGED <<billVars, attempt, heard>>

WriteRow(p) ==
    /\ At(p, "row")
    /\ attempt' = [attempt EXCEPT ![K(p)] =
          [NoAttempt EXCEPT !.kind = KindOf(p), !.bill = B(p), !.amt = proc[p].amt,
                            !.tip = proc[p].tip, !.of = square[K(p)].of]]
    /\ Return(p)
    /\ UNCHANGED <<billVars, square, heard>>

-----------------------------------------------------------------------------
(* pollCheckout and pollRefund *)

\* A row whose latch is shut is answered for, one that was cancelled too.
Pollable(k) ==
    /\ attempt[k].kind # "none"
    /\ attempt[k].latch = "open"
    /\ attempt[k].status # "CANCELED"

PollOf(k) ==
    [IdleProc EXCEPT !.at = "ask", !.b = attempt[k].bill, !.ref = k,
                     !.method = IF attempt[k].kind = "refund" THEN "REFUND" ELSE "SQUARE_TERMINAL"]

Poll(p, k) ==
    /\ Idle(p)
    /\ Pollable(k)
    /\ proc' = [proc EXCEPT ![p] = PollOf(k)]
    /\ Hears(p, attempt[k].status)
    /\ UNCHANGED <<billVars, attempt, square>>

\* A terminal that is done, one way or the other, is paid.
AskSquareIfDone(p) ==
    LET status == square[K(p)].status
    IN  /\ At(p, "ask")
        /\ Hears(p, status)
        /\ \/ /\ status \in TERMINAL_DONE
              /\ Goto(p, "claim")
           \/ /\ status \notin TERMINAL_DONE /\ status # heard[p].status
              /\ Goto(p, "writeStatus")
           \/ /\ status \notin TERMINAL_DONE /\ status = heard[p].status
              /\ Return(p)
        /\ UNCHANGED <<billVars, attempt, square>>

\* A terminal that is not done is worth a write if its status is news.
AskSquare(p) ==
    LET status == square[K(p)].status
    IN  /\ At(p, "ask")
        /\ Hears(p, status)
        /\ \/ /\ status = "COMPLETED"
              /\ Goto(p, "claim")
           \/ /\ status = "CANCELED" \/ (status \notin TERMINAL_DONE /\ status # heard[p].status)
              /\ Goto(p, "writeStatus")
           \/ /\ status \notin TERMINAL_DONE /\ status = heard[p].status
              /\ Return(p)
        /\ UNCHANGED <<billVars, attempt, square>>

\* Whatever the row has become.
WriteStatus(p) ==
    /\ At(p, "writeStatus")
    /\ attempt' = [attempt EXCEPT ![K(p)].status = heard[p].status]
    /\ Return(p)
    /\ UNCHANGED <<billVars, square, heard>>

\* A claim that takes a row somebody else has taken.
ClaimAlways(p) ==
    /\ At(p, "claim")
    /\ attempt' = [attempt EXCEPT ![K(p)].status = "COMPLETED", ![K(p)].latch = "claimed"]
    /\ Goto(p, "book")
    /\ UNCHANGED <<billVars, square, heard>>

\* The conditional update is the lock.
Claim(p) ==
    /\ At(p, "claim")
    /\ IF attempt[K(p)].latch = "open"
       THEN /\ attempt' = [attempt EXCEPT ![K(p)].status = "COMPLETED", ![K(p)].latch = "claimed"]
            /\ Goto(p, "book")
       ELSE Return(p) /\ UNCHANGED attempt
    /\ UNCHANGED <<billVars, square, heard>>

\* The tip is Square's to know; when it cannot be asked it stays as keyed.
TipsOf(k) ==
    {attempt[k].tip} \cup IF square[k].asks THEN {square[k].tip} ELSE {}

\* payOrder for a charge, applyRefund for a refund.
Book(p) ==
    LET k == K(p)
        q == [IdleProc EXCEPT !.b = attempt[k].bill, !.ref = k, !.method = proc[p].method,
                              !.want = attempt[k].amt, !.then = "booked", !.catch = "notBooked"]
    IN  /\ At(p, "book")
        /\ \E tip \in TipsOf(k) :
              proc' = [proc EXCEPT ![p] =
                 IF attempt[k].kind = "refund" THEN TakeRefund(q) ELSE TakePayment([q EXCEPT !.tip = tip])]
        /\ UNCHANGED <<billVars, terminalVars>>

Booked(p) ==
    /\ At(p, "booked")
    /\ attempt' = [attempt EXCEPT ![K(p)].latch = "paid", ![K(p)].tip = proc[p].tip]
    /\ proc' = [proc EXCEPT ![p] = IdleProc]
    /\ UNCHANGED <<billVars, square, heard>>

\* A booking that fails and leaves no trace.
NotBookedQuietly(p) ==
    /\ At(p, "notBooked")
    /\ proc' = [proc EXCEPT ![p] = IdleProc]
    /\ UNCHANGED <<billVars, attempt, square, heard>>

\* The latch stays shut and the reason is written down.
NotBooked(p) ==
    /\ At(p, "notBooked")
    /\ attempt' = [attempt EXCEPT ![K(p)].failed = TRUE]
    /\ proc' = [proc EXCEPT ![p] = IdleProc]
    /\ UNCHANGED <<billVars, square, heard>>

-----------------------------------------------------------------------------
(* cancelCheckout *)

CancelCheckout(p, k) ==
    /\ Idle(p)
    /\ attempt[k].kind = "charge"
    /\ attempt[k].latch = "open"
    /\ proc' = [proc EXCEPT ![p] = [PollOf(k) EXCEPT !.at = "cancel"]]
    /\ UNCHANGED <<billVars, terminalVars>>

\* Square cancels before the card is presented, at once or by way of the
\* terminal; when it refuses, the row is polled.
CancelOnSquare(p) ==
    LET k == K(p)
    IN  /\ At(p, "cancel")
        /\ \/ \E status \in {"CANCEL_REQUESTED", "CANCELED"} :
                 /\ square[k].status \in {"PENDING", "IN_PROGRESS"}
                 /\ square' = [square EXCEPT ![k].status = status]
                 /\ Hears(p, status)
                 /\ Goto(p, "writeStatus")
           \/ /\ Pollable(k)
              /\ Hears(p, attempt[k].status)
              /\ Goto(p, "ask")
              /\ UNCHANGED square
           \/ /\ ~Pollable(k)
              /\ Throw(p)
              /\ UNCHANGED <<square, heard>>
        /\ UNCHANGED <<billVars, attempt>>

-----------------------------------------------------------------------------
(* The terminal and the guest *)

OnTerminal(k) == square[k].kind # "none" /\ square[k].status \notin TERMINAL_DONE

CardPresented(k) ==
    /\ square[k].kind # "none" /\ square[k].status = "PENDING"
    /\ square' = [square EXCEPT ![k].status = "IN_PROGRESS"]
    /\ UNCHANGED <<vars, attempt, heard>>

Completes(k, tip) ==
    /\ OnTerminal(k)
    /\ square[k].asks \/ tip = 0
    /\ square' = [square EXCEPT ![k].status = "COMPLETED", ![k].tip = tip]
    /\ UNCHANGED <<vars, attempt, heard>>

IsCanceled(k) ==
    /\ OnTerminal(k)
    /\ square' = [square EXCEPT ![k].status = "CANCELED"]
    /\ UNCHANGED <<vars, attempt, heard>>

-----------------------------------------------------------------------------
(* The specification *)

CrashTerminal(p) == Crash(p) /\ UNCHANGED terminalVars

TillStep == Step /\ UNCHANGED terminalVars

TerminalRequest(p) ==
    \E k \in Refs :
       \/ \E b \in Bills, want \in 0..MaxGoods :
             \/ \E tip \in 0..MaxTip : StartCheckout(p, b, k, want, tip)
             \/ \E of \in Refs : StartRefund(p, b, k, of, want)
       \/ Poll(p, k)
       \/ CancelCheckout(p, k)

TerminalStep(p) ==
    \/ LookInFlight(p)
    \/ ToSquare(p)
    \/ WriteRow(p)
    \/ AskSquare(p)
    \/ WriteStatus(p)
    \/ Claim(p)
    \/ Book(p)
    \/ Booked(p)
    \/ NotBooked(p)
    \/ CancelOnSquare(p)

Outside ==
    \E k \in Refs :
       \/ CardPresented(k)
       \/ \E tip \in 0..MaxTip : Completes(k, tip)
       \/ IsCanceled(k)

TerminalNext ==
    \/ TillStep
    \/ \E p \in Tills : TerminalRequest(p) \/ TerminalStep(p)
    \/ Outside

\* Nothing fails half way.
TerminalSpec == TerminalInit /\ [][TerminalNext]_allVars

CrashingTerminalSpec ==
    TerminalInit /\ [][TerminalNext \/ \E p \in Tills : CrashTerminal(p)]_allVars

-----------------------------------------------------------------------------
(* Properties *)

RowsFor(k) == {r \in pays : r.ref = k}

\* pollCheckout: "two polls racing each other can only produce one payment":
\* whatever polls, cancellations and crashes there are, a charge or a refund
\* of a terminal is on the books at most once.
BookedOnce == \A k \in Refs : Cardinality(RowsFor(k)) <= 1

\* "The books move only once Square says": every row that a terminal led to
\* stands for a card that Square has finished with, whatever polls, crashes and
\* cancellations come in between.
BookedMeansDone ==
    \A k \in Refs : (\E r \in RowsFor(k) : r.method # "ONLINE") => square[k].status = "COMPLETED"

\* "This needs a human, not a retry": a latch that was shut has a payment
\* behind it or a reason written down, once its handler is done.
ChargeIsLoud ==
    AllIdle => \A k \in Refs :
        attempt[k].latch # "open" => RowsFor(k) # {} \/ attempt[k].failed

-----------------------------------------------------------------------------
(* What a message of the code promises and an interleaving breaks *)

\* "This bill already has a card on a terminal. Finish or cancel it first.": a
\* charge that blocks the next one can be polled or cancelled.
FinishOrCancel ==
    AllIdle => \A b \in Bills : \A k \in InFlight("charge", b) : attempt[k].latch = "open"
=============================================================================
