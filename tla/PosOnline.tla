------------------------------- MODULE PosOnline -------------------------------
(***************************************************************************)
(* Paying a bill of PosBill from the guest's phone: payIntent opens a      *)
(* Stripe Checkout session for what is owing now, payConfirm records it    *)
(* when the guest comes back, as often as the page is loaded.              *)
(*                                                                         *)
(* The code is services/qr-order.service.ts; a session and its payment     *)
(* intent are one ref.                                                     *)
(***************************************************************************)
EXTENDS PosBill

VARIABLES
    session,     \* the Checkout sessions, with the metadata the code puts there
    confirmed    \* sessions that payConfirm has answered ok for

onlineVars == <<session, confirmed>>
onlineAllVars == <<vars, onlineVars>>

SessionRecord ==
    [status : {"none", "open", "paid"}, bill : Bills \cup {NoBill}, received : Nat, tip : 0..MaxTip]

\* A session that exists is for an amount.
OnlineTypeOK ==
    /\ TypeOK
    /\ session \in [Refs -> SessionRecord]
    /\ confirmed \subseteq Refs
    /\ \A k \in Refs : session[k].status # "none" => session[k].received > session[k].tip

OnlineInit ==
    /\ Init
    /\ session = [k \in Refs |-> [status |-> "none", bill |-> NoBill, received |-> 0, tip |-> 0]]
    /\ confirmed = {}

Balance(b) == bill[b].total - Paid(Of(b))

-----------------------------------------------------------------------------
(* payIntent: read the bill, open the session.  The balance is remembered  *)
(* as want.                                                                *)

\* A session for a bill that owes nothing.
PayIntentUnchecked(p, b, k, tip) ==
    /\ Idle(p)
    /\ session[k].status = "none" /\ \A q \in Tills : proc[q].ref # k
    /\ bill[b].status = "OPEN" /\ HasLines(b) /\ Balance(b) >= 0
    /\ proc' = [proc EXCEPT ![p] =
          [IdleProc EXCEPT !.at = "session", !.b = b, !.ref = k, !.want = Balance(b), !.tip = tip]]
    /\ UNCHANGED <<billVars, onlineVars>>

PayIntent(p, b, k, tip) ==
    /\ Idle(p)
    /\ session[k].status = "none" /\ \A q \in Tills : proc[q].ref # k
    /\ bill[b].status = "OPEN" /\ HasLines(b) /\ Balance(b) > 0
    /\ proc' = [proc EXCEPT ![p] =
          [IdleProc EXCEPT !.at = "session", !.b = b, !.ref = k, !.want = Balance(b), !.tip = tip]]
    /\ UNCHANGED <<billVars, onlineVars>>

CreateSession(p) ==
    /\ At(p, "session")
    /\ session' = [session EXCEPT ![proc[p].ref] =
          [status |-> "open", bill |-> B(p), received |-> proc[p].want + proc[p].tip, tip |-> proc[p].tip]]
    /\ Return(p)
    /\ UNCHANGED <<billVars, confirmed>>

GuestPays(k) ==
    /\ session[k].status = "open"
    /\ session' = [session EXCEPT ![k].status = "paid"]
    /\ UNCHANGED <<vars, confirmed>>

-----------------------------------------------------------------------------
(* payConfirm *)

\* Whatever Stripe says of the session.
PayConfirmUnverified(p, k) ==
    /\ Idle(p)
    /\ session[k].status # "none"
    /\ proc' = [proc EXCEPT ![p] =
          [IdleProc EXCEPT !.at = "existing", !.b = session[k].bill, !.ref = k, !.method = "ONLINE"]]
    /\ UNCHANGED <<billVars, onlineVars>>

PayConfirm(p, k) ==
    /\ Idle(p)
    /\ session[k].status = "paid"
    /\ proc' = [proc EXCEPT ![p] =
          [IdleProc EXCEPT !.at = "existing", !.b = session[k].bill, !.ref = k, !.method = "ONLINE"]]
    /\ UNCHANGED <<billVars, onlineVars>>

AnswerOk(p) == confirmed' = confirmed \cup {proc[p].ref}

\* Recorded on this bill already?
LookForExisting(p) ==
    /\ At(p, "existing")
    /\ IF \E r \in Of(B(p)) : r.ref = proc[p].ref
       THEN AnswerOk(p) /\ Return(p)
       ELSE Goto(p, "confirm") /\ UNCHANGED confirmed
    /\ UNCHANGED <<billVars, session>>

\* Everything beyond the balance is tip, but a payment is at least one unit.
AmountOf(balance, received, tip) == Max({1, Min({balance, received - tip})})

Decided(p) ==
    LET s == session[proc[p].ref]
    IN  /\ At(p, "confirm")
        /\ IF bill[B(p)].status # "OPEN"
           THEN AnswerOk(p) /\ Return(p)
           ELSE /\ LET amount == AmountOf(Balance(B(p)), s.received, s.tip)
                   IN  proc' = [proc EXCEPT ![p].at = "pay", ![p].want = amount,
                                            ![p].tip = s.received - amount]
                /\ UNCHANGED confirmed
        /\ UNCHANGED <<billVars, session>>

\* payOrder reads the bill again.
Pay(p) ==
    /\ At(p, "pay")
    /\ proc' = [proc EXCEPT ![p] = TakePayment([@ EXCEPT !.then = "paid"])]
    /\ UNCHANGED <<billVars, onlineVars>>

PaidOk(p) ==
    /\ At(p, "paid")
    /\ AnswerOk(p)
    /\ proc' = [proc EXCEPT ![p] = IdleProc]
    /\ UNCHANGED <<billVars, session>>

-----------------------------------------------------------------------------
(* The specification *)

OnlineStep(p) ==
    \/ \E k \in Refs :
          \/ \E b \in Bills, tip \in 0..MaxTip : PayIntent(p, b, k, tip)
          \/ PayConfirm(p, k)
    \/ CreateSession(p)
    \/ LookForExisting(p)
    \/ Decided(p)
    \/ Pay(p)
    \/ PaidOk(p)

OnlineNext ==
    \/ Step /\ UNCHANGED onlineVars
    \/ \E p \in Tills : OnlineStep(p)
    \/ \E k \in Refs : GuestPays(k)

\* Nothing fails half way.
OnlineSpec == OnlineInit /\ [][OnlineNext]_onlineAllVars

CrashingOnlineSpec ==
    OnlineInit /\ [][OnlineNext \/ \E p \in Tills : Crash(p) /\ UNCHANGED onlineVars]_onlineAllVars

-----------------------------------------------------------------------------
(* Properties *)

OnlineMeansPaid ==
    \A r \in pays : r.method = "ONLINE" =>
        session[r.ref].status = "paid" /\ r.amt + r.tip = session[r.ref].received

RecordedOnce == \A k \in Refs : Cardinality({r \in pays : r.ref = k}) <= 1

\* payConfirm: "verify the session with Stripe and record the payment.
\* Idempotent on the payment-intent id": an online payment on a bill was made,
\* and all of it is there, tip included and once, however the bill has shrunk or
\* grown since the session was opened.
RecordedAsPaid == OnlineMeansPaid /\ RecordedOnce

\* "So the money is never lost or double-applied": what the guest was told is
\* paid is on a bill.
NeverLost == \A k \in confirmed : \E r \in pays : r.ref = k
=============================================================================
