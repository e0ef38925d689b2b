---------------------------- MODULE GiftCardProofs ----------------------------
(***************************************************************************)
(* Theorems about GiftCard, for any number of cards, requests, sweeps and  *)
(* drains: types and values, the promise of GiftCardLedger, and that a     *)
(* card is live only when Stripe holds its money and gets one receipt,     *)
(* whatever number of webhooks, polls and sweeps learn of the payment.     *)
(***************************************************************************)
EXTENDS GiftCard, FiniteSetTheorems, TLAPS

-----------------------------------------------------------------------------
(* Type correctness.  First what the three ways to move a handler do.      *)

LEMMA GotoType ==
    ASSUME ProcsOK, NEW p \in Procs, NEW where \in PC, NEW arg \in Arg,
           C(p) \in Cards, Goto(p, where, arg)
    PROVE  ProcsOK'
BY DEF ProcsOK, ProcRecord, C, Goto

LEMMA BeginType ==
    ASSUME ProcsOK, NEW p \in Procs, NEW where \in PC, NEW arg \in Arg, NEW c \in Cards,
           Begin(p, where, c, arg)
    PROVE  ProcsOK'
BY DEF ProcsOK, ProcRecord, Begin, IdleProc

LEMMA ReturnType ==
    ASSUME ProcsOK, NEW p \in Procs, Return(p)
    PROVE  ProcsOK'
<1> DEFINE next == CASE p \in Sweepers -> "sweepNext" [] p \in Drainers -> "drainNext" [] OTHER -> "idle"
<1>1. next \in {"sweepNext", "drainNext", "idle"}
  OBVIOUS
<1>2. next \in PC
  BY <1>1 DEF PC
<1>3. "-" \in Arg
  BY DEF Arg
<1> HIDE DEF next
<1>4. proc' = [proc EXCEPT ![p] = [IdleProc EXCEPT !.todo = proc[p].todo, !.at = next]]
  BY DEF Return, next
<1> QED BY <1>1, <1>2, <1>3, <1>4 DEF ProcsOK, ProcRecord, IdleProc

LEMMA IdleType ==
    ASSUME ProcsOK, NEW p \in Procs, proc' = [proc EXCEPT ![p] = IdleProc]
    PROVE  ProcsOK'
<1>1. "idle" \in PC /\ "-" \in Arg
  BY DEF PC, Arg
<1> QED BY <1>1 DEF ProcsOK, ProcRecord, IdleProc

\* A handler that is not between two cards has one.
LEMMA HasCard ==
    ASSUME TypeOK, NEW p \in Procs,
           proc[p].at \notin {"idle", "sweepList", "sweepNext", "drainNext"}
    PROVE  C(p) \in Cards
BY DEF TypeOK, ProcsOK, C

\* The steps that write the tables keep their types.
LEMMA TablesHandler ==
    ASSUME TypeOK, NEW p \in Procs, HandlerStep(p)
    PROVE  TablesOK'
<1> USE DEF TypeOK, TablesOK, CardRecord
<1>1. ASSUME NEW s \in BOOLEAN, CreateCard(p, s) PROVE TablesOK'
  <2>1. C(p) \in Cards
    BY <1>1, HasCard DEF CreateCard, At
  <2> DEFINE promo == proc[p].arg = "promo"
  <2>2. /\ Sold(C(p), promo, s) \in CardRecord
        /\ SoldInTest(C(p), promo, s) \in CardRecord
    BY GiftCardAssumption DEF Sold, SoldInTest, Unsold, Status, Note, Tender
  <2> HIDE DEF promo, CardRecord
  <2>3. \/ card' = card
        \/ card' = [card EXCEPT ![C(p)] = Sold(C(p), promo, s)]
        \/ card' = [card EXCEPT ![C(p)] = SoldInTest(C(p), promo, s)]
    BY <1>1 DEF CreateCard, promo
  <2>4. card' \in [Cards -> CardRecord]
    BY <2>1, <2>2, <2>3
  <2> QED BY <1>1, <2>4 DEF CreateCard
<1>2. CASE SaveSession(p)
  <2>1. C(p) \in Cards
    BY <1>2, HasCard DEF SaveSession, At
  <2> QED BY <1>2, <2>1 DEF SaveSession
<1>3. CASE FlagForRefund(p)
  <2>1. C(p) \in Cards
    BY <1>3, HasCard DEF FlagForRefund, At
  <2> QED BY <1>3, <2>1 DEF FlagForRefund, Note
<1>4. CASE Claim(p)
  <2>1. C(p) \in Cards
    BY <1>4, HasCard DEF Claim, At
  <2>2. ASSUME NEW n \in Note
        PROVE  [card[C(p)] EXCEPT !.status = "ACTIVE", !.bal = FaceValue, !.paid = TRUE,
                                  !.sess = TRUE, !.note = n] \in CardRecord
    BY <2>1, GiftCardAssumption DEF Status, Note
  <2>3. card[C(p)].note \in Note /\ "other" \in Note
    BY <2>1 DEF Note
  <2> HIDE DEF CardRecord
  <2>4. card' \in [Cards -> CardRecord]
    BY <1>4, <2>1, <2>2, <2>3 DEF Claim
  <2> QED BY <1>4, <2>4 DEF Claim
<1>5. CASE IssueReceipt(p)
  <2>1. C(p) \in Cards
    BY <1>5, HasCard DEF IssueReceipt, At
  <2> QED BY <1>5, <2>1 DEF IssueReceipt, AtMostTwo
<1>6. CASE Close(p)
  <2>1. C(p) \in Cards
    BY <1>6, HasCard DEF Close, At
  <2> QED BY <1>6, <2>1 DEF Close, Status, Note
<1>7. CASE RedeemWrite(p)
  <2>1. C(p) \in Cards
    BY <1>7, HasCard DEF RedeemWrite, At
  <2>2. proc[p].amt \in Nat
    BY DEF ProcsOK, ProcRecord
  <2> QED BY <1>7, <2>1, <2>2 DEF RedeemWrite, Status
<1>8. CASE CancelWrite(p)
  <2>1. C(p) \in Cards
    BY <1>8, HasCard DEF CancelWrite, At
  <2> QED BY <1>8, <2>1 DEF CancelWrite, Status, Note
<1>9. CASE ResendReset(p)
  <2>1. C(p) \in Cards
    BY <1>9, HasCard DEF ResendReset, At
  <2> QED BY <1>9, <2>1 DEF ResendReset
<1>10. CASE Send(p)
  <2>1. C(p) \in Cards
    BY <1>10, HasCard DEF Send, At
  <2> QED BY <1>10, <2>1 DEF Send, AtMostTwo
<1>11. CASE MarkSent(p)
  <2>1. C(p) \in Cards
    BY <1>11, HasCard DEF MarkSent, At
  <2> QED BY <1>11, <2>1 DEF MarkSent
<1>12. CASE CloseAbandoned(p)
  <2>1. C(p) \in Cards
    BY <1>12, HasCard DEF CloseAbandoned, At
  <2> QED BY <1>12, <2>1 DEF CloseAbandoned, Status
<1>13. CASE UNCHANGED dbVars
  BY <1>13 DEF dbVars
<1> QED
  BY <1>1, <1>2, <1>3, <1>4, <1>5, <1>6, <1>7, <1>8, <1>9, <1>10, <1>11, <1>12, <1>13
  DEF HandlerStep, CheckoutStep, PaymentStep, CardStep, SweepStep, CreateSession, Retrieve,
      RetrieveFails, HandleRead, Reread, DisregardRead, SweepList, SweepNext, DrainNext, JobEnds

\* Only createSession touches the world outside the database.
LEMMA WorldHandler ==
    ASSUME TypeOK, NEW p \in Procs, HandlerStep(p)
    PROVE  WorldOK'
<1>1. CASE CreateSession(p)
  <2>1. C(p) \in Cards
    BY <1>1, HasCard DEF CreateSession, At
  <2> QED BY <1>1, <2>1 DEF CreateSession, TypeOK, WorldOK, SessionState
<1>2. CASE UNCHANGED envVars
  BY <1>2 DEF envVars, TypeOK, WorldOK
<1> QED
  BY <1>1, <1>2
  DEF HandlerStep, CheckoutStep, PaymentStep, CardStep, SweepStep, CreateCard, SaveSession,
      Retrieve, RetrieveFails, HandleRead, FlagForRefund, Claim, Reread, IssueReceipt,
      DisregardRead, Close, RedeemWrite, CancelWrite, ResendReset, Send, MarkSent, SweepList,
      CloseAbandoned, SweepNext, DrainNext, JobEnds

\* Every handler step moves its handler by Goto or Return, or within a job.
LEMMA ProcsHandler ==
    ASSUME TypeOK, NEW p \in Procs, HandlerStep(p)
    PROVE  ProcsOK'
<1> USE DEF TypeOK
<1>1. ASSUME Return(p) PROVE ProcsOK'
  BY <1>1, ReturnType
<1>2. ASSUME NEW where \in PC, NEW arg \in Arg, Goto(p, where, arg), ~Idle(p),
             proc[p].at \notin {"sweepList", "sweepNext", "drainNext"}
      PROVE  ProcsOK'
  BY <1>2, GotoType, HasCard DEF Idle, At
<1>3. CASE CheckoutStep(p)
  <2>1. ASSUME NEW s \in BOOLEAN, CreateCard(p, s)
        PROVE Return(p) \/ Goto(p, "send", "unsent") \/ Goto(p, "createSession", "-")
    BY <2>1 DEF CreateCard
  <2>2. ASSUME NEW s \in BOOLEAN, CreateCard(p, s) PROVE ProcsOK'
    BY <2>1, <2>2, <1>1, <1>2 DEF CreateCard, At, Idle, PC, Arg
  <2>3. CASE CreateSession(p)
    BY <2>3, <1>2 DEF CreateSession, At, Idle, PC, Arg
  <2>4. CASE SaveSession(p)
    BY <2>4, <1>1 DEF SaveSession
  <2> QED BY <1>3, <2>2, <2>3, <2>4 DEF CheckoutStep
<1>4. CASE PaymentStep(p)
  <2>1. CASE Retrieve(p)
    BY <2>1, <1>1, <1>2 DEF Retrieve, Disposition, At, Idle, PC, Arg
  <2>2. CASE RetrieveFails(p)
    BY <2>2, <1>1 DEF RetrieveFails
  <2>3. CASE HandleRead(p)
    BY <2>3, <1>1, <1>2 DEF HandleRead, PaidAction, At, Idle, PC, Arg
  <2>4. CASE FlagForRefund(p)
    BY <2>4, <1>1 DEF FlagForRefund
  <2>5. CASE Claim(p)
    BY <2>5, <1>1, <1>2 DEF Claim, At, Idle, PC, Arg
  <2>6. CASE Reread(p)
    BY <2>6, <1>2 DEF Reread, At, Idle, PC, Arg
  <2>7. CASE IssueReceipt(p)
    BY <2>7, <1>1, <1>2 DEF IssueReceipt, At, Idle, PC, Arg
  <2>8. CASE DisregardRead(p)
    BY <2>8, <1>1, <1>2 DEF DisregardRead, At, Idle, PC, Arg
  <2>9. CASE Close(p)
    BY <2>9, <1>1 DEF Close
  <2> QED BY <1>4, <2>1, <2>2, <2>3, <2>4, <2>5, <2>6, <2>7, <2>8, <2>9 DEF PaymentStep
<1>5. CASE CardStep(p)
  BY <1>5, <1>1, <1>2
  DEF CardStep, RedeemWrite, CancelWrite, ResendReset, Send, MarkSent, At, Idle, PC, Arg
<1>6. CASE SweepStep(p)
  <2>1. CASE SweepList(p)
    <3>1. PICK batch \in SUBSET Stale :
             proc' = [proc EXCEPT ![p] = [IdleProc EXCEPT !.at = "sweepNext", !.todo = batch]]
      BY <2>1 DEF SweepList, Batches
    <3>2. batch \in SUBSET Cards
      BY DEF Stale
    <3>3. "sweepNext" \in PC /\ "-" \in Arg
      BY DEF PC, Arg
    <3> QED BY <3>1, <3>2, <3>3 DEF ProcsOK, ProcRecord, IdleProc
  <2>2. CASE CloseAbandoned(p)
    BY <2>2, <1>1 DEF CloseAbandoned
  <2>3. ASSUME NEW c \in Cards, SweepNext(p, c) PROVE ProcsOK'
    <3>1. /\ "retrieve" \in PC /\ "closeAbandoned" \in PC
          /\ proc[p].todo \ {c} \in SUBSET Cards
      BY DEF PC, ProcsOK, ProcRecord
    <3>2. PICK where \in {"retrieve", "closeAbandoned"} :
             proc' = [proc EXCEPT ![p] =
                [proc[p] EXCEPT !.at = where, !.card = c, !.todo = proc[p].todo \ {c}]]
      BY <2>3 DEF SweepNext
    <3> QED BY <3>1, <3>2 DEF ProcsOK, ProcRecord
  <2> QED BY <1>6, <2>1, <2>2, <2>3 DEF SweepStep
<1>7. ASSUME NEW c \in Cards, DrainNext(p, c) PROVE ProcsOK'
  BY <1>7 DEF DrainNext, ProcsOK, ProcRecord, PC, Arg
<1>8. CASE JobEnds(p)
  BY <1>8, IdleType DEF JobEnds
<1> QED BY <1>3, <1>4, <1>5, <1>6, <1>7, <1>8 DEF HandlerStep

LEMMA TypeRequestStarts ==
    ASSUME TypeOK, NEW p \in Requests, RequestStarts(p)
    PROVE  TypeOK'
<1> USE DEF TypeOK
<1>0. p \in Procs
  BY DEF Procs
<1>1. ASSUME NEW where \in PC, NEW arg \in Arg, NEW c \in Cards, Begin(p, where, c, arg)
      PROVE  ProcsOK'
  BY <1>0, <1>1, BeginType
<1>2. ASSUME NEW e \in events, Webhook(p, e) PROVE TypeOK'
  <2>1. e.card \in Cards /\ e.says \in {"paid", "paidOdd", "pending", "closed"}
    BY DEF WorldOK, Event
  <2>2. ProcsOK'
    BY <2>1, <1>1, <1>2 DEF Webhook, PC, Arg
  <2> QED BY <1>2, <2>2 DEF Webhook, dbVars, envVars, TablesOK, WorldOK
<1>3. ASSUME NEW c \in Cards, NEW promo \in BOOLEAN, StartCheckout(p, c, promo) PROVE TypeOK'
  <2>1. ProcsOK'
    BY <1>1, <1>3 DEF StartCheckout, PC, Arg
  <2> QED BY <1>3, <2>1 DEF StartCheckout, dbVars, envVars, TablesOK, WorldOK
<1>4. ASSUME NEW c \in Cards, NEW tender \in {"COUNTER", "COMP"}, NEW withEmail \in BOOLEAN,
             ActivatePhysicalCard(p, c, tender, withEmail)
      PROVE TypeOK'
  <2>1. ProcsOK'
    BY <1>1, <1>4 DEF ActivatePhysicalCard, PC, Arg, ProcsOK
  <2>2. card' \in [Cards -> CardRecord]
    BY <1>4, GiftCardAssumption
    DEF ActivatePhysicalCard, TablesOK, Unsold, CardRecord, Status, Note, Tender
  <2> QED BY <1>4, <2>1, <2>2 DEF ActivatePhysicalCard, envVars, TablesOK, WorldOK
<1>5. ASSUME NEW c \in Cards, NEW amount \in 1..FaceValue, RedeemStart(p, c, amount) PROVE TypeOK'
  <2>1. "redeemWrite" \in PC /\ "-" \in Arg /\ amount \in Nat
    BY GiftCardAssumption DEF PC, Arg
  <2>2. ProcsOK'
    BY <1>0, <1>5, <2>1 DEF RedeemStart, ProcsOK, ProcRecord, IdleProc
  <2> QED BY <1>5, <2>2 DEF RedeemStart, dbVars, envVars, TablesOK, WorldOK
<1>6. ASSUME NEW c \in Cards, Poll(p, c) \/ CancelStart(p, c) \/ ResendStart(p, c) PROVE TypeOK'
  <2>1. ProcsOK'
    BY <1>1, <1>6 DEF Poll, CancelStart, ResendStart, PC, Arg
  <2> QED
    BY <1>6, <2>1 DEF Poll, CancelStart, ResendStart, dbVars, envVars, TablesOK, WorldOK
<1> QED BY <1>2, <1>3, <1>4, <1>5, <1>6 DEF RequestStarts

LEMMA TypeJobStarts ==
    ASSUME TypeOK, NEW p \in Procs, SweepExpired(p) \/ DrainList(p) \/ Crash(p)
    PROVE  TypeOK'
<1> USE DEF TypeOK
<1>1. CASE SweepExpired(p)
  <2>1. "sweepList" \in PC /\ "-" \in Arg
    BY DEF PC, Arg
  <2>2. ProcsOK'
    BY <1>1, <2>1 DEF SweepExpired, Begin, ProcsOK, ProcRecord, IdleProc
  <2>3. card' \in [Cards -> CardRecord]
    BY <1>1 DEF SweepExpired, TablesOK, CardRecord, Status
  <2> QED BY <1>1, <2>2, <2>3 DEF SweepExpired, envVars, TablesOK, WorldOK
<1>2. CASE DrainList(p)
  <2>1. PICK batch \in SUBSET Due :
           proc' = [proc EXCEPT ![p] = [IdleProc EXCEPT !.at = "drainNext", !.todo = batch]]
    BY <1>2 DEF DrainList, Batches
  <2>2. ProcsOK'
    <3>1. "drainNext" \in PC /\ "-" \in Arg /\ batch \in SUBSET Cards
      BY DEF PC, Arg, Due
    <3> QED BY <2>1, <3>1 DEF ProcsOK, ProcRecord, IdleProc
  <2> QED BY <1>2, <2>2 DEF DrainList, dbVars, envVars, TablesOK, WorldOK
<1>3. CASE Crash(p)
  BY <1>3, IdleType DEF Crash, dbVars, envVars, TablesOK, WorldOK
<1> QED BY <1>1, <1>2, <1>3

LEMMA TypeEnvironment ==
    ASSUME TypeOK, NEW c \in Cards, Stripe(c) \/ \E d \in Deadline : DeadlinePasses(c, d)
    PROVE  TypeOK'
<1> USE DEF TypeOK
<1>1. ASSUME NEW s \in SessionState, NEW says \in {"paid", "paidOdd", "pending", "closed"},
             ses' = [ses EXCEPT ![c] = s], Emit(c, says), UNCHANGED <<dbVars, passed, proc>>
      PROVE  TypeOK'
  <2>1. WorldOK'
    BY <1>1 DEF WorldOK, Emit, Event
  <2> QED BY <1>1, <2>1 DEF dbVars, TablesOK, ProcsOK
<1>2. ASSUME NEW o \in PaidOutcomes, BuyerPays(c, o) \/ MoneyArrives(c, o) PROVE TypeOK'
  BY <1>1, <1>2, GiftCardAssumption DEF BuyerPays, MoneyArrives, SessionState
<1>3. CASE BuyerPaysLater(c)
  BY <1>1, <1>3 DEF BuyerPaysLater, SessionState
<1>4. CASE MoneyFails(c)
  BY <1>1, <1>4 DEF MoneyFails, SessionState
<1>5. CASE SessionExpires(c)
  BY <1>1, <1>5 DEF SessionExpires, SessionState
<1>6. ASSUME NEW d \in Deadline, DeadlinePasses(c, d) PROVE TypeOK'
  BY <1>6 DEF DeadlinePasses, dbVars, TablesOK, WorldOK, ProcsOK
<1> QED BY <1>2, <1>3, <1>4, <1>5, <1>6 DEF Stripe

LEMMA TypeStep == TypeOK /\ [Next]_vars => TypeOK'
<1> SUFFICES ASSUME TypeOK, [Next]_vars PROVE TypeOK'
  OBVIOUS
<1>1. ASSUME NEW p \in Procs, HandlerStep(p) PROVE TypeOK'
  BY <1>1, TablesHandler, WorldHandler, ProcsHandler DEF TypeOK
<1>2. ASSUME NEW p \in Procs, SweepExpired(p) \/ DrainList(p) \/ Crash(p) PROVE TypeOK'
  BY <1>2, TypeJobStarts
<1>3. CASE UNCHANGED vars
  BY <1>3 DEF vars, TypeOK, TablesOK, WorldOK, ProcsOK
<1> QED
  BY <1>1, <1>2, <1>3, TypeRequestStarts, TypeEnvironment DEF Next, Step, Procs

\* Every row, counter, session, event and handler keeps its type, whatever
\* number of cards and handlers there is.
THEOREM TypeCorrect == Spec => []TypeOK
<1>1. Init => TypeOK
  <2> SUFFICES ASSUME Init PROVE TypeOK
    OBVIOUS
  <2>1. Unsold \in CardRecord /\ ClosedTooEarly \in CardRecord
    BY DEF Unsold, ClosedTooEarly, CardRecord, Status, Note, Tender
  <2>2. TablesOK
    BY <2>1 DEF Init, TablesOK
  <2>3. WorldOK
    BY DEF Init, WorldOK, SessionState
  <2>4. "idle" \in PC /\ "-" \in Arg
    BY DEF PC, Arg
  <2>5. ProcsOK
    BY <2>4 DEF Init, ProcsOK, ProcRecord, IdleProc
  <2> QED BY <2>2, <2>3, <2>5 DEF TypeOK
<1> QED BY <1>1, TypeStep, PTL DEF Spec

-----------------------------------------------------------------------------
(* Who works on which card.  A checkout has its card to itself until it is *)
(* done; every other handler, listed card, event and session belongs to a  *)
(* card that was sold.                                                     *)

Resting == {"idle", "sweepList", "sweepNext", "drainNext"}

Busy(p) == proc[p].at \notin Resting

CheckingOut(p) == proc[p].at \in {"reserve", "createSession", "saveSession"}

SoldInv ==
    /\ \A p \in Procs : Busy(p) /\ proc[p].at # "reserve" => card[C(p)].status # "NONE"
    /\ \A p \in Procs : proc[p].at = "reserve" => card[C(p)].status = "NONE"
    /\ \A p \in Procs : \A c \in proc[p].todo : card[c].status # "NONE"
    /\ \A e \in events : card[e.card].status # "NONE"
    /\ \A c \in Cards : ses[c] # "none" => card[c].status # "NONE"
    /\ \A p, q \in Procs : CheckingOut(p) /\ CheckingOut(q) /\ C(p) = C(q) => p = q
    /\ \A c \in Cards : card[c].status = "NONE"
          => card[c].bal = 0 /\ ~card[c].paid /\ redeemed[c] = 0 /\ receipts[c] = 0

\* A handler moves alone, stays with its card or takes one from its list, and
\* reaches the steps of a checkout only one after the other.
LEMMA HandlerMoves ==
    ASSUME TypeOK, NEW p \in Procs, HandlerStep(p)
    PROVE  /\ \A q \in Procs \ {p} : proc'[q] = proc[q]
           /\ proc'[p].todo \subseteq proc[p].todo \cup Stale
           /\ proc'[p].at # "reserve"
           /\ \/ proc'[p].at \in Resting
              \/ Busy(p) /\ proc'[p].card = proc[p].card
              \/ proc'[p].card \in proc[p].todo /\ proc'[p].at \in {"retrieve", "closeAbandoned", "send"}
           /\ proc'[p].at = "createSession" => proc[p].at = "reserve" /\ proc'[p].card = proc[p].card
           /\ proc'[p].at = "saveSession" => proc[p].at = "createSession" /\ proc'[p].card = proc[p].card
<1> DEFINE Goal ==
           /\ \A q \in Procs \ {p} : proc'[q] = proc[q]
           /\ proc'[p].todo \subseteq proc[p].todo \cup Stale
           /\ proc'[p].at # "reserve"
           /\ \/ proc'[p].at \in Resting
              \/ Busy(p) /\ proc'[p].card = proc[p].card
              \/ proc'[p].card \in proc[p].todo /\ proc'[p].at \in {"retrieve", "closeAbandoned", "send"}
           /\ proc'[p].at = "createSession" => proc[p].at = "reserve" /\ proc'[p].card = proc[p].card
           /\ proc'[p].at = "saveSession" => proc[p].at = "createSession" /\ proc'[p].card = proc[p].card
<1> SUFFICES Goal
  OBVIOUS
<1>0. proc \in [Procs -> ProcRecord]
  BY DEF TypeOK, ProcsOK
<1>1. ASSUME Return(p) PROVE Goal
  <2>1. PICK where \in {"sweepNext", "drainNext", "idle"} :
           proc' = [proc EXCEPT ![p] = [IdleProc EXCEPT !.todo = proc[p].todo, !.at = where]]
    <3> DEFINE where == CASE p \in Sweepers -> "sweepNext" [] p \in Drainers -> "drainNext"
                          [] OTHER -> "idle"
    <3>1. where \in {"sweepNext", "drainNext", "idle"}
      OBVIOUS
    <3>2. proc' = [proc EXCEPT ![p] = [IdleProc EXCEPT !.todo = proc[p].todo, !.at = where]]
      BY <1>1 DEF Return
    <3> QED BY <3>1, <3>2
  <2> QED BY <1>0, <2>1 DEF IdleProc, ProcRecord, Resting
<1>2. ASSUME NEW where \in PC, NEW arg, Goto(p, where, arg), Busy(p), where # "reserve",
             where = "createSession" => proc[p].at = "reserve",
             where = "saveSession" => proc[p].at = "createSession"
      PROVE  Goal
  BY <1>0, <1>2 DEF Goto, ProcRecord
<1> HIDE DEF Goal
<1>3. CASE CheckoutStep(p)
  <2>1. ASSUME NEW s \in BOOLEAN, CreateCard(p, s) PROVE Goal
    <3>1. Return(p) \/ Goto(p, "send", "unsent") \/ Goto(p, "createSession", "-")
      BY <2>1 DEF CreateCard
    <3>2. proc[p].at = "reserve"
      BY <2>1 DEF CreateCard, At
    <3> QED BY <3>1, <3>2, <1>1, <1>2 DEF Busy, Resting, PC
  <2>2. CASE CreateSession(p)
    BY <2>2, <1>2 DEF CreateSession, At, Busy, Resting, PC
  <2>3. CASE SaveSession(p)
    BY <2>3, <1>1 DEF SaveSession
  <2> QED BY <1>3, <2>1, <2>2, <2>3 DEF CheckoutStep
<1>4. CASE PaymentStep(p)
  <2>1. Busy(p)
    BY <1>4 DEF PaymentStep, Retrieve, RetrieveFails, HandleRead, FlagForRefund, Claim, Reread,
                IssueReceipt, DisregardRead, Close, At, Busy, Resting
  <2>2. \/ Return(p)
        \/ \E where \in {"disregardRead", "handleRead", "claim", "flag", "reread", "issue",
                         "send", "close"}, arg \in {"-", "paid", "paidOdd", "activate", "recover",
                         "emailed", "unsent"} : Goto(p, where, arg)
    <3>1. CASE Retrieve(p)
      BY <3>1 DEF Retrieve, Disposition
    <3>2. CASE RetrieveFails(p) \/ FlagForRefund(p) \/ Close(p)
      BY <3>2 DEF RetrieveFails, FlagForRefund, Close
    <3>3. CASE HandleRead(p)
      BY <3>3 DEF HandleRead, PaidAction
    <3>4. CASE Claim(p)
      BY <3>4 DEF Claim
    <3>5. CASE Reread(p)
      BY <3>5 DEF Reread
    <3>6. CASE IssueReceipt(p)
      BY <3>6 DEF IssueReceipt
    <3>7. CASE DisregardRead(p)
      BY <3>7 DEF DisregardRead
    <3> QED BY <1>4, <3>1, <3>2, <3>3, <3>4, <3>5, <3>6, <3>7 DEF PaymentStep
  <2>3. {"disregardRead", "handleRead", "claim", "flag", "reread", "issue", "send", "close"}
           \subseteq PC \ {"reserve", "createSession", "saveSession"}
    BY DEF PC
  <2> QED BY <2>1, <2>2, <2>3, <1>1, <1>2
<1>5. CASE CardStep(p)
  <2>1. Busy(p)
    BY <1>5 DEF CardStep, RedeemWrite, CancelWrite, ResendReset, Send, MarkSent, At, Busy, Resting
  <2>2. \/ Return(p)
        \/ Goto(p, "send", "unsent") \/ Goto(p, "mark", "sent") \/ Goto(p, "mark", "failed")
    BY <1>5 DEF CardStep, RedeemWrite, CancelWrite, ResendReset, Send, MarkSent
  <2>3. "send" \in PC /\ "mark" \in PC
    BY DEF PC
  <2> QED BY <2>1, <2>2, <2>3, <1>1, <1>2
<1>6. CASE SweepStep(p)
  <2>1. CASE SweepList(p)
    BY <1>0, <2>1 DEF SweepList, Batches, IdleProc, Resting, Goal
  <2>2. CASE CloseAbandoned(p)
    BY <2>2, <1>1 DEF CloseAbandoned
  <2>3. ASSUME NEW c \in Cards, SweepNext(p, c) PROVE Goal
    <3>1. PICK where \in {"retrieve", "closeAbandoned"} :
             proc' = [proc EXCEPT ![p] =
                [proc[p] EXCEPT !.at = where, !.card = c, !.todo = proc[p].todo \ {c}]]
      BY <2>3 DEF SweepNext
    <3> QED BY <1>0, <2>3, <3>1 DEF SweepNext, ProcRecord, Goal
  <2> QED BY <1>6, <2>1, <2>2, <2>3 DEF SweepStep
<1>7. ASSUME NEW c \in Cards, DrainNext(p, c) PROVE Goal
  BY <1>0, <1>7 DEF DrainNext, ProcRecord, Goal
<1>8. CASE JobEnds(p)
  BY <1>0, <1>8 DEF JobEnds, IdleProc, Resting, Goal
<1> QED BY <1>3, <1>4, <1>5, <1>6, <1>7, <1>8 DEF HandlerStep

\* What a handler step does to a row: a sold card stays sold; only the checkout
\* that holds an unsold card sells it; a card left unsold keeps its figures.
LEMMA HandlerSells ==
    ASSUME TypeOK, SoldInv, NEW p \in Procs, HandlerStep(p), NEW c \in Cards
    PROVE  /\ card[c].status # "NONE" => card'[c].status # "NONE"
           /\ card[c].status = "NONE" /\ card'[c].status # "NONE"
                 => proc[p].at = "reserve" /\ C(p) = c
           /\ card'[c].status = "NONE" =>
                 /\ card'[c].bal = card[c].bal /\ card'[c].paid = card[c].paid
                 /\ redeemed'[c] = redeemed[c] /\ receipts'[c] = receipts[c]
           /\ proc[p].at = "reserve" /\ proc'[p].at \notin Resting => card'[C(p)].status # "NONE"
<1> DEFINE Goal ==
           /\ card[c].status # "NONE" => card'[c].status # "NONE"
           /\ card[c].status = "NONE" /\ card'[c].status # "NONE"
                 => proc[p].at = "reserve" /\ C(p) = c
           /\ card'[c].status = "NONE" =>
                 /\ card'[c].bal = card[c].bal /\ card'[c].paid = card[c].paid
                 /\ redeemed'[c] = redeemed[c] /\ receipts'[c] = receipts[c]
           /\ proc[p].at = "reserve" /\ proc'[p].at \notin Resting => card'[C(p)].status # "NONE"
<1> SUFFICES Goal
  OBVIOUS
<1>0. /\ card \in [Cards -> CardRecord]
      /\ redeemed \in [Cards -> Nat]
      /\ receipts \in [Cards -> 0..2]
      /\ proc \in [Procs -> ProcRecord]
      /\ Busy(p) => C(p) \in Cards
  BY HasCard DEF TypeOK, TablesOK, ProcsOK, Busy, Resting
<1>1. Busy(p) /\ proc[p].at # "reserve" => card[C(p)].status # "NONE"
  BY DEF SoldInv
<1> USE <1>0, <1>1 DEF Busy, Resting, At, CardRecord
<1>2. CASE UNCHANGED dbVars /\ proc[p].at # "reserve"
  BY <1>2 DEF dbVars
<1>3. ASSUME NEW s \in BOOLEAN, CreateCard(p, s) PROVE Goal
  <2>1. CASE Return(p) /\ UNCHANGED card
    <3>1. proc'[p].at \in Resting
      BY <2>1 DEF Return, IdleProc
    <3> QED BY <1>3, <2>1, <3>1 DEF CreateCard
  <2>2. ASSUME NEW row, row.status # "NONE", card' = [card EXCEPT ![C(p)] = row] PROVE Goal
    BY <1>3, <2>2 DEF CreateCard
  <2>3. /\ Sold(C(p), proc[p].arg = "promo", s).status # "NONE"
        /\ SoldInTest(C(p), proc[p].arg = "promo", s).status # "NONE"
    BY DEF Sold, SoldInTest, Unsold
  <2> HIDE DEF Goal
  <2> QED BY <1>3, <2>1, <2>2, <2>3 DEF CreateCard
<1>4. CASE SaveSession(p) \/ FlagForRefund(p) \/ CancelWrite(p) \/ ResendReset(p) \/ MarkSent(p)
  <2>1. CASE SaveSession(p)
    BY <2>1 DEF SaveSession
  <2>2. CASE FlagForRefund(p)
    BY <2>2 DEF FlagForRefund
  <2>3. CASE CancelWrite(p)
    BY <2>3 DEF CancelWrite
  <2>4. CASE ResendReset(p)
    BY <2>4 DEF ResendReset
  <2>5. CASE MarkSent(p)
    BY <2>5 DEF MarkSent
  <2> QED BY <1>4, <2>1, <2>2, <2>3, <2>4, <2>5
<1>5. CASE Claim(p)
  BY <1>5 DEF Claim
<1>6. CASE IssueReceipt(p) \/ Send(p)
  BY <1>6 DEF IssueReceipt, Send
<1>7. CASE Close(p) \/ CloseAbandoned(p)
  <2>1. CASE Close(p)
    BY <2>1 DEF Close
  <2>2. CASE CloseAbandoned(p)
    BY <2>2 DEF CloseAbandoned
  <2> QED BY <1>7, <2>1, <2>2
<1>8. CASE RedeemWrite(p)
  BY <1>8 DEF RedeemWrite
<1> HIDE DEF Goal
<1> QED
  BY <1>2, <1>3, <1>4, <1>5, <1>6, <1>7, <1>8
  DEF HandlerStep, CheckoutStep, PaymentStep, CardStep, SweepStep, CreateSession, Retrieve,
      RetrieveFails, HandleRead, Reread, DisregardRead, SweepList, SweepNext, DrainNext, JobEnds

LEMMA SoldHandler ==
    ASSUME TypeOK, TypeOK', SoldInv, NEW p \in Procs, HandlerStep(p)
    PROVE  SoldInv'
<1>1. \A c \in Cards : card[c].status # "NONE" => card'[c].status # "NONE"
  BY HandlerSells
<1>2. \A q \in Procs : CheckingOut(q)' => CheckingOut(q) /\ proc'[q].card = proc[q].card
  BY HandlerMoves DEF CheckingOut
<1>3. \A q \in Procs : Busy(q)' => C(q)' \in Cards
  BY HasCard DEF Busy, Resting, TypeOK, ProcsOK, C
<1>4. ASSUME NEW q \in Procs, Busy(q)', proc'[q].at # "reserve" PROVE card'[C(q)'].status # "NONE"
  <2>1. CASE q # p
    BY <1>1, <1>3, <1>4, <2>1, HandlerMoves DEF SoldInv, Busy, C
  <2>2. CASE q = p /\ Busy(p) /\ proc'[p].card = proc[p].card
    <3>1. CASE proc[p].at = "reserve"
      BY <1>4, <2>2, <3>1, <1>3, HandlerSells DEF Busy, C
    <3>2. CASE proc[p].at # "reserve"
      BY <1>1, <1>3, <1>4, <2>2, <3>2 DEF SoldInv, C
    <3> QED BY <3>1, <3>2
  <2>3. CASE q = p /\ proc'[p].card \in proc[p].todo
    BY <1>1, <1>3, <1>4, <2>3 DEF SoldInv, C
  <2> QED BY <1>4, <2>1, <2>2, <2>3, HandlerMoves DEF Busy
<1>5. ASSUME NEW q \in Procs, proc'[q].at = "reserve" PROVE card'[C(q)'].status = "NONE"
  <2>1. q # p /\ proc'[q] = proc[q]
    BY <1>5, HandlerMoves
  <2>2. C(q) \in Cards /\ card[C(q)].status = "NONE"
    BY <1>5, <2>1, HasCard DEF SoldInv, C
  <2>3. ~(proc[p].at = "reserve" /\ C(p) = C(q))
    BY <1>5, <2>1 DEF SoldInv, CheckingOut
  <2> QED BY <2>1, <2>2, <2>3, HandlerSells DEF C
<1>6. \A q \in Procs : \A c \in proc'[q].todo : card'[c].status # "NONE"
  <2>1. \A c \in Stale : c \in Cards /\ card[c].status # "NONE"
    BY DEF Stale
  <2>2. \A q \in Procs : proc[q].todo \subseteq Cards
    BY DEF TypeOK, ProcsOK, ProcRecord
  <2> QED BY <1>1, <2>1, <2>2, HandlerMoves DEF SoldInv
<1>7. \A e \in events' : card'[e.card].status # "NONE"
  <2>1. events' = events
    BY DEF HandlerStep, CheckoutStep, PaymentStep, CardStep, SweepStep, CreateCard, CreateSession,
           SaveSession, Retrieve, RetrieveFails, HandleRead, FlagForRefund, Claim, Reread,
           IssueReceipt, DisregardRead, Close, RedeemWrite, CancelWrite, ResendReset, Send, MarkSent,
           SweepList, CloseAbandoned, SweepNext, DrainNext, JobEnds, envVars
  <2>2. \A e \in events : e.card \in Cards
    BY DEF TypeOK, WorldOK, Event
  <2> QED BY <1>1, <2>1, <2>2 DEF SoldInv
<1>8. \A c \in Cards : ses'[c] # "none" => card'[c].status # "NONE"
  <2>1. CASE ses' = ses
    BY <1>1, <2>1 DEF SoldInv
  <2>2. CASE CreateSession(p)
    <3>1. proc[p].at = "createSession" /\ C(p) \in Cards
      BY <2>2, HasCard DEF CreateSession, At
    <3>2. card[C(p)].status # "NONE"
      BY <3>1 DEF SoldInv, Busy, Resting
    <3>3. ses' = [ses EXCEPT ![C(p)] = "open"] /\ ses \in [Cards -> SessionState]
      BY <2>2 DEF CreateSession, TypeOK, WorldOK
    <3> QED BY <1>1, <3>1, <3>2, <3>3 DEF SoldInv
  <2> QED
    BY <2>1, <2>2
    DEF HandlerStep, CheckoutStep, PaymentStep, CardStep, SweepStep, CreateCard, SaveSession,
        Retrieve, RetrieveFails, HandleRead, FlagForRefund, Claim, Reread, IssueReceipt,
        DisregardRead, Close, RedeemWrite, CancelWrite, ResendReset, Send, MarkSent, SweepList,
        CloseAbandoned, SweepNext, DrainNext, JobEnds, envVars
<1>9. \A q, r \in Procs : CheckingOut(q)' /\ CheckingOut(r)' /\ C(q)' = C(r)' => q = r
  BY <1>2 DEF SoldInv, C
<1>10. \A c \in Cards : card'[c].status = "NONE"
          => card'[c].bal = 0 /\ ~card'[c].paid /\ redeemed'[c] = 0 /\ receipts'[c] = 0
  BY <1>1, HandlerSells DEF SoldInv
<1> QED BY <1>4, <1>5, <1>6, <1>7, <1>8, <1>9, <1>10 DEF SoldInv, C, Busy

\* What a request does when it begins.
LEMMA RequestMoves ==
    ASSUME TypeOK, SoldInv, NEW p \in Requests, RequestStarts(p)
    PROVE  /\ p \in Procs /\ \A q \in Procs \ {p} : proc'[q] = proc[q]
           /\ UNCHANGED <<redeemed, receipts, envVars>>
           /\ \A c \in Cards : card'[c] = card[c]
                 \/ (card[c].status = "NONE" /\ Unclaimed(c) /\ card'[c].status = "ACTIVE")
           /\ \/ proc' = proc
              \/ /\ proc[p].at = "idle" /\ proc'[p].todo = {} /\ proc'[p].card \in Cards
                 /\ \/ /\ proc'[p].at = "reserve" /\ UNCHANGED card
                       /\ card[proc'[p].card].status = "NONE" /\ Unclaimed(proc'[p].card)
                    \/ /\ proc'[p].at \notin {"reserve", "createSession", "saveSession"}
                       /\ card'[proc'[p].card].status # "NONE"
<1> DEFINE Goal ==
           /\ p \in Procs /\ \A q \in Procs \ {p} : proc'[q] = proc[q]
           /\ UNCHANGED <<redeemed, receipts, envVars>>
           /\ \A c \in Cards : card'[c] = card[c]
                 \/ (card[c].status = "NONE" /\ Unclaimed(c) /\ card'[c].status = "ACTIVE")
           /\ \/ proc' = proc
              \/ /\ proc[p].at = "idle" /\ proc'[p].todo = {} /\ proc'[p].card \in Cards
                 /\ \/ /\ proc'[p].at = "reserve" /\ UNCHANGED card
                       /\ card[proc'[p].card].status = "NONE" /\ Unclaimed(proc'[p].card)
                    \/ /\ proc'[p].at \notin {"reserve", "createSession", "saveSession"}
                       /\ card'[proc'[p].card].status # "NONE"
<1> SUFFICES Goal
  OBVIOUS
<1>0. p \in Procs /\ proc \in [Procs -> ProcRecord] /\ card \in [Cards -> CardRecord]
  BY DEF Procs, TypeOK, ProcsOK, TablesOK
<1>begin. ASSUME NEW where \in PC, NEW arg, NEW c \in Cards, Begin(p, where, c, arg)
          PROVE  /\ \A q \in Procs \ {p} : proc'[q] = proc[q]
                 /\ proc'[p].todo = {} /\ proc'[p].card = c /\ proc'[p].at = where
  BY <1>0, <1>begin DEF Begin, IdleProc
<1>1. ASSUME NEW e \in events, Webhook(p, e) PROVE Goal
  <2>1. e.card \in Cards /\ card[e.card].status # "NONE"
    BY DEF SoldInv, TypeOK, WorldOK, Event
  <2>2. Idle(p) /\ UNCHANGED <<dbVars, envVars>>
    BY <1>1 DEF Webhook
  <2>3. \E where \in {"disregardRead", "handleRead"} : \E arg : Begin(p, where, e.card, arg)
    BY <1>1 DEF Webhook
  <2>4. \E where \in {"disregardRead", "handleRead"} :
           /\ \A q \in Procs \ {p} : proc'[q] = proc[q]
           /\ proc'[p].todo = {} /\ proc'[p].card = e.card /\ proc'[p].at = where
    BY <2>1, <2>3, <1>begin DEF PC
  <2> QED BY <1>0, <2>1, <2>2, <2>4 DEF Idle, At, dbVars
<1>2. ASSUME NEW c \in Cards, NEW promo \in BOOLEAN, StartCheckout(p, c, promo) PROVE Goal
  <2>1. /\ Idle(p) /\ card[c].status = "NONE" /\ Unclaimed(c) /\ UNCHANGED <<dbVars, envVars>>
        /\ \E arg : Begin(p, "reserve", c, arg)
    BY <1>2 DEF StartCheckout
  <2>2. /\ \A q \in Procs \ {p} : proc'[q] = proc[q]
        /\ proc'[p].todo = {} /\ proc'[p].card = c /\ proc'[p].at = "reserve"
    BY <2>1, <1>begin DEF PC
  <2> QED BY <1>0, <2>1, <2>2 DEF Idle, At, dbVars
<1>3. ASSUME NEW c \in Cards, NEW tender \in {"COUNTER", "COMP"}, NEW withEmail \in BOOLEAN,
             ActivatePhysicalCard(p, c, tender, withEmail)
      PROVE Goal
  <2>1. /\ Idle(p) /\ card[c].status = "NONE" /\ Unclaimed(c)
        /\ UNCHANGED <<redeemed, receipts, envVars>>
        /\ Begin(p, "send", c, "unsent") \/ UNCHANGED proc
    BY <1>3 DEF ActivatePhysicalCard
  <2>2. card'[c].status = "ACTIVE" /\ \A d \in Cards \ {c} : card'[d] = card[d]
    BY <1>0, <1>3 DEF ActivatePhysicalCard, Unsold
  <2>3. CASE UNCHANGED proc
    BY <1>0, <2>1, <2>2, <2>3
  <2>4. CASE Begin(p, "send", c, "unsent")
    <3>1. /\ \A q \in Procs \ {p} : proc'[q] = proc[q]
          /\ proc'[p].todo = {} /\ proc'[p].card = c /\ proc'[p].at = "send"
      BY <2>4, <1>begin DEF PC
    <3> QED BY <1>0, <2>1, <2>2, <3>1 DEF Idle, At
  <2> QED BY <2>1, <2>3, <2>4
<1>4. ASSUME NEW c \in Cards, NEW amount \in 1..FaceValue, RedeemStart(p, c, amount) PROVE Goal
  <2>1. Idle(p) /\ card[c].status = "ACTIVE" /\ UNCHANGED <<dbVars, envVars>>
    BY <1>4 DEF RedeemStart
  <2>2. /\ \A q \in Procs \ {p} : proc'[q] = proc[q]
        /\ proc'[p].todo = {} /\ proc'[p].card = c /\ proc'[p].at = "redeemWrite"
    BY <1>0, <1>4 DEF RedeemStart, IdleProc
  <2> QED BY <1>0, <2>1, <2>2 DEF Idle, At, dbVars
<1>5. ASSUME NEW c \in Cards, Poll(p, c) \/ CancelStart(p, c) \/ ResendStart(p, c) PROVE Goal
  <2>1. /\ Idle(p) /\ card[c].status # "NONE" /\ UNCHANGED <<dbVars, envVars>>
        /\ \E where \in {"retrieve", "cancelWrite", "resendReset"} : Begin(p, where, c, "-")
    BY <1>5 DEF Poll, CancelStart, ResendStart, SystemCancelled
  <2>2. \E where \in {"retrieve", "cancelWrite", "resendReset"} :
           /\ \A q \in Procs \ {p} : proc'[q] = proc[q]
           /\ proc'[p].todo = {} /\ proc'[p].card = c /\ proc'[p].at = where
    BY <2>1, <1>begin DEF PC
  <2> QED BY <1>0, <2>1, <2>2 DEF Idle, At, dbVars
<1> HIDE DEF Goal
<1> QED BY <1>1, <1>2, <1>3, <1>4, <1>5 DEF RequestStarts

LEMMA SoldRequestStarts ==
    ASSUME TypeOK, TypeOK', SoldInv, NEW p \in Requests, RequestStarts(p)
    PROVE  SoldInv'
<1>0. /\ p \in Procs
      /\ \A q \in Procs : proc'[q].at \notin Resting => proc'[q].card \in Cards
      /\ \A q \in Procs : proc[q].at \notin Resting => proc[q].card \in Cards
      /\ \A q \in Procs : proc[q].todo \subseteq Cards
  BY RequestMoves DEF TypeOK, ProcsOK, ProcRecord, Resting
<1>1. \A c \in Cards : card[c].status # "NONE" => card'[c].status # "NONE"
  BY RequestMoves
<1>2. ASSUME NEW q \in Procs, proc'[q] = proc[q]
      PROVE  /\ Busy(q) /\ proc[q].at # "reserve" => card'[C(q)].status # "NONE"
             /\ proc[q].at = "reserve" => card'[C(q)].status = "NONE"
  <2>1. proc[q].at = "reserve" => ~Unclaimed(C(q))
    BY DEF Unclaimed
  <2> QED BY <1>0, <1>1, <2>1, RequestMoves DEF SoldInv, Busy, C, Resting
<1>3. \A q \in Procs \ {p} : proc'[q] = proc[q]
  BY RequestMoves
<1>4. proc' = proc \/ proc'[p].todo = {}
  BY RequestMoves
<1>5. CASE proc' = proc
  <2>1. \A q \in Procs : Busy(q) /\ proc[q].at # "reserve" => card'[C(q)].status # "NONE"
    BY <1>2, <1>5
  <2>2. \A q \in Procs : proc[q].at = "reserve" => card'[C(q)].status = "NONE"
    BY <1>2, <1>5
  <2>3. \A q \in Procs : \A c \in proc[q].todo : card'[c].status # "NONE"
    BY <1>0, <1>1 DEF SoldInv
  <2>4. \A e \in events : card'[e.card].status # "NONE"
    BY <1>1 DEF SoldInv, TypeOK, WorldOK, Event
  <2>5. \A c \in Cards : card'[c].status = "NONE" => card'[c] = card[c]
    BY RequestMoves
  <2>6. UNCHANGED <<redeemed, receipts, ses, events>>
    BY RequestMoves DEF envVars
  <2> QED
    BY <1>1, <1>5, <2>1, <2>2, <2>3, <2>4, <2>5, <2>6 DEF SoldInv, Busy, C, CheckingOut
<1>6. CASE proc' # proc
  <2>0. /\ proc[p].at = "idle" /\ proc'[p].todo = {} /\ proc'[p].card \in Cards
        /\ \/ /\ proc'[p].at = "reserve" /\ UNCHANGED card
              /\ card[proc'[p].card].status = "NONE" /\ Unclaimed(proc'[p].card)
           \/ /\ proc'[p].at \notin {"reserve", "createSession", "saveSession"}
              /\ card'[proc'[p].card].status # "NONE"
    BY <1>6, RequestMoves
  <2>1. \A q \in Procs : proc'[q].at \notin Resting /\ proc'[q].at # "reserve"
           => card'[proc'[q].card].status # "NONE"
    BY <1>2, <1>3, <2>0 DEF Busy, C
  <2>2. \A q \in Procs : proc'[q].at = "reserve" => card'[proc'[q].card].status = "NONE"
    BY <1>2, <1>3, <2>0 DEF C
  <2>3. \A q \in Procs : \A c \in proc'[q].todo : card'[c].status # "NONE"
    BY <1>0, <1>1, <1>3, <2>0 DEF SoldInv
  <2>4. \A e \in events : card'[e.card].status # "NONE"
    BY <1>1 DEF SoldInv, TypeOK, WorldOK, Event
  <2>5. \A c \in Cards : card'[c].status = "NONE" => card'[c] = card[c]
    BY RequestMoves
  <2>6. UNCHANGED <<redeemed, receipts, ses, events>>
    BY RequestMoves DEF envVars
  <2>7. \A q \in Procs \ {p} : CheckingOut(p)' /\ CheckingOut(q)' => proc'[p].card # proc'[q].card
    BY <1>3, <2>0 DEF CheckingOut, Unclaimed, C
  <2>8. \A q, r \in Procs : CheckingOut(q)' /\ CheckingOut(r)' /\ proc'[q].card = proc'[r].card => q = r
    <3> SUFFICES ASSUME NEW q \in Procs, NEW r \in Procs, CheckingOut(q)', CheckingOut(r)',
                        proc'[q].card = proc'[r].card, q # r
                 PROVE  FALSE
      OBVIOUS
    <3>1. q # p /\ r # p
      BY <2>7
    <3> QED BY <1>3, <3>1 DEF SoldInv, CheckingOut, C
  <2> QED BY <1>1, <2>1, <2>2, <2>3, <2>4, <2>5, <2>6, <2>8 DEF SoldInv, Busy, C
<1> QED BY <1>5, <1>6

\* Jobs that begin, and handlers that die, leave every card to whom it was.
LEMMA SoldJobs ==
    ASSUME TypeOK, SoldInv, NEW p \in Procs, SweepExpired(p) \/ DrainList(p) \/ Crash(p)
    PROVE  SoldInv'
<1>0. /\ card \in [Cards -> CardRecord]
      /\ proc \in [Procs -> ProcRecord]
      /\ \A q \in Procs : Busy(q) => C(q) \in Cards
      /\ \A e \in events : e.card \in Cards
      /\ \A q \in Procs : proc[q].todo \subseteq Cards
  BY DEF TypeOK, TablesOK, WorldOK, ProcsOK, Busy, Resting, C, Event, ProcRecord
<1>1. /\ \A q \in Procs \ {p} : proc'[q] = proc[q]
      /\ proc'[p].at \in Resting /\ proc'[p].todo \subseteq Due
  <2>1. CASE SweepExpired(p)
    BY <1>0, <2>1 DEF SweepExpired, Begin, IdleProc, Resting
  <2>2. CASE DrainList(p)
    BY <1>0, <2>2 DEF DrainList, Batches, IdleProc, Resting
  <2>3. CASE Crash(p)
    BY <1>0, <2>3 DEF Crash, IdleProc, Resting
  <2> QED BY <2>1, <2>2, <2>3
<1>2. \A c \in Cards : /\ card'[c].status = "NONE" <=> card[c].status = "NONE"
                       /\ card'[c].bal = card[c].bal /\ card'[c].paid = card[c].paid
  BY <1>0 DEF SweepExpired, DrainList, Crash, dbVars, CardRecord
<1>3. UNCHANGED <<redeemed, receipts, ses, events>>
  BY DEF SweepExpired, DrainList, Crash, dbVars, envVars
<1>4. \A c \in Due : c \in Cards /\ card[c].status # "NONE"
  BY DEF Due
<1>5. \A q \in Procs : \A c \in proc'[q].todo : c \in Cards /\ card'[c].status # "NONE"
  BY <1>0, <1>1, <1>2, <1>4 DEF SoldInv
<1>6. \A q \in Procs : proc'[q].at \notin Resting => proc'[q] = proc[q]
  BY <1>1
<1>7. \A q \in Procs : CheckingOut(q)' => CheckingOut(q) /\ proc'[q] = proc[q]
  BY <1>6 DEF CheckingOut, Resting
<1> QED
  <2>1. \A q \in Procs : proc'[q].at \notin Resting /\ proc'[q].at # "reserve"
           => card'[proc'[q].card].status # "NONE"
    BY <1>0, <1>2, <1>6 DEF SoldInv, Busy, C
  <2>2. \A q \in Procs : proc'[q].at = "reserve" => card'[proc'[q].card].status = "NONE"
    BY <1>0, <1>2, <1>6 DEF SoldInv, Busy, C, Resting
  <2>3. \A q, r \in Procs : CheckingOut(q)' /\ CheckingOut(r)' /\ C(q)' = C(r)' => q = r
    BY <1>7 DEF SoldInv, C
  <2>4. \A e \in events' : card'[e.card].status # "NONE"
    BY <1>0, <1>2, <1>3 DEF SoldInv
  <2>5. \A c \in Cards : ses'[c] # "none" => card'[c].status # "NONE"
    BY <1>2, <1>3 DEF SoldInv
  <2>6. \A c \in Cards : card'[c].status = "NONE"
           => card'[c].bal = 0 /\ ~card'[c].paid /\ redeemed'[c] = 0 /\ receipts'[c] = 0
    BY <1>2, <1>3 DEF SoldInv
  <2> QED BY <1>5, <2>1, <2>2, <2>3, <2>4, <2>5, <2>6 DEF SoldInv, Busy, C

\* Stripe answers for the sessions of sold cards only.
LEMMA SoldEnvironment ==
    ASSUME TypeOK, SoldInv, NEW c \in Cards, Stripe(c) \/ \E d \in Deadline : DeadlinePasses(c, d)
    PROVE  SoldInv'
<1>1. UNCHANGED <<card, redeemed, receipts, proc>>
  BY DEF Stripe, BuyerPays, BuyerPaysLater, MoneyArrives, MoneyFails, SessionExpires,
         DeadlinePasses, dbVars
<1>2. \A d \in Cards : ses'[d] # "none" => ses[d] # "none"
  BY DEF Stripe, BuyerPays, BuyerPaysLater, MoneyArrives, MoneyFails, SessionExpires,
         DeadlinePasses, TypeOK, WorldOK
<1>3. \A e \in events' : e \in events \/ (e.card = c /\ ses[c] # "none")
  <2>1. ASSUME NEW says, Emit(c, says), ses[c] # "none"
        PROVE  \A e \in events' : e \in events \/ (e.card = c /\ ses[c] # "none")
    BY <2>1 DEF Emit
  <2>2. CASE Stripe(c)
    BY <2>1, <2>2 DEF Stripe, BuyerPays, BuyerPaysLater, MoneyArrives, MoneyFails, SessionExpires
  <2>3. CASE \E d \in Deadline : DeadlinePasses(c, d)
    BY <2>3 DEF DeadlinePasses
  <2> QED BY <2>2, <2>3
<1>4. \A e \in events' : card[e.card].status # "NONE"
  BY <1>3 DEF SoldInv
<1> QED BY <1>1, <1>2, <1>4 DEF SoldInv, Busy, C, CheckingOut

LEMMA SoldStep == TypeOK /\ TypeOK' /\ SoldInv /\ [Next]_vars => SoldInv'
<1> SUFFICES ASSUME TypeOK, TypeOK', SoldInv, [Next]_vars PROVE SoldInv'
  OBVIOUS
<1>1. CASE UNCHANGED vars
  BY <1>1 DEF vars, SoldInv, Busy, C, CheckingOut
<1>2. ASSUME NEW p \in Procs, HandlerStep(p) PROVE SoldInv'
  BY <1>2, SoldHandler
<1>3. ASSUME NEW p \in Requests, RequestStarts(p) PROVE SoldInv'
  BY <1>3, SoldRequestStarts
<1>4. ASSUME NEW p \in Procs, SweepExpired(p) \/ DrainList(p) \/ Crash(p) PROVE SoldInv'
  BY <1>4, SoldJobs
<1>5. ASSUME NEW c \in Cards, Stripe(c) \/ \E d \in Deadline : DeadlinePasses(c, d) PROVE SoldInv'
  BY <1>5, SoldEnvironment
<1> QED BY <1>1, <1>2, <1>3, <1>4, <1>5 DEF Next, Step, Procs

LEMMA SoldInit == Init => SoldInv
BY DEF Init, SoldInv, Busy, CheckingOut, Resting, C, IdleProc, Unsold, ClosedTooEarly

-----------------------------------------------------------------------------
(* Value.  ValueConserved speaks of one card at a time: its row and what   *)
(* was redeemed of it.                                                     *)

Balanced(r, n) ==
    /\ r.status \in Live => r.bal + n = FaceValue
    /\ r.status = "ACTIVE" => r.bal > 0
    /\ r.status = "REDEEMED" => r.bal = 0
    /\ r.status = "PENDING_PAYMENT" => r.bal = FaceValue /\ n = 0
    /\ r.status = "CANCELLED" => r.bal = 0 /\ n <= FaceValue
    /\ SystemCancelled(r) => n = 0

LEMMA ValueIsBalance == ValueConserved <=> \A c \in Cards : Balanced(card[c], redeemed[c])
BY DEF ValueConserved, Balanced

\* A row whose status and balance stay, and which is not marked as closed off
\* by the system, stays in balance.
LEMMA SameFigures ==
    ASSUME NEW r, NEW q, NEW n, Balanced(r, n), q.status = r.status, q.bal = r.bal,
           SystemCancelled(q) => SystemCancelled(r)
    PROVE  Balanced(q, n)
BY DEF Balanced

LEMMA BalancedHandler ==
    ASSUME TypeOK, SoldInv, ValueConserved, NEW p \in Procs, HandlerStep(p)
    PROVE  ValueConserved'
<1> USE DEF CardRecord
<1>0. /\ card \in [Cards -> CardRecord]
      /\ redeemed \in [Cards -> Nat]
      /\ Busy(p) => C(p) \in Cards
      /\ Busy(p) /\ proc[p].at # "reserve" => card[C(p)].status # "NONE"
      /\ proc[p].at = "reserve" => card[C(p)].status = "NONE" /\ redeemed[C(p)] = 0
      /\ FaceValue \in Nat \ {0}
  BY GiftCardAssumption, HasCard DEF TypeOK, TablesOK, SoldInv, Busy, Resting
<1>1. \A c \in Cards : Balanced(card[c], redeemed[c])
  BY ValueIsBalance
<1>row. ASSUME NEW r, NEW n, Busy(p), Balanced(r, n),
               card' = [card EXCEPT ![C(p)] = r], redeemed' = [redeemed EXCEPT ![C(p)] = n]
        PROVE  ValueConserved'
  <2>1. \A c \in Cards : Balanced(card'[c], redeemed'[c])
    BY <1>0, <1>1, <1>row
  <2> QED BY <2>1 DEF ValueConserved, Balanced, SystemCancelled
<1>note. ASSUME NEW r \in CardRecord, Busy(p), card' = [card EXCEPT ![C(p)] = r], UNCHANGED redeemed,
               r.status = card[C(p)].status, r.bal = card[C(p)].bal,
               SystemCancelled(r) => SystemCancelled(card[C(p)])
        PROVE  ValueConserved'
  <2>1. Balanced(r, redeemed[C(p)])
    BY <1>0, <1>1, <1>note, SameFigures
  <2>2. redeemed' = [redeemed EXCEPT ![C(p)] = redeemed[C(p)]]
    BY <1>0, <1>note
  <2> HIDE DEF CardRecord
  <2> QED BY <1>note, <2>1, <2>2, <1>row
<1>same. ASSUME UNCHANGED <<card, redeemed>> PROVE ValueConserved'
  BY <1>same DEF ValueConserved
<1>2. ASSUME NEW s \in BOOLEAN, CreateCard(p, s) PROVE ValueConserved'
  <2> DEFINE promo == proc[p].arg = "promo"
  <2>1. Busy(p) /\ proc[p].at = "reserve" /\ redeemed' = redeemed
    BY <1>2 DEF CreateCard, At, Busy, Resting
  <2>2. redeemed' = [redeemed EXCEPT ![C(p)] = 0]
    BY <1>0, <2>1
  <2>3. Balanced(Sold(C(p), promo, s), 0) /\ Balanced(SoldInTest(C(p), promo, s), 0)
    BY <1>0 DEF Sold, SoldInTest, Unsold, Balanced, Live, SystemCancelled
  <2> HIDE DEF promo, CardRecord
  <2>4. \/ card' = card
        \/ card' = [card EXCEPT ![C(p)] = Sold(C(p), promo, s)]
        \/ card' = [card EXCEPT ![C(p)] = SoldInTest(C(p), promo, s)]
    BY <1>2 DEF CreateCard, promo
  <2> QED BY <2>1, <2>2, <2>3, <2>4, <1>row, <1>same
<1>3. CASE SaveSession(p)
  <2>1. Busy(p) /\ UNCHANGED redeemed
    BY <1>3 DEF SaveSession, At, Busy, Resting
  <2>2. card' = [card EXCEPT ![C(p)] = [card[C(p)] EXCEPT !.sess = TRUE]]
    BY <1>0, <1>3, <2>1 DEF SaveSession
  <2> QED BY <1>0, <2>1, <2>2, <1>note DEF SystemCancelled
<1>4. CASE FlagForRefund(p)
  <2>1. Busy(p) /\ UNCHANGED redeemed
    BY <1>4 DEF FlagForRefund, At, Busy, Resting
  <2>2. card' = [card EXCEPT ![C(p)] = [card[C(p)] EXCEPT !.note = "flagged"]]
    BY <1>0, <1>4, <2>1 DEF FlagForRefund
  <2> QED BY <1>0, <2>1, <2>2, <1>note DEF SystemCancelled, Note
<1>5. CASE Claim(p)
  <2>1. Busy(p) /\ UNCHANGED redeemed
    BY <1>5 DEF Claim, At, Busy, Resting
  <2>2. ASSUME NEW n,
               card' = [card EXCEPT ![C(p)] =
                  [card[C(p)] EXCEPT !.status = "ACTIVE", !.bal = FaceValue, !.paid = TRUE,
                                     !.sess = TRUE, !.note = n]],
               redeemed[C(p)] = 0
        PROVE  ValueConserved'
    <3> DEFINE r == [card[C(p)] EXCEPT !.status = "ACTIVE", !.bal = FaceValue, !.paid = TRUE,
                                       !.sess = TRUE, !.note = n]
    <3>1. Balanced(r, 0)
      BY <1>0, <2>1 DEF Balanced, Live, SystemCancelled
    <3>2. redeemed' = [redeemed EXCEPT ![C(p)] = 0]
      BY <1>0, <2>1, <2>2
    <3> HIDE DEF CardRecord
    <3> QED BY <1>row, <2>1, <2>2, <3>1, <3>2
  <2>3. Claimable(card[C(p)], proc[p].arg) => redeemed[C(p)] = 0
    BY <1>0, <1>1, <2>1 DEF Claimable, Balanced
  <2> HIDE DEF CardRecord
  <2> QED BY <1>5, <1>same, <2>1, <2>2, <2>3 DEF Claim
<1>6. CASE Close(p)
  <2>1. Busy(p) /\ UNCHANGED redeemed
    BY <1>6 DEF Close, At, Busy, Resting
  <2> DEFINE r == [card[C(p)] EXCEPT !.status = "CANCELLED", !.bal = 0, !.sess = TRUE,
                                     !.note = "unconfirmed"]
  <2>2. Disregardable(card[C(p)]) => redeemed[C(p)] = 0 /\ Balanced(r, 0)
    BY <1>0, <1>1, <2>1 DEF Disregardable, Balanced, Live, SystemCancelled
  <2>3. redeemed' = [redeemed EXCEPT ![C(p)] = redeemed[C(p)]]
    BY <1>0, <2>1
  <2>4. card' = card \/ (Disregardable(card[C(p)]) /\ card' = [card EXCEPT ![C(p)] = r])
    BY <1>6 DEF Close
  <2> HIDE DEF CardRecord
  <2> QED BY <1>row, <1>same, <2>1, <2>2, <2>3, <2>4
<1>7. CASE CloseAbandoned(p)
  <2>1. Busy(p) /\ UNCHANGED redeemed
    BY <1>7 DEF CloseAbandoned, At, Busy, Resting
  <2> DEFINE r == [card[C(p)] EXCEPT !.status = "CANCELLED", !.bal = 0]
  <2>2. card[C(p)].status = "PENDING_PAYMENT" => redeemed[C(p)] = 0 /\ Balanced(r, 0)
    BY <1>0, <1>1, <2>1 DEF Balanced, Live, SystemCancelled
  <2>3. redeemed' = [redeemed EXCEPT ![C(p)] = redeemed[C(p)]]
    BY <1>0, <2>1
  <2>4. card' = card \/ (card[C(p)].status = "PENDING_PAYMENT" /\ card' = [card EXCEPT ![C(p)] = r])
    BY <1>0, <1>7, <2>1 DEF CloseAbandoned
  <2> HIDE DEF CardRecord
  <2> QED BY <1>row, <1>same, <2>1, <2>2, <2>3, <2>4
<1>8. CASE RedeemWrite(p)
  <2>1. Busy(p)
    BY <1>8 DEF RedeemWrite, At, Busy, Resting
  <2> DEFINE left == card[C(p)].bal - proc[p].amt
             r == [card[C(p)] EXCEPT !.bal = left,
                                     !.status = IF left = 0 THEN "REDEEMED" ELSE "ACTIVE"]
             n == redeemed[C(p)] + proc[p].amt
  <2>2. proc[p].amt \in Nat
    BY DEF TypeOK, ProcsOK, ProcRecord
  <2>3. card[C(p)].status = "ACTIVE" /\ proc[p].amt <= card[C(p)].bal => Balanced(r, n)
    BY <1>0, <1>1, <2>1, <2>2 DEF Balanced, Live, SystemCancelled
  <2>4. \/ UNCHANGED <<card, redeemed>>
        \/ /\ card[C(p)].status = "ACTIVE" /\ proc[p].amt <= card[C(p)].bal
           /\ card' = [card EXCEPT ![C(p)] = r] /\ redeemed' = [redeemed EXCEPT ![C(p)] = n]
    BY <1>0, <1>8, <2>1 DEF RedeemWrite
  <2> HIDE DEF CardRecord, r, n
  <2> QED BY <1>row, <1>same, <2>1, <2>3, <2>4
<1>9. CASE CancelWrite(p)
  <2>1. Busy(p) /\ proc[p].at = "cancelWrite" /\ UNCHANGED redeemed
    BY <1>9 DEF CancelWrite, At, Busy, Resting
  <2> DEFINE r == [card[C(p)] EXCEPT !.status = "CANCELLED", !.bal = 0, !.byPerson = TRUE,
                                     !.note = "other"]
  <2>2. redeemed[C(p)] <= FaceValue
    BY <1>0, <1>1, <2>1 DEF Balanced, Live, Status
  <2>3. Balanced(r, redeemed[C(p)])
    BY <1>0, <2>1, <2>2 DEF Balanced, Live, SystemCancelled
  <2>4. redeemed' = [redeemed EXCEPT ![C(p)] = redeemed[C(p)]]
    BY <1>0, <2>1
  <2>5. card' = [card EXCEPT ![C(p)] = r]
    BY <1>9 DEF CancelWrite
  <2> HIDE DEF CardRecord
  <2> QED BY <1>row, <2>1, <2>3, <2>4, <2>5
<1>10. CASE ResendReset(p)
  <2>1. Busy(p) /\ UNCHANGED redeemed
    BY <1>10 DEF ResendReset, At, Busy, Resting
  <2>2. card' = [card EXCEPT ![C(p)] = [card[C(p)] EXCEPT !.emailed = FALSE]]
    BY <1>0, <1>10, <2>1 DEF ResendReset
  <2> QED BY <1>0, <2>1, <2>2, <1>note DEF SystemCancelled
<1>11. CASE MarkSent(p)
  <2>1. Busy(p) /\ UNCHANGED redeemed
    BY <1>11 DEF MarkSent, At, Busy, Resting
  <2>2. card' = card \/ card' = [card EXCEPT ![C(p)] = [card[C(p)] EXCEPT !.emailed = TRUE]]
    BY <1>0, <1>11, <2>1 DEF MarkSent
  <2> QED BY <1>0, <2>1, <2>2, <1>note, <1>same DEF SystemCancelled
<1> HIDE DEF CardRecord
<1>12. CASE UNCHANGED <<card, redeemed>>
  BY <1>12, <1>same
<1> QED
  BY <1>2, <1>3, <1>4, <1>5, <1>6, <1>7, <1>8, <1>9, <1>10, <1>11, <1>12
  DEF HandlerStep, CheckoutStep, PaymentStep, CardStep, SweepStep, CreateSession, Retrieve,
      RetrieveFails, HandleRead, Reread, IssueReceipt, DisregardRead, SweepList, SweepNext,
      DrainNext, JobEnds, Send, dbVars

LEMMA BalancedStep == TypeOK /\ SoldInv /\ ValueConserved /\ [Next]_vars => ValueConserved'
<1> SUFFICES ASSUME TypeOK, SoldInv, ValueConserved, [Next]_vars PROVE ValueConserved'
  OBVIOUS
<1>0. /\ \A c \in Cards : Balanced(card[c], redeemed[c])
      /\ card \in [Cards -> CardRecord] /\ redeemed \in [Cards -> Nat]
  BY ValueIsBalance DEF TypeOK, TablesOK
<1>same. ASSUME UNCHANGED <<card, redeemed>> PROVE ValueConserved'
  BY <1>same DEF ValueConserved
<1>1. ASSUME NEW p \in Procs, HandlerStep(p) PROVE ValueConserved'
  BY <1>1, BalancedHandler
<1>2. ASSUME NEW p \in Requests, RequestStarts(p) PROVE ValueConserved'
  <2>1. ASSUME NEW c \in Cards, NEW tender \in {"COUNTER", "COMP"}, NEW withEmail \in BOOLEAN,
               ActivatePhysicalCard(p, c, tender, withEmail)
        PROVE  ValueConserved'
    <3> DEFINE r == [Unsold EXCEPT !.status = "ACTIVE", !.bal = FaceValue, !.sess = TRUE,
                                   !.paid = (tender # "COMP"), !.tender = tender]
    <3>1. redeemed[c] = 0 /\ redeemed' = redeemed
      BY <2>1 DEF SoldInv, ActivatePhysicalCard
    <3>2. Balanced(r, 0)
      BY GiftCardAssumption DEF Balanced, Live, SystemCancelled, Unsold
    <3>3. card' = [card EXCEPT ![c] = r]
      BY <2>1 DEF ActivatePhysicalCard
    <3> HIDE DEF r
    <3>4. \A d \in Cards : Balanced(card'[d], redeemed'[d])
      BY <1>0, <3>1, <3>2, <3>3
    <3> QED BY <3>4 DEF ValueConserved, Balanced, SystemCancelled
  <2> QED
    BY <1>2, <1>same, <2>1
    DEF RequestStarts, Webhook, StartCheckout, Poll, RedeemStart, CancelStart, ResendStart, dbVars
<1>3. ASSUME NEW p \in Procs, SweepExpired(p) PROVE ValueConserved'
  <2>1. \A c \in Cards : \/ card'[c] = card[c]
                         \/ /\ card[c].status = "ACTIVE"
                            /\ card'[c] = [card[c] EXCEPT !.status = "EXPIRED"]
    BY <1>3 DEF SweepExpired
  <2>2. ASSUME NEW c \in Cards PROVE Balanced(card'[c], redeemed[c])
    <3>1. ASSUME card[c].status = "ACTIVE"
          PROVE  Balanced([card[c] EXCEPT !.status = "EXPIRED"], redeemed[c])
      BY <1>0, <3>1 DEF Balanced, Live, SystemCancelled, CardRecord
    <3> QED BY <1>0, <2>1, <3>1
  <2> QED BY <1>3, <2>2 DEF SweepExpired, ValueConserved, Balanced, SystemCancelled
<1>4. CASE UNCHANGED vars \/ (\E p \in Procs : DrainList(p) \/ Crash(p))
           \/ (\E c \in Cards : Stripe(c) \/ \E d \in Deadline : DeadlinePasses(c, d))
  BY <1>4, <1>same
  DEF vars, DrainList, Crash, Stripe, BuyerPays, BuyerPaysLater, MoneyArrives, MoneyFails,
      SessionExpires, DeadlinePasses, dbVars
<1> QED BY <1>1, <1>2, <1>3, <1>4 DEF Next, Step, Procs

\* Whatever number of checkouts, payments, redemptions, cancellations, sweeps
\* and crashes there is, a card's balance and its redemptions add up to its
\* face value while it can be spent, and nothing is ever redeemed of a card
\* that was not live.
THEOREM ValueKept == Spec => []ValueConserved
<1>1. Init => ValueConserved
  BY GiftCardAssumption DEF Init, ValueConserved, Live, SystemCancelled, Unsold, ClosedTooEarly
<1>2. Spec => [](TypeOK /\ SoldInv /\ ValueConserved)
  BY <1>1, SoldInit, SoldStep, BalancedStep, TypeStep, TypeCorrect, PTL DEF Spec
<1> QED BY <1>2, PTL

-----------------------------------------------------------------------------
(* Every step of every handler is a step of GiftCardLedger or none, and no  *)
(* step undoes what a person cancelled.  What may become of a row r of     *)
(* which n was redeemed: row s, of which m.                                *)

\* Marks, dates and notes; a note may turn a closed offer into a cancelled card.
Keeps(r, n, s, m) ==
    /\ s.status = r.status /\ s.bal = r.bal /\ s.byPerson = r.byPerson /\ m = n
    /\ SystemCancelled(s) => SystemCancelled(r)

Sells(r, n, s, m) ==
    /\ r.status = "NONE" /\ n = 0
    /\ s.status \in {"PENDING_PAYMENT", "ACTIVE"} /\ s.bal = FaceValue /\ ~s.byPerson /\ m = 0

Claims(r, n, s, m) ==
    /\ r.status = "PENDING_PAYMENT" \/ SystemCancelled(r)
    /\ n = 0
    /\ s.status = "ACTIVE" /\ s.bal = FaceValue /\ s.byPerson = r.byPerson /\ m = 0

Closes(r, n, s, m) ==
    /\ r.status = "PENDING_PAYMENT"
    /\ s.status = "CANCELLED" /\ s.bal = 0 /\ s.byPerson = r.byPerson /\ m = n

Spends(r, n, s, m) ==
    /\ r.status = "ACTIVE"
    /\ \E amount \in 1..FaceValue :
          /\ amount <= r.bal
          /\ s.bal = r.bal - amount /\ m = n + amount
          /\ s.status = IF amount = r.bal THEN "REDEEMED" ELSE "ACTIVE"
    /\ s.byPerson = r.byPerson

Cancels(r, n, s, m) ==
    /\ r.status # "NONE"
    /\ s.status = "CANCELLED" /\ s.bal = 0 /\ s.byPerson /\ m = n

Becomes(r, n, s, m) ==
    \/ Keeps(r, n, s, m)
    \/ Sells(r, n, s, m)
    \/ Claims(r, n, s, m)
    \/ Closes(r, n, s, m)
    \/ Spends(r, n, s, m)
    \/ Cancels(r, n, s, m)

\* One row changes, as Becomes allows.
OneRow ==
    \E c \in Cards : \E s \in CardRecord, m \in Nat :
        /\ card' = [card EXCEPT ![c] = s]
        /\ redeemed' = [redeemed EXCEPT ![c] = m]
        /\ Becomes(card[c], redeemed[c], s, m)

\* The sweep expires some of the live cards at once.
Expires ==
    /\ UNCHANGED redeemed
    /\ \E S \in SUBSET Cards :
          /\ \A c \in S : card[c].status = "ACTIVE"
          /\ card' = [c \in Cards |-> IF c \in S THEN [card[c] EXCEPT !.status = "EXPIRED"]
                                               ELSE card[c]]

LEMMA RowHandler ==
    ASSUME TypeOK, SoldInv, ValueConserved, NEW p \in Procs, HandlerStep(p)
    PROVE  OneRow \/ UNCHANGED <<card, redeemed>>
<1> DEFINE c == C(p)
<1>0. /\ card \in [Cards -> CardRecord]
      /\ redeemed \in [Cards -> Nat]
      /\ Busy(p) => c \in Cards
      /\ Busy(p) /\ proc[p].at # "reserve" => card[c].status # "NONE"
      /\ proc[p].at = "reserve" => card[c].status = "NONE" /\ redeemed[c] = 0
      /\ FaceValue \in Nat \ {0}
      /\ redeemed = [redeemed EXCEPT ![c] = redeemed[c]]
  BY GiftCardAssumption, HasCard DEF TypeOK, TablesOK, SoldInv, Busy, Resting
<1>00. TablesOK'
  BY TablesHandler
<1>row. ASSUME NEW s, NEW m, Busy(p), card' = [card EXCEPT ![c] = s],
               redeemed' = [redeemed EXCEPT ![c] = m], Becomes(card[c], redeemed[c], s, m)
        PROVE  OneRow
  <2>1. s = card'[c] /\ m = redeemed'[c]
    BY <1>0, <1>row
  <2>2. s \in CardRecord /\ m \in Nat
    BY <1>0, <1>00, <1>row, <2>1 DEF TablesOK
  <2> QED BY <1>0, <1>row, <2>2 DEF OneRow
<1>2. ASSUME NEW s \in BOOLEAN, CreateCard(p, s) PROVE OneRow \/ UNCHANGED <<card, redeemed>>
  <2> DEFINE promo == proc[p].arg = "promo"
  <2>1. Busy(p) /\ proc[p].at = "reserve" /\ redeemed' = redeemed
    BY <1>2 DEF CreateCard, At, Busy, Resting
  <2>2. /\ Becomes(card[c], redeemed[c], Sold(c, promo, s), redeemed[c])
        /\ Becomes(card[c], redeemed[c], SoldInTest(c, promo, s), redeemed[c])
    BY <1>0, <2>1 DEF Becomes, Sells, Sold, SoldInTest, Unsold
  <2> HIDE DEF promo
  <2>3. \/ card' = card
        \/ card' = [card EXCEPT ![c] = Sold(c, promo, s)]
        \/ card' = [card EXCEPT ![c] = SoldInTest(c, promo, s)]
    BY <1>2 DEF CreateCard, promo
  <2> HIDE DEF c
  <2> QED BY <1>0, <1>row, <2>1, <2>2, <2>3
<1>keeps. ASSUME NEW s, Busy(p), card' = [card EXCEPT ![c] = s], UNCHANGED redeemed,
                 Keeps(card[c], redeemed[c], s, redeemed[c])
          PROVE  OneRow
  <2> HIDE DEF c
  <2> QED BY <1>0, <1>row, <1>keeps DEF Becomes
<1>3. CASE SaveSession(p) \/ FlagForRefund(p) \/ ResendReset(p) \/ MarkSent(p)
  <2>1. Busy(p) /\ UNCHANGED redeemed
    BY <1>3 DEF SaveSession, FlagForRefund, ResendReset, MarkSent, At, Busy, Resting
  <2>2. card[c] \in [status : Status, bal : Nat, paid : BOOLEAN, byPerson : BOOLEAN, note : Note,
             sess : BOOLEAN, emailed : BOOLEAN, scheduled : BOOLEAN, promo : BOOLEAN,
             tender : Tender]
    BY <1>0, <2>1 DEF CardRecord
  <2>3. /\ Keeps(card[c], redeemed[c], [card[c] EXCEPT !.sess = TRUE], redeemed[c])
        /\ Keeps(card[c], redeemed[c], [card[c] EXCEPT !.note = "flagged"], redeemed[c])
        /\ Keeps(card[c], redeemed[c], [card[c] EXCEPT !.emailed = FALSE], redeemed[c])
        /\ Keeps(card[c], redeemed[c], [card[c] EXCEPT !.emailed = TRUE], redeemed[c])
    BY <2>2 DEF Keeps, SystemCancelled
  <2>4. \/ card' = [card EXCEPT ![c] = [card[c] EXCEPT !.sess = TRUE]]
        \/ card' = [card EXCEPT ![c] = [card[c] EXCEPT !.note = "flagged"]]
        \/ card' = [card EXCEPT ![c] = [card[c] EXCEPT !.emailed = FALSE]]
        \/ card' = [card EXCEPT ![c] = [card[c] EXCEPT !.emailed = TRUE]]
        \/ card' = card
    BY <1>0, <1>3, <2>1 DEF SaveSession, FlagForRefund, ResendReset, MarkSent
  <2> HIDE DEF c
  <2> QED BY <2>1, <2>3, <2>4, <1>keeps
<1>4. CASE Claim(p)
  <2>1. Busy(p) /\ UNCHANGED redeemed
    BY <1>4 DEF Claim, At, Busy, Resting
  <2>2. ASSUME NEW n,
               card' = [card EXCEPT ![c] =
                  [card[c] EXCEPT !.status = "ACTIVE", !.bal = FaceValue, !.paid = TRUE,
                                  !.sess = TRUE, !.note = n]],
               Claimable(card[c], proc[p].arg)
        PROVE  OneRow
    <3> DEFINE s == [card[c] EXCEPT !.status = "ACTIVE", !.bal = FaceValue, !.paid = TRUE,
                                    !.sess = TRUE, !.note = n]
    <3>1. s.status = "ACTIVE" /\ s.bal = FaceValue /\ s.byPerson = card[c].byPerson
      BY <1>0, <2>1 DEF CardRecord
    <3>2. redeemed[c] = 0 /\ (card[c].status = "PENDING_PAYMENT" \/ SystemCancelled(card[c]))
      BY <1>0, <2>1, <2>2 DEF Claimable, ValueConserved
    <3> HIDE DEF s
    <3>3. Becomes(card[c], redeemed[c], s, redeemed[c])
      BY <3>1, <3>2 DEF Becomes, Claims
    <3>4. card' = [card EXCEPT ![c] = s]
      BY <2>2 DEF s
    <3> HIDE DEF c
    <3> QED BY <1>0, <1>row, <2>1, <3>3, <3>4
  <2> QED BY <1>4, <2>1, <2>2 DEF Claim
<1>5. CASE Close(p) \/ CloseAbandoned(p)
  <2>1. Busy(p) /\ UNCHANGED redeemed
    BY <1>5 DEF Close, CloseAbandoned, At, Busy, Resting
  <2> DEFINE s == [card[c] EXCEPT !.status = "CANCELLED", !.bal = 0, !.sess = TRUE,
                                  !.note = "unconfirmed"]
             t == [card[c] EXCEPT !.status = "CANCELLED", !.bal = 0]
  <2>2. /\ card[c].status = "PENDING_PAYMENT" => Closes(card[c], redeemed[c], s, redeemed[c])
        /\ card[c].status = "PENDING_PAYMENT" => Closes(card[c], redeemed[c], t, redeemed[c])
    BY <1>0, <2>1 DEF Closes, CardRecord
  <2>3. \/ card' = card
        \/ card[c].status = "PENDING_PAYMENT" /\ card' = [card EXCEPT ![c] = s]
        \/ card[c].status = "PENDING_PAYMENT" /\ card' = [card EXCEPT ![c] = t]
    BY <1>0, <1>5, <2>1 DEF Close, CloseAbandoned, Disregardable
  <2> HIDE DEF c, s, t
  <2> QED BY <1>0, <1>row, <2>1, <2>2, <2>3 DEF Becomes
<1>6. CASE RedeemWrite(p)
  <2>1. Busy(p) /\ proc[p].amt \in Nat
    BY <1>6 DEF RedeemWrite, At, Busy, Resting, TypeOK, ProcsOK, ProcRecord
  <2> DEFINE left == card[c].bal - proc[p].amt
             s == [card[c] EXCEPT !.bal = left,
                                  !.status = IF left = 0 THEN "REDEEMED" ELSE "ACTIVE"]
             m == redeemed[c] + proc[p].amt
  <2>2. ASSUME card[c].status = "ACTIVE", proc[p].amt <= card[c].bal
        PROVE  Becomes(card[c], redeemed[c], s, m)
    <3>1. /\ card[c].bal \in Nat /\ redeemed[c] \in Nat
          /\ card[c].bal + redeemed[c] = FaceValue /\ card[c].bal > 0
      BY <1>0, <2>1, <2>2 DEF ValueConserved, Live, CardRecord
    <3>2. /\ s.bal = left /\ s.byPerson = card[c].byPerson
          /\ s.status = IF left = 0 THEN "REDEEMED" ELSE "ACTIVE"
          /\ s.paid = card[c].paid /\ s.note = card[c].note
      BY <1>0, <2>1 DEF CardRecord
    <3> HIDE DEF s, c
    <3>3. CASE proc[p].amt = 0
      BY <2>2, <3>1, <3>2, <3>3 DEF Becomes, Keeps, SystemCancelled
    <3>4. CASE proc[p].amt # 0
      <4>1. proc[p].amt \in 1..FaceValue /\ (left = 0 <=> proc[p].amt = card[c].bal)
        BY <1>0, <2>1, <2>2, <3>1, <3>4
      <4> QED BY <2>2, <3>2, <4>1 DEF Becomes, Spends
    <3> QED BY <3>3, <3>4
  <2>3. \/ UNCHANGED <<card, redeemed>>
        \/ /\ card[c].status = "ACTIVE" /\ proc[p].amt <= card[c].bal
           /\ card' = [card EXCEPT ![c] = s] /\ redeemed' = [redeemed EXCEPT ![c] = m]
    BY <1>0, <1>6, <2>1 DEF RedeemWrite
  <2> HIDE DEF s, m, c
  <2> QED BY <1>row, <2>1, <2>2, <2>3
<1>7. CASE CancelWrite(p)
  <2>1. Busy(p) /\ proc[p].at = "cancelWrite" /\ UNCHANGED redeemed
    BY <1>7 DEF CancelWrite, At, Busy, Resting
  <2> DEFINE s == [card[c] EXCEPT !.status = "CANCELLED", !.bal = 0, !.byPerson = TRUE,
                                  !.note = "other"]
  <2>2. Cancels(card[c], redeemed[c], s, redeemed[c])
    BY <1>0, <2>1 DEF Cancels, CardRecord
  <2>3. card' = [card EXCEPT ![c] = s]
    BY <1>7 DEF CancelWrite
  <2> HIDE DEF s, c
  <2> QED BY <1>0, <1>row, <2>1, <2>2, <2>3 DEF Becomes
<1>8. CASE UNCHANGED <<card, redeemed>>
  BY <1>8
<1> QED
  BY <1>2, <1>3, <1>4, <1>5, <1>6, <1>7, <1>8
  DEF HandlerStep, CheckoutStep, PaymentStep, CardStep, SweepStep, CreateSession, Retrieve,
      RetrieveFails, HandleRead, Reread, IssueReceipt, DisregardRead, SweepList, SweepNext,
      DrainNext, JobEnds, Send, dbVars

LEMMA LedgerRowStep ==
    ASSUME TypeOK, SoldInv, ValueConserved, [Next]_vars
    PROVE  OneRow \/ Expires \/ UNCHANGED <<card, redeemed>>
<1>1. ASSUME NEW p \in Procs, HandlerStep(p) PROVE OneRow \/ UNCHANGED <<card, redeemed>>
  BY <1>1, RowHandler
<1>2. ASSUME NEW p \in Requests, RequestStarts(p) PROVE OneRow \/ UNCHANGED <<card, redeemed>>
  <2>1. ASSUME NEW c \in Cards, NEW tender \in {"COUNTER", "COMP"}, NEW withEmail \in BOOLEAN,
               ActivatePhysicalCard(p, c, tender, withEmail)
        PROVE  OneRow
    <3> DEFINE s == [Unsold EXCEPT !.status = "ACTIVE", !.bal = FaceValue, !.sess = TRUE,
                                   !.paid = (tender # "COMP"), !.tender = tender]
    <3>1. redeemed \in [Cards -> Nat] /\ redeemed[c] = 0 /\ redeemed' = redeemed
      BY <2>1 DEF SoldInv, ActivatePhysicalCard, TypeOK, TablesOK
    <3>2. s \in CardRecord /\ s.status = "ACTIVE" /\ s.bal = FaceValue /\ ~s.byPerson
      BY GiftCardAssumption DEF Unsold, CardRecord, Status, Note, Tender
    <3>3. card' = [card EXCEPT ![c] = s] /\ card[c].status = "NONE"
      BY <2>1 DEF ActivatePhysicalCard
    <3> HIDE DEF s
    <3>4. Becomes(card[c], redeemed[c], s, 0)
      BY <3>1, <3>2, <3>3 DEF Becomes, Sells
    <3>5. redeemed' = [redeemed EXCEPT ![c] = 0]
      BY <3>1
    <3> QED BY <3>2, <3>3, <3>4, <3>5 DEF OneRow
  <2> QED
    BY <1>2, <2>1
    DEF RequestStarts, Webhook, StartCheckout, Poll, RedeemStart, CancelStart, ResendStart, dbVars
<1>3. ASSUME NEW p \in Procs, SweepExpired(p) PROVE Expires
  <2> DEFINE S == {c \in Cards : card[c].status = "ACTIVE" /\ "expiry" \in passed[c]}
  <2>1. card' = [c \in Cards |-> IF c \in S THEN [card[c] EXCEPT !.status = "EXPIRED"] ELSE card[c]]
    BY <1>3 DEF SweepExpired
  <2>2. S \in SUBSET Cards /\ \A c \in S : card[c].status = "ACTIVE"
    OBVIOUS
  <2>3. UNCHANGED redeemed
    BY <1>3 DEF SweepExpired
  <2> HIDE DEF S
  <2> QED BY <2>1, <2>2, <2>3 DEF Expires
<1>4. CASE UNCHANGED vars \/ (\E p \in Procs : DrainList(p) \/ Crash(p))
           \/ (\E c \in Cards : Stripe(c) \/ \E d \in Deadline : DeadlinePasses(c, d))
  BY <1>4
  DEF vars, DrainList, Crash, Stripe, BuyerPays, BuyerPaysLater, MoneyArrives, MoneyFails,
      SessionExpires, DeadlinePasses, dbVars
<1> QED BY <1>1, <1>2, <1>3, <1>4 DEF Next, Step, Procs

-----------------------------------------------------------------------------
(* A person's cancellation: such a row is CANCELLED and not the system's,  *)
(* so that of all that may become of a row only Keeps and Cancels apply.   *)

PersonInv == \A c \in Cards : card[c].byPerson => card[c].status = "CANCELLED"

LEMMA RowOfPerson ==
    ASSUME NEW r, NEW n, NEW s, NEW m, Becomes(r, n, s, m),
           r.byPerson => r.status = "CANCELLED"
    PROVE  /\ s.byPerson => s.status = "CANCELLED"
           /\ r.byPerson /\ r.bal = 0 => s.byPerson /\ s.bal = 0 /\ m = n
BY DEF Becomes, Keeps, Sells, Claims, Closes, Spends, Cancels, SystemCancelled

LEMMA PersonStep ==
    ASSUME TypeOK, SoldInv, ValueConserved, PersonInv, [Next]_vars
    PROVE  /\ PersonInv'
           /\ \A c \in Cards : card[c].byPerson =>
                 /\ card'[c].status = "CANCELLED" /\ card'[c].byPerson
                 /\ card'[c].bal = 0
                 /\ redeemed'[c] = redeemed[c]
<1>0. card \in [Cards -> CardRecord] /\ redeemed \in [Cards -> Nat]
  BY DEF TypeOK, TablesOK
<1>1. \A c \in Cards : card[c].byPerson => card[c].status = "CANCELLED" /\ card[c].bal = 0
  BY DEF PersonInv, ValueConserved
<1> SUFFICES ASSUME NEW c \in Cards
             PROVE  /\ card'[c].byPerson => card'[c].status = "CANCELLED"
                    /\ card[c].byPerson => /\ card'[c].status = "CANCELLED" /\ card'[c].byPerson
                                           /\ card'[c].bal = 0
                                           /\ redeemed'[c] = redeemed[c]
  BY DEF PersonInv
<1>2. CASE OneRow
  <2>1. PICK d \in Cards, s \in CardRecord, m \in Nat :
           /\ card' = [card EXCEPT ![d] = s] /\ redeemed' = [redeemed EXCEPT ![d] = m]
           /\ Becomes(card[d], redeemed[d], s, m)
    BY <1>2 DEF OneRow
  <2>2. CASE c = d
    <3>1. card'[c] = s /\ redeemed'[c] = m
      BY <1>0, <2>1, <2>2
    <3> QED BY <1>1, <2>1, <2>2, <3>1, RowOfPerson
  <2>3. CASE c # d
    BY <1>0, <1>1, <2>1, <2>3
  <2> QED BY <2>2, <2>3
<1>3. CASE Expires
  BY <1>0, <1>1, <1>3 DEF Expires, CardRecord
<1>4. CASE UNCHANGED <<card, redeemed>>
  BY <1>1, <1>4
<1> QED BY <1>2, <1>3, <1>4, LedgerRowStep

LEMMA ValueAlways == Spec => [](TypeOK /\ SoldInv /\ ValueConserved)
<1>1. Init => ValueConserved
  BY GiftCardAssumption DEF Init, ValueConserved, Live, SystemCancelled, Unsold, ClosedTooEarly
<1> QED BY <1>1, SoldInit, SoldStep, BalancedStep, TypeStep, TypeCorrect, PTL DEF Spec

\* Whatever payment, redemption, sweep, claim or second cancellation was under
\* way, what a person cancelled stays cancelled, worth nothing and unspent.
THEOREM CancelledForGood == Spec => PersonCancelSticks
<1>1. Init => PersonInv
  BY DEF Init, PersonInv, Unsold, ClosedTooEarly
<1>2. TypeOK /\ SoldInv /\ ValueConserved /\ PersonInv /\ [Next]_vars => PersonInv'
  BY PersonStep
<1>3. TypeOK /\ SoldInv /\ ValueConserved /\ PersonInv /\ [Next]_vars
         => [\A c \in Cards : card[c].byPerson =>
                /\ card'[c].status = "CANCELLED" /\ card'[c].byPerson
                /\ card'[c].bal = 0
                /\ redeemed'[c] = redeemed[c]]_vars
  BY PersonStep
<1> QED BY <1>1, <1>2, <1>3, ValueAlways, PTL DEF Spec, PersonCancelSticks

-----------------------------------------------------------------------------
(* The refinement *)

phaseOf == [c \in Cards |-> Phase(card[c])]
valueOf == [c \in Cards |-> card[c].bal]

\* What becomes of a row is what the ledger lets become of a card.
LEMMA RowRefines ==
    ASSUME TypeOK, ValueConserved, OneRow
    PROVE  Ledger!Next \/ UNCHANGED <<phaseOf, valueOf, redeemed>>
<1>0. /\ card \in [Cards -> CardRecord] /\ redeemed \in [Cards -> Nat]
      /\ FaceValue \in Nat \ {0}
  BY GiftCardAssumption DEF TypeOK, TablesOK
<1>1. PICK c \in Cards, s \in CardRecord, m \in Nat :
         /\ card' = [card EXCEPT ![c] = s] /\ redeemed' = [redeemed EXCEPT ![c] = m]
         /\ Becomes(card[c], redeemed[c], s, m)
  BY DEF OneRow
<1>2. /\ phaseOf' = [phaseOf EXCEPT ![c] = Phase(s)]
      /\ valueOf' = [valueOf EXCEPT ![c] = s.bal]
  BY <1>0, <1>1 DEF phaseOf, valueOf
<1>3. phaseOf[c] = Phase(card[c]) /\ valueOf[c] = card[c].bal
  BY DEF phaseOf, valueOf
<1>4. m = redeemed[c] => redeemed' = redeemed
  BY <1>0, <1>1
<1>5. ASSUME phaseOf[c] # "unsold", Phase(s) = "withdrawn", s.bal = 0, m = redeemed[c]
      PROVE  Ledger!Next
  <2>1. Ledger!Withdraw(c)
    BY <1>2, <1>4, <1>5 DEF Ledger!Withdraw, Ledger!Set, phaseOf, valueOf
  <2> QED BY <2>1 DEF Ledger!Next
<1>6. CASE Keeps(card[c], redeemed[c], s, m)
  <2>1. Phase(s) = Phase(card[c]) \/ (SystemCancelled(card[c]) /\ Phase(s) = "withdrawn")
    BY <1>6 DEF Keeps, Phase, SystemCancelled
  <2>2. CASE Phase(s) = Phase(card[c])
    <3>1. s.bal = card[c].bal /\ m = redeemed[c]
      BY <1>6 DEF Keeps
    <3>2. phaseOf' = phaseOf
      BY <1>2, <1>3, <2>2 DEF phaseOf
    <3>3. valueOf' = valueOf
      BY <1>2, <1>3, <3>1 DEF valueOf
    <3> QED BY <1>4, <3>1, <3>2, <3>3
  <2>3. CASE SystemCancelled(card[c]) /\ Phase(s) = "withdrawn"
    <3>1. phaseOf[c] = "closed"
      BY <1>3, <2>3 DEF Phase, SystemCancelled
    <3>2. s.bal = 0 /\ m = redeemed[c]
      BY <1>6, <2>3 DEF Keeps, SystemCancelled, ValueConserved
    <3> QED BY <1>5, <2>3, <3>1, <3>2
  <2> QED BY <2>1, <2>2, <2>3
<1>7. CASE Sells(card[c], redeemed[c], s, m)
  <2>1. /\ phaseOf[c] = "unsold" /\ redeemed[c] = 0 /\ m = redeemed[c]
        /\ Phase(s) \in {"offered", "live"} /\ s.bal = FaceValue
    BY <1>3, <1>7 DEF Sells, Phase, SystemCancelled
  <2>2. CASE Phase(s) = "offered"
    <3>1. Ledger!Offer(c)
      BY <1>2, <1>4, <2>1, <2>2 DEF Ledger!Offer, Ledger!Set, phaseOf, valueOf
    <3> QED BY <3>1 DEF Ledger!Next
  <2>3. CASE Phase(s) = "live"
    <3>1. Ledger!GoLive(c)
      BY <1>2, <1>4, <2>1, <2>3 DEF Ledger!GoLive, Ledger!Set, phaseOf, valueOf
    <3> QED BY <3>1 DEF Ledger!Next
  <2> QED BY <2>1, <2>2, <2>3
<1>8. CASE Claims(card[c], redeemed[c], s, m)
  <2>1. /\ phaseOf[c] \in {"offered", "closed"} /\ redeemed[c] = 0 /\ m = redeemed[c]
        /\ Phase(s) = "live" /\ s.bal = FaceValue
    BY <1>3, <1>8 DEF Claims, Phase, SystemCancelled
  <2>2. Ledger!GoLive(c)
    BY <1>2, <1>4, <2>1 DEF Ledger!GoLive, Ledger!Set, phaseOf, valueOf
  <2> QED BY <2>2 DEF Ledger!Next
<1>9. CASE Closes(card[c], redeemed[c], s, m)
  <2>1. /\ phaseOf[c] = "offered" /\ m = redeemed[c]
        /\ Phase(s) \in {"closed", "withdrawn"} /\ s.bal = 0
    BY <1>3, <1>9 DEF Closes, Phase, SystemCancelled
  <2>2. CASE Phase(s) = "closed"
    <3>1. Ledger!FallThrough(c)
      BY <1>2, <1>4, <2>1, <2>2 DEF Ledger!FallThrough, Ledger!Set, phaseOf, valueOf
    <3> QED BY <3>1 DEF Ledger!Next
  <2> QED BY <1>5, <2>1, <2>2
<1>10. CASE Spends(card[c], redeemed[c], s, m)
  <2>1. PICK amount \in 1..FaceValue :
           /\ amount <= card[c].bal
           /\ s.bal = card[c].bal - amount /\ m = redeemed[c] + amount
           /\ s.status = IF amount = card[c].bal THEN "REDEEMED" ELSE "ACTIVE"
    BY <1>10 DEF Spends
  <2>2. /\ phaseOf[c] = "live"
        /\ Phase(s) = IF amount = valueOf[c] THEN "spent" ELSE "live"
    BY <1>3, <1>10, <2>1 DEF Spends, Phase, SystemCancelled
  <2>3. redeemed' = [redeemed EXCEPT ![c] = redeemed[c] + amount]
    BY <1>1, <2>1
  <2>4. Ledger!Spend(c, amount)
    BY <1>2, <1>3, <2>1, <2>2, <2>3 DEF Ledger!Spend, Ledger!Set, phaseOf, valueOf
  <2> QED BY <2>4 DEF Ledger!Next
<1>11. CASE Cancels(card[c], redeemed[c], s, m)
  <2>1. /\ phaseOf[c] # "unsold" /\ m = redeemed[c]
        /\ Phase(s) = "withdrawn" /\ s.bal = 0
    BY <1>3, <1>11 DEF Cancels, Phase, SystemCancelled
  <2> QED BY <1>5, <2>1
<1> QED BY <1>1, <1>6, <1>7, <1>8, <1>9, <1>10, <1>11 DEF Becomes

LEMMA ExpiryRefines ==
    ASSUME TypeOK, Expires
    PROVE  Ledger!Next
<1>0. card \in [Cards -> CardRecord]
  BY DEF TypeOK, TablesOK
<1>1. PICK S \in SUBSET Cards :
         /\ \A c \in S : card[c].status = "ACTIVE"
         /\ card' = [c \in Cards |-> IF c \in S THEN [card[c] EXCEPT !.status = "EXPIRED"]
                                               ELSE card[c]]
  BY DEF Expires
<1>2. \A c \in S : phaseOf[c] = "live"
  BY <1>1 DEF phaseOf, Phase, SystemCancelled
<1>3. ASSUME NEW c \in Cards
      PROVE  /\ Phase(card'[c]) = IF c \in S THEN "lapsed" ELSE phaseOf[c]
             /\ card'[c].bal = valueOf[c]
  BY <1>0, <1>1 DEF Phase, SystemCancelled, CardRecord, phaseOf, valueOf
<1>4. phaseOf' = [c \in Cards |-> IF c \in S THEN "lapsed" ELSE phaseOf[c]]
  BY <1>3 DEF phaseOf
<1>5. valueOf' = valueOf
  BY <1>3 DEF valueOf
<1>6. Ledger!Lapse(S)
  BY <1>2, <1>4, <1>5 DEF Ledger!Lapse, Expires, phaseOf, valueOf
<1> QED BY <1>6 DEF Ledger!Next

LEMMA LedgerInit == Init => Ledger!Init
<1> SUFFICES ASSUME Init PROVE Ledger!Init
  OBVIOUS
<1>1. /\ Phase(Unsold) = "unsold" /\ Phase(ClosedTooEarly) = "closed"
      /\ Unsold.bal = 0 /\ ClosedTooEarly.bal = 0
  BY DEF Phase, SystemCancelled, Unsold, ClosedTooEarly
<1>2. \A c \in Cards : /\ Phase(card[c]) = IF c \in Cards \ LegacyCards THEN "unsold" ELSE "closed"
                       /\ card[c].bal = 0
  BY <1>1 DEF Init
<1> QED BY <1>2 DEF Init, Ledger!Init

\* Checkouts, webhooks, polls, sweeps, redemptions, cancellations, e-mails and
\* crashes, interleaved in any way, do nothing to a card that the ledger of a
\* card's promise does not allow.
THEOREM KeepsThePromise == Spec => LedgerSpec
<1>1. TypeOK /\ SoldInv /\ ValueConserved /\ [Next]_vars => [Ledger!Next]_(Ledger!vars)
  BY LedgerRowStep, RowRefines, ExpiryRefines DEF Ledger!vars, phaseOf, valueOf
<1> QED BY <1>1, LedgerInit, ValueAlways, PTL DEF Spec, LedgerSpec, Ledger!Spec

-----------------------------------------------------------------------------
(* What "Stripe said paid" is worth on its way from Stripe to the row: an  *)
(* event, a handler that was told, a handler about to claim, and the one   *)
(* handler that has claimed and not yet issued the receipt.  A session is  *)
(* never paid and then something else, so each of them may be late.        *)

Issuing(p) == proc[p].at \in {"reread", "issue"}

HeardOfPayment ==
    /\ \A e \in events : e.says = "paid" => ses[e.card] = "paid"
    /\ \A p \in Procs : proc[p].at = "handleRead" /\ proc[p].arg = "paid" => ses[C(p)] = "paid"
    /\ \A p \in Procs : proc[p].at = "claim" => ses[C(p)] = "paid"
    /\ \A p \in Procs : proc[p].at \in {"reserve", "createSession"} => ses[C(p)] = "none"

OneIssues ==
    /\ \A c \in Cards : card[c].status = "PENDING_PAYMENT" => ~card[c].paid
    /\ \A p \in Procs : Issuing(p) =>
          card[C(p)].paid /\ ses[C(p)] = "paid" /\ receipts[C(p)] = 0
    /\ \A p, q \in Procs : Issuing(p) /\ Issuing(q) /\ C(p) = C(q) => p = q
    /\ \A c \in Cards : receipts[c] # 0 =>
          receipts[c] = 1 /\ card[c].paid /\ ses[c] = "paid"

PaidInv == HeardOfPayment /\ OneIssues /\ LiveMeansPaid

\* The places PaidInv says something about.
Telling == {"reserve", "createSession", "handleRead", "claim", "reread", "issue"}

\* A step that changes no session, no event and no receipt, brings its handler
\* to none of those places, and makes no row live, pending or paid.
Tame(p) ==
    /\ UNCHANGED <<receipts, ses, events>>
    /\ \A q \in Procs \ {p} : proc'[q] = proc[q]
    /\ proc'[p].at \notin Telling
    /\ \A c \in Cards :
          /\ card'[c].tender = card[c].tender
          /\ card'[c].paid = card[c].paid
          /\ card'[c].status \in Live => card[c].status \in Live
          /\ card'[c].status = "PENDING_PAYMENT" => card[c].status = "PENDING_PAYMENT"

\* The cards that handlers and events belong to are cards.
LEMMA Belong ==
    ASSUME TypeOK
    PROVE  /\ \A q \in Procs : proc[q].at \in Telling => C(q) \in Cards
           /\ \A e \in events : e.card \in Cards
BY DEF TypeOK, ProcsOK, WorldOK, Event, Telling, C

LEMMA TameKeeps ==
    ASSUME TypeOK, PaidInv, NEW p \in Procs, Tame(p)
    PROVE  PaidInv'
<1>1. \A q \in Procs : proc'[q].at \in Telling => proc'[q] = proc[q] /\ C(q) \in Cards
  BY Belong DEF Tame, C
<1>2. UNCHANGED <<receipts, ses, events>>
  BY DEF Tame
<1>3. \A c \in Cards :
          /\ card'[c].tender = card[c].tender
          /\ card'[c].paid = card[c].paid
          /\ card'[c].status \in Live => card[c].status \in Live
          /\ card'[c].status = "PENDING_PAYMENT" => card[c].status = "PENDING_PAYMENT"
  BY DEF Tame
<1>4. HeardOfPayment'
  BY <1>1, <1>2 DEF PaidInv, HeardOfPayment, C, Telling
<1>5. OneIssues'
  <2>1. \A c \in Cards : card'[c].status = "PENDING_PAYMENT" => ~card'[c].paid
    BY <1>3 DEF PaidInv, OneIssues
  <2>2. \A q \in Procs : Issuing(q)' =>
          card'[C(q)'].paid /\ ses'[C(q)'] = "paid" /\ receipts'[C(q)'] = 0
    BY <1>1, <1>2, <1>3 DEF PaidInv, OneIssues, Issuing, Telling, C
  <2>3. \A q, r \in Procs : Issuing(q)' /\ Issuing(r)' /\ C(q)' = C(r)' => q = r
    BY <1>1 DEF PaidInv, OneIssues, Issuing, Telling, C
  <2>4. \A c \in Cards : receipts'[c] # 0 =>
          receipts'[c] = 1 /\ card'[c].paid /\ ses'[c] = "paid"
    BY <1>2, <1>3 DEF PaidInv, OneIssues
  <2> QED BY <2>1, <2>2, <2>3, <2>4 DEF OneIssues
<1>6. LiveMeansPaid'
  BY <1>2, <1>3 DEF PaidInv, LiveMeansPaid
<1> QED BY <1>4, <1>5, <1>6 DEF PaidInv

\* How a handler moves: alone, and with its card.
LEMMA Returns ==
    ASSUME TypeOK, NEW p \in Procs, Return(p)
    PROVE  (\A q \in Procs \ {p} : proc'[q] = proc[q]) /\ proc'[p].at \notin Telling
<1>1. PICK where \in {"sweepNext", "drainNext", "idle"} :
         proc' = [proc EXCEPT ![p] = [IdleProc EXCEPT !.todo = proc[p].todo, !.at = where]]
  <2> DEFINE where == CASE p \in Sweepers -> "sweepNext" [] p \in Drainers -> "drainNext"
                        [] OTHER -> "idle"
  <2>1. where \in {"sweepNext", "drainNext", "idle"}
    OBVIOUS
  <2>2. proc' = [proc EXCEPT ![p] = [IdleProc EXCEPT !.todo = proc[p].todo, !.at = where]]
    BY DEF Return
  <2> QED BY <2>1, <2>2
<1> QED BY <1>1 DEF IdleProc, TypeOK, ProcsOK, ProcRecord, Telling

LEMMA Goes ==
    ASSUME TypeOK, NEW p \in Procs, NEW where \in PC, NEW arg, Goto(p, where, arg)
    PROVE  /\ \A q \in Procs \ {p} : proc'[q] = proc[q]
           /\ proc'[p].at = where /\ proc'[p].arg = arg /\ proc'[p].card = proc[p].card
BY DEF Goto, TypeOK, ProcsOK, ProcRecord

-----------------------------------------------------------------------------
(* The tame steps of a handler *)

LEMMA TameMoves ==
    ASSUME TypeOK, NEW p \in Procs,
           \/ RetrieveFails(p) \/ DisregardRead(p) \/ SweepList(p) \/ JobEnds(p) \/ Send(p)
           \/ \E c \in Cards : SweepNext(p, c) \/ DrainNext(p, c)
           \/ DrainList(p) \/ Crash(p)
    PROVE  Tame(p)
<1>0. UNCHANGED <<card, receipts, ses, events>>
  BY DEF RetrieveFails, DisregardRead, SweepList, JobEnds, Send, SweepNext, DrainNext, DrainList,
         Crash, dbVars, envVars
<1>1. proc \in [Procs -> ProcRecord]
  BY DEF TypeOK, ProcsOK
<1>2. (\A q \in Procs \ {p} : proc'[q] = proc[q]) /\ proc'[p].at \notin Telling
  <2>1. CASE RetrieveFails(p)
    BY <2>1, Returns DEF RetrieveFails
  <2>2. CASE DisregardRead(p)
    BY <2>2, Returns, Goes DEF DisregardRead, PC, Telling
  <2>3. CASE Send(p)
    BY <2>3, Goes DEF Send, PC, Telling
  <2>4. CASE SweepList(p) \/ DrainList(p)
    <3>1. PICK at, todo : /\ proc' = [proc EXCEPT ![p] = [IdleProc EXCEPT !.at = at, !.todo = todo]]
                          /\ at \in {"sweepNext", "drainNext"}
      BY <2>4 DEF SweepList, DrainList
    <3> QED BY <1>1, <3>1 DEF IdleProc, ProcRecord, Telling
  <2>5. ASSUME NEW c \in Cards, SweepNext(p, c)
        PROVE  (\A q \in Procs \ {p} : proc'[q] = proc[q]) /\ proc'[p].at \notin Telling
    <3>1. PICK where \in {"retrieve", "closeAbandoned"} :
             proc' = [proc EXCEPT ![p] =
                [proc[p] EXCEPT !.at = where, !.card = c, !.todo = proc[p].todo \ {c}]]
      BY <2>5 DEF SweepNext
    <3> QED BY <1>1, <3>1 DEF ProcRecord, Telling
  <2>6. ASSUME NEW c \in Cards, DrainNext(p, c)
        PROVE  (\A q \in Procs \ {p} : proc'[q] = proc[q]) /\ proc'[p].at \notin Telling
    BY <1>1, <2>6 DEF DrainNext, ProcRecord, Telling
  <2>7. CASE JobEnds(p) \/ Crash(p)
    BY <1>1, <2>7 DEF JobEnds, Crash, IdleProc, Telling
  <2> QED BY <2>1, <2>2, <2>3, <2>4, <2>5, <2>6, <2>7
<1> QED BY <1>0, <1>2 DEF Tame

LEMMA TameWrites ==
    ASSUME TypeOK, NEW p \in Procs,
           \/ SaveSession(p) \/ FlagForRefund(p) \/ Close(p) \/ CloseAbandoned(p)
           \/ RedeemWrite(p) \/ CancelWrite(p) \/ ResendReset(p) \/ MarkSent(p)
    PROVE  Tame(p)
<1>0. UNCHANGED <<receipts, ses, events>>
  BY DEF SaveSession, FlagForRefund, Close, CloseAbandoned, RedeemWrite, CancelWrite, ResendReset,
         MarkSent, envVars
<1>1. (\A q \in Procs \ {p} : proc'[q] = proc[q]) /\ proc'[p].at \notin Telling
  BY Returns, Goes
  DEF SaveSession, FlagForRefund, Close, CloseAbandoned, RedeemWrite, CancelWrite, ResendReset,
      MarkSent, PC, Telling
<1>2. card \in [Cards -> CardRecord] /\ C(p) \in Cards
  BY HasCard DEF TypeOK, TablesOK, SaveSession, FlagForRefund, Close, CloseAbandoned, RedeemWrite,
                 CancelWrite, ResendReset, MarkSent, At
<1>3. ASSUME NEW c \in Cards
      PROVE  /\ card'[c].tender = card[c].tender
             /\ card'[c].paid = card[c].paid
             /\ card'[c].status \in Live => card[c].status \in Live
             /\ card'[c].status = "PENDING_PAYMENT" => card[c].status = "PENDING_PAYMENT"
  <2> USE <1>2 DEF CardRecord, Live
  <2>1. CASE SaveSession(p)
    BY <2>1 DEF SaveSession
  <2>2. CASE FlagForRefund(p)
    BY <2>2 DEF FlagForRefund
  <2>3. CASE Close(p)
    BY <2>3 DEF Close
  <2>4. CASE CloseAbandoned(p)
    BY <2>4 DEF CloseAbandoned
  <2>5. CASE RedeemWrite(p)
    BY <2>5 DEF RedeemWrite
  <2>6. CASE CancelWrite(p)
    BY <2>6 DEF CancelWrite
  <2>7. CASE ResendReset(p)
    BY <2>7 DEF ResendReset
  <2>8. CASE MarkSent(p)
    BY <2>8 DEF MarkSent
  <2> QED BY <2>1, <2>2, <2>3, <2>4, <2>5, <2>6, <2>7, <2>8
<1> QED BY <1>0, <1>1, <1>3 DEF Tame

-----------------------------------------------------------------------------
(* The steps that carry the news *)

\* A handler that only moves may be told of a payment Stripe has, or begin a
\* checkout of a card without a session.
LEMMA MoveKeeps ==
    ASSUME TypeOK, PaidInv, NEW p \in Procs,
           UNCHANGED <<card, receipts, ses, events>>,
           \A q \in Procs \ {p} : proc'[q] = proc[q],
           proc'[p].at = "handleRead" /\ proc'[p].arg = "paid" => ses[proc'[p].card] = "paid",
           proc'[p].at = "claim" => ses[proc'[p].card] = "paid",
           proc'[p].at \in {"reserve", "createSession"} => ses[proc'[p].card] = "none",
           proc'[p].at \in {"reread", "issue"} => Issuing(p) /\ proc'[p].card = proc[p].card
    PROVE  PaidInv'
<1>1. HeardOfPayment'
  BY DEF PaidInv, HeardOfPayment, C
<1>2. OneIssues'
  <2>1. \A q \in Procs : Issuing(q)' => Issuing(q) /\ C(q)' = C(q)
    BY DEF Issuing, C
  <2> QED BY <2>1 DEF PaidInv, OneIssues
<1>3. LiveMeansPaid'
  BY DEF PaidInv, LiveMeansPaid
<1> QED BY <1>1, <1>2, <1>3 DEF PaidInv

LEMMA PaidAsks ==
    ASSUME TypeOK, PaidInv, NEW p \in Procs, Retrieve(p) \/ HandleRead(p) \/ Reread(p)
    PROVE  PaidInv'
<1>0. UNCHANGED <<card, receipts, ses, events>>
  BY DEF Retrieve, HandleRead, Reread, dbVars, envVars
<1>1. CASE Retrieve(p)
  <2>1. \/ Return(p) \/ Goto(p, "disregardRead", "-")
        \/ Goto(p, "handleRead", Disposition(ses[C(p)]))
    BY <1>1 DEF Retrieve
  <2>2. Disposition(ses[C(p)]) = "paid" => ses[C(p)] = "paid"
    BY DEF Disposition
  <2>3. CASE Return(p) \/ Goto(p, "disregardRead", "-")
    BY <1>0, <2>3, Returns, Goes, MoveKeeps DEF PC, Telling
  <2>4. CASE Goto(p, "handleRead", Disposition(ses[C(p)]))
    BY <1>0, <2>2, <2>4, Goes, MoveKeeps DEF PC, C
  <2> QED BY <2>1, <2>3, <2>4
<1>2. CASE HandleRead(p)
  <2>1. CASE Return(p)
    BY <1>0, <2>1, Returns, MoveKeeps DEF Telling
  <2>2. CASE Goto(p, "disregardRead", "-") \/ Goto(p, "flag", "-")
    BY <1>0, <2>2, Goes, MoveKeeps DEF PC
  <2>3. ASSUME NEW action, Goto(p, "claim", action), proc[p].arg = "paid" PROVE PaidInv'
    <3>1. ses[C(p)] = "paid"
      BY <1>2, <2>3 DEF HandleRead, At, PaidInv, HeardOfPayment
    <3> QED BY <1>0, <2>3, <3>1, Goes, MoveKeeps DEF PC, C
  <2> QED BY <1>2, <2>1, <2>2, <2>3 DEF HandleRead
<1>3. CASE Reread(p)
  <2>1. Issuing(p) /\ \E arg : Goto(p, "issue", arg)
    BY <1>3 DEF Reread, Issuing, At
  <2> QED BY <1>0, <2>1, Goes, MoveKeeps DEF PC
<1> QED BY <1>1, <1>2, <1>3

\* The claim makes the row live with the money there, and its winner is the
\* only one to go on to the receipt: what can be claimed is not paid, and what
\* is being issued is.
LEMMA PaidClaim ==
    ASSUME TypeOK, PaidInv, NEW p \in Procs, Claim(p)
    PROVE  PaidInv'
<1> DEFINE c == C(p)
<1>0. /\ c \in Cards /\ ses[c] = "paid" /\ proc[p].at = "claim"
      /\ card \in [Cards -> CardRecord] /\ receipts \in [Cards -> 0..2]
      /\ UNCHANGED <<receipts, ses, events>>
  BY HasCard DEF Claim, At, PaidInv, HeardOfPayment, TypeOK, TablesOK, envVars
<1>1. CASE ~Claimable(card[c], proc[p].arg)
  <2>1. Return(p) /\ UNCHANGED <<card, receipts, ses, events>>
    BY <1>1 DEF Claim, envVars
  <2> QED BY <2>1, Returns, MoveKeeps DEF Telling
<1>2. CASE Claimable(card[c], proc[p].arg)
  <2>1. PICK n : card' = [card EXCEPT ![c] =
                   [card[c] EXCEPT !.status = "ACTIVE", !.bal = FaceValue, !.paid = TRUE,
                                   !.sess = TRUE, !.note = n]]
    BY <1>2 DEF Claim
  <2>2. /\ \A q \in Procs \ {p} : proc'[q] = proc[q]
        /\ proc'[p].at = "reread" /\ proc'[p].card = c
    BY <1>2, Goes DEF Claim, PC, C
  <2>3. ~card[c].paid
    BY <1>0, <1>2 DEF Claimable, SystemCancelled, PaidInv, OneIssues
  <2>4. /\ card'[c].status = "ACTIVE" /\ card'[c].paid
        /\ \A d \in Cards \ {c} : card'[d] = card[d]
    BY <1>0, <2>1 DEF CardRecord
  <2>5. receipts[c] = 0
    BY <1>0, <2>3 DEF PaidInv, OneIssues
  <2>6. \A q \in Procs : Issuing(q) => C(q) # c
    BY <2>3 DEF PaidInv, OneIssues
  <2>7. HeardOfPayment'
    BY <1>0, <2>2 DEF PaidInv, HeardOfPayment, C
  <2>8. OneIssues'
    <3> HIDE DEF c
    <3>1. \A d \in Cards : card'[d].status = "PENDING_PAYMENT" => ~card'[d].paid
      BY <1>0, <2>4 DEF PaidInv, OneIssues
    <3>2. \A q \in Procs : q # p /\ proc'[q].at \in {"reread", "issue"}
             => Issuing(q) /\ proc'[q].card = C(q) /\ C(q) # c /\ C(q) \in Cards
      BY <2>2, <2>6, Belong DEF Issuing, Telling, C
    <3>3. \A q \in Procs : Issuing(q)' =>
             card'[C(q)'].paid /\ ses'[C(q)'] = "paid" /\ receipts'[C(q)'] = 0
      BY <1>0, <2>2, <2>4, <2>5, <3>2 DEF PaidInv, OneIssues, Issuing, C
    <3>4. \A q, r \in Procs : Issuing(q)' /\ Issuing(r)' /\ C(q)' = C(r)' => q = r
      BY <2>2, <3>2 DEF PaidInv, OneIssues, Issuing, C
    <3>5. \A d \in Cards : receipts'[d] # 0 =>
             receipts'[d] = 1 /\ card'[d].paid /\ ses'[d] = "paid"
      BY <1>0, <2>4, <2>5 DEF PaidInv, OneIssues
    <3> QED BY <3>1, <3>3, <3>4, <3>5 DEF OneIssues
  <2>9. LiveMeansPaid'
    <3>1. \A d \in Cards \ {c} : card'[d] = card[d] /\ ses'[d] = ses[d]
      BY <1>0, <2>4
    <3> QED BY <1>0, <3>1 DEF PaidInv, LiveMeansPaid
  <2> QED BY <2>7, <2>8, <2>9 DEF PaidInv
<1> QED BY <1>1, <1>2

LEMMA PaidIssue ==
    ASSUME TypeOK, PaidInv, NEW p \in Procs, IssueReceipt(p)
    PROVE  PaidInv'
<1> DEFINE c == C(p)
<1>0. /\ c \in Cards /\ Issuing(p) /\ receipts \in [Cards -> 0..2]
      /\ card[c].paid /\ ses[c] = "paid" /\ receipts[c] = 0
      /\ UNCHANGED <<card, ses, events>>
  BY HasCard DEF IssueReceipt, At, Issuing, PaidInv, OneIssues, TypeOK, TablesOK, envVars
<1>1. receipts'[c] = 1 /\ \A d \in Cards \ {c} : receipts'[d] = receipts[d]
  BY <1>0 DEF IssueReceipt, AtMostTwo
<1>2. /\ \A q \in Procs \ {p} : proc'[q] = proc[q]
      /\ proc'[p].at \notin Telling
  BY Returns, Goes DEF IssueReceipt, PC, Telling
<1>3. HeardOfPayment'
  BY <1>0, <1>2 DEF PaidInv, HeardOfPayment, C, Telling
<1>4. OneIssues'
  <2>1. \A q \in Procs : proc'[q].at \in {"reread", "issue"}
           => Issuing(q) /\ proc'[q].card = C(q) /\ C(q) # c /\ C(q) \in Cards
    BY <1>0, <1>2, Belong DEF PaidInv, OneIssues, Issuing, Telling, C
  <2>2. \A q \in Procs : Issuing(q)' =>
           card'[C(q)'].paid /\ ses'[C(q)'] = "paid" /\ receipts'[C(q)'] = 0
    BY <1>0, <1>1, <2>1 DEF PaidInv, OneIssues, Issuing, C
  <2>3. \A q, r \in Procs : Issuing(q)' /\ Issuing(r)' /\ C(q)' = C(r)' => q = r
    BY <2>1 DEF PaidInv, OneIssues, Issuing, C
  <2>4. \A d \in Cards : receipts'[d] # 0 =>
           receipts'[d] = 1 /\ card'[d].paid /\ ses'[d] = "paid"
    BY <1>0, <1>1 DEF PaidInv, OneIssues
  <2>5. \A d \in Cards : card'[d].status = "PENDING_PAYMENT" => ~card'[d].paid
    BY <1>0 DEF PaidInv, OneIssues
  <2> QED BY <2>2, <2>3, <2>4, <2>5 DEF OneIssues
<1>5. LiveMeansPaid'
  BY <1>0 DEF PaidInv, LiveMeansPaid
<1> QED BY <1>3, <1>4, <1>5 DEF PaidInv

-----------------------------------------------------------------------------
(* Sales.  A row that is sold had no session, no receipt and no payment.   *)

\* Row c changes from unsold; sessions, events and receipts stay.
LEMMA SaleKeeps ==
    ASSUME TypeOK, SoldInv, PaidInv, NEW p \in Procs, NEW c \in Cards,
           card[c].status = "NONE",
           \A d \in Cards \ {c} : card'[d] = card[d],
           card'[c].status = "PENDING_PAYMENT" => ~card'[c].paid,
           card'[c].status \in Live => card'[c].tender # "STRIPE",
           UNCHANGED <<receipts, ses, events>>,
           \A q \in Procs \ {p} : proc'[q] = proc[q],
           proc'[p].at \in Telling => proc'[p].at = "createSession" /\ proc'[p].card = c
    PROVE  PaidInv'
<1>1. ses[c] = "none" /\ ~card[c].paid /\ receipts[c] = 0
  BY DEF SoldInv
<1>2. HeardOfPayment'
  BY <1>1 DEF PaidInv, HeardOfPayment, C, Telling
<1>3. OneIssues'
  <2>1. \A q \in Procs : proc'[q].at \in {"reread", "issue"}
           => Issuing(q) /\ proc'[q].card = C(q) /\ C(q) # c /\ C(q) \in Cards
    BY <1>1, Belong DEF PaidInv, OneIssues, Issuing, Telling, C
  <2>2. \A q \in Procs : Issuing(q)' =>
           card'[C(q)'].paid /\ ses'[C(q)'] = "paid" /\ receipts'[C(q)'] = 0
    BY <2>1 DEF PaidInv, OneIssues, Issuing, C
  <2>3. \A q, r \in Procs : Issuing(q)' /\ Issuing(r)' /\ C(q)' = C(r)' => q = r
    BY <2>1 DEF PaidInv, OneIssues, Issuing, C
  <2>4. \A d \in Cards : receipts'[d] # 0 =>
           receipts'[d] = 1 /\ card'[d].paid /\ ses'[d] = "paid"
    BY <1>1 DEF PaidInv, OneIssues
  <2>5. \A d \in Cards : card'[d].status = "PENDING_PAYMENT" => ~card'[d].paid
    BY DEF PaidInv, OneIssues
  <2> QED BY <2>2, <2>3, <2>4, <2>5 DEF OneIssues
<1>4. LiveMeansPaid'
  BY DEF PaidInv, LiveMeansPaid
<1> QED BY <1>2, <1>3, <1>4 DEF PaidInv

LEMMA PaidCreateCard ==
    ASSUME TypeOK, SoldInv, PaidInv, NEW p \in Procs, NEW s \in BOOLEAN, CreateCard(p, s)
    PROVE  PaidInv'
<1> DEFINE c == C(p)
           promo == proc[p].arg = "promo"
<1>0. /\ c \in Cards /\ card[c].status = "NONE"
      /\ card \in [Cards -> CardRecord]
      /\ UNCHANGED <<receipts, ses, events>>
  BY HasCard DEF CreateCard, At, SoldInv, TypeOK, TablesOK, envVars
<1>1. CASE Return(p) /\ UNCHANGED card
  BY <1>0, <1>1, Returns, MoveKeeps DEF Telling
<1>2. CASE card' = [card EXCEPT ![c] = SoldInTest(c, promo, s)] /\ (Return(p) \/ Goto(p, "send", "unsent"))
  <2>1. proc'[p].at \notin Telling /\ \A q \in Procs \ {p} : proc'[q] = proc[q]
    BY <1>2, Returns, Goes DEF PC, Telling
  <2>2. card'[c].status = "ACTIVE" /\ card'[c].tender = "TEST"
    BY <1>0, <1>2 DEF SoldInTest, Sold, Unsold
  <2>3. \A d \in Cards \ {c} : card'[d] = card[d]
    BY <1>0, <1>2
  <2> HIDE DEF c
  <2> QED BY <1>0, <2>1, <2>2, <2>3, SaleKeeps
<1>3. CASE card' = [card EXCEPT ![c] = Sold(c, promo, s)] /\ Goto(p, "createSession", "-")
  <2>1. /\ proc'[p].at = "createSession" /\ proc'[p].card = c
        /\ \A q \in Procs \ {p} : proc'[q] = proc[q]
    BY <1>3, Goes DEF PC, C
  <2>2. card'[c].status = "PENDING_PAYMENT" /\ ~card'[c].paid
    BY <1>0, <1>3 DEF Sold, Unsold
  <2>3. \A d \in Cards \ {c} : card'[d] = card[d]
    BY <1>0, <1>3
  <2> HIDE DEF c
  <2> QED BY <1>0, <2>1, <2>2, <2>3, SaleKeeps DEF Live
<1> QED BY <1>1, <1>2, <1>3 DEF CreateCard

LEMMA PaidActivate ==
    ASSUME TypeOK, SoldInv, PaidInv, NEW p \in Procs, NEW c \in Cards,
           NEW tender \in {"COUNTER", "COMP"}, NEW withEmail \in BOOLEAN,
           ActivatePhysicalCard(p, c, tender, withEmail)
    PROVE  PaidInv'
<1>1. /\ card[c].status = "NONE" /\ card \in [Cards -> CardRecord] /\ proc[p].at = "idle"
      /\ UNCHANGED <<receipts, ses, events>>
  BY DEF ActivatePhysicalCard, TypeOK, TablesOK, Idle, At, envVars
<1>2. /\ card'[c].status = "ACTIVE" /\ card'[c].tender # "STRIPE"
      /\ \A d \in Cards \ {c} : card'[d] = card[d]
  BY <1>1 DEF ActivatePhysicalCard, Unsold
<1>3. proc'[p].at \notin Telling /\ \A q \in Procs \ {p} : proc'[q] = proc[q]
  BY <1>1 DEF ActivatePhysicalCard, Begin, IdleProc, Telling, TypeOK, ProcsOK
<1> QED BY <1>1, <1>2, <1>3, SaleKeeps

\* The session is created for a card that had none and that nobody else holds.
LEMMA PaidCreateSession ==
    ASSUME TypeOK, SoldInv, PaidInv, NEW p \in Procs, CreateSession(p)
    PROVE  PaidInv'
<1> DEFINE c == C(p)
<1>0. /\ c \in Cards /\ ses[c] = "none" /\ ses \in [Cards -> SessionState]
      /\ proc[p].at = "createSession"
      /\ UNCHANGED <<card, receipts, events>>
  BY HasCard DEF CreateSession, At, PaidInv, HeardOfPayment, TypeOK, WorldOK, dbVars
<1>1. ses'[c] = "open" /\ \A d \in Cards \ {c} : ses'[d] = ses[d]
  BY <1>0 DEF CreateSession
<1>2. \A q \in Procs \ {p} : proc'[q] = proc[q]
  BY Goes DEF CreateSession, PC
<1>3. proc'[p].at \notin Telling
  BY Goes DEF CreateSession, PC, Telling
<1>4. \A q \in Procs : proc'[q].at \in Telling => proc'[q] = proc[q] /\ C(q) \in Cards
  BY <1>2, <1>3, Belong DEF C
<1>5. ASSUME NEW q \in Procs, proc'[q].at \in {"reserve", "createSession"} PROVE C(q) # c
  <2>1. q # p /\ proc[q].at \in {"reserve", "createSession"}
    BY <1>2, <1>3, <1>5 DEF Telling
  <2> QED BY <1>0, <2>1 DEF SoldInv, CheckingOut
<1>6. \A d \in Cards : ses[d] = "paid" => ses'[d] = "paid"
  BY <1>0, <1>1
<1>7. HeardOfPayment'
  <2>1. \A e \in events' : e.says = "paid" => ses'[e.card] = "paid"
    BY <1>0, <1>6, Belong DEF PaidInv, HeardOfPayment
  <2>2. \A q \in Procs : proc'[q].at = "handleRead" /\ proc'[q].arg = "paid"
           => ses'[proc'[q].card] = "paid"
    BY <1>4, <1>6 DEF PaidInv, HeardOfPayment, C, Telling
  <2>3. \A q \in Procs : proc'[q].at = "claim" => ses'[proc'[q].card] = "paid"
    BY <1>4, <1>6 DEF PaidInv, HeardOfPayment, C, Telling
  <2>4. \A q \in Procs : proc'[q].at \in {"reserve", "createSession"}
           => ses'[proc'[q].card] = "none"
    BY <1>1, <1>4, <1>5 DEF PaidInv, HeardOfPayment, C, Telling
  <2> QED BY <2>1, <2>2, <2>3, <2>4 DEF HeardOfPayment, C
<1>8. OneIssues'
  <2>1. \A q \in Procs : proc'[q].at \in {"reread", "issue"}
           => Issuing(q) /\ proc'[q].card = C(q) /\ C(q) \in Cards
    BY <1>4 DEF Issuing, Telling, C
  <2> QED BY <1>0, <1>6, <2>1 DEF PaidInv, OneIssues, Issuing, C
<1>9. LiveMeansPaid'
  BY <1>0, <1>6 DEF PaidInv, LiveMeansPaid
<1> QED BY <1>7, <1>8, <1>9 DEF PaidInv

-----------------------------------------------------------------------------
(* Every step *)

LEMMA PaidHandler ==
    ASSUME TypeOK, SoldInv, PaidInv, NEW p \in Procs, HandlerStep(p)
    PROVE  PaidInv'
<1>1. ASSUME Tame(p) PROVE PaidInv'
  BY <1>1, TameKeeps
<1>2. CASE CheckoutStep(p)
  BY <1>1, <1>2, TameWrites, PaidCreateCard, PaidCreateSession DEF CheckoutStep
<1>3. CASE PaymentStep(p)
  BY <1>1, <1>3, TameMoves, TameWrites, PaidAsks, PaidClaim, PaidIssue DEF PaymentStep
<1>4. CASE CardStep(p)
  BY <1>1, <1>4, TameMoves, TameWrites DEF CardStep
<1>5. CASE SweepStep(p) \/ JobEnds(p) \/ \E c \in Cards : DrainNext(p, c)
  BY <1>1, <1>5, TameMoves, TameWrites DEF SweepStep
<1> QED BY <1>2, <1>3, <1>4, <1>5 DEF HandlerStep

LEMMA PaidRequestStarts ==
    ASSUME TypeOK, SoldInv, PaidInv, NEW p \in Requests, RequestStarts(p)
    PROVE  PaidInv'
<1>0. p \in Procs /\ proc \in [Procs -> ProcRecord]
  BY DEF Procs, TypeOK, ProcsOK
<1>begin. ASSUME NEW where, NEW arg, NEW c, Begin(p, where, c, arg)
          PROVE  /\ \A q \in Procs \ {p} : proc'[q] = proc[q]
                 /\ proc'[p].card = c /\ proc'[p].at = where /\ proc'[p].arg = arg
  BY <1>0, <1>begin DEF Begin, IdleProc
<1>1. ASSUME NEW e \in events, Webhook(p, e) PROVE PaidInv'
  <2>1. UNCHANGED <<card, receipts, ses, events>>
    BY <1>1 DEF Webhook, dbVars, envVars
  <2>2. e.says = "paid" => ses[e.card] = "paid"
    BY DEF PaidInv, HeardOfPayment
  <2>3. CASE Begin(p, "disregardRead", e.card, "-")
    BY <1>0, <1>begin, <2>1, <2>3, MoveKeeps
  <2>4. CASE Begin(p, "handleRead", e.card, e.says)
    <3>1. /\ \A q \in Procs \ {p} : proc'[q] = proc[q]
          /\ proc'[p].card = e.card /\ proc'[p].at = "handleRead" /\ proc'[p].arg = e.says
      BY <1>begin, <2>4
    <3> QED BY <1>0, <2>1, <2>2, <3>1, MoveKeeps
  <2> QED BY <1>1, <2>3, <2>4 DEF Webhook
<1>2. ASSUME NEW c \in Cards, NEW promo \in BOOLEAN, StartCheckout(p, c, promo) PROVE PaidInv'
  <2>1. UNCHANGED <<card, receipts, ses, events>> /\ card[c].status = "NONE"
    BY <1>2 DEF StartCheckout, dbVars, envVars
  <2>2. ses[c] = "none"
    BY <2>1 DEF SoldInv
  <2>3. \E arg : Begin(p, "reserve", c, arg)
    BY <1>2 DEF StartCheckout
  <2>4. /\ \A q \in Procs \ {p} : proc'[q] = proc[q]
        /\ proc'[p].card = c /\ proc'[p].at = "reserve"
    BY <1>begin, <2>3
  <2> QED BY <1>0, <2>1, <2>2, <2>4, MoveKeeps
<1>3. ASSUME NEW c \in Cards, NEW amount \in 1..FaceValue, RedeemStart(p, c, amount) PROVE PaidInv'
  <2>1. UNCHANGED <<card, receipts, ses, events>>
    BY <1>3 DEF RedeemStart, dbVars, envVars
  <2>2. (\A q \in Procs \ {p} : proc'[q] = proc[q]) /\ proc'[p].at = "redeemWrite"
    BY <1>0, <1>3 DEF RedeemStart, IdleProc
  <2> QED BY <1>0, <2>1, <2>2, MoveKeeps
<1>4. ASSUME NEW c \in Cards, Poll(p, c) \/ CancelStart(p, c) \/ ResendStart(p, c) PROVE PaidInv'
  <2>1. UNCHANGED <<card, receipts, ses, events>>
    BY <1>4 DEF Poll, CancelStart, ResendStart, dbVars, envVars
  <2>2. \E where \in {"retrieve", "cancelWrite", "resendReset"} : Begin(p, where, c, "-")
    BY <1>4 DEF Poll, CancelStart, ResendStart
  <2>3. /\ \A q \in Procs \ {p} : proc'[q] = proc[q]
        /\ proc'[p].at \in {"retrieve", "cancelWrite", "resendReset"}
    BY <1>begin, <2>2
  <2> QED BY <1>0, <2>1, <2>3, MoveKeeps
<1> QED BY <1>0, <1>1, <1>2, <1>3, <1>4, PaidActivate DEF RequestStarts

\* The sweep makes nothing live: it expires what is.
LEMMA PaidJobs ==
    ASSUME TypeOK, PaidInv, NEW p \in Procs, SweepExpired(p) \/ DrainList(p) \/ Crash(p)
    PROVE  PaidInv'
<1>1. CASE SweepExpired(p)
  <2>1. UNCHANGED <<receipts, ses, events>>
    BY <1>1 DEF SweepExpired, envVars
  <2>2. (\A q \in Procs \ {p} : proc'[q] = proc[q]) /\ proc'[p].at \notin Telling
    BY <1>1 DEF SweepExpired, Begin, IdleProc, Telling, TypeOK, ProcsOK
  <2>3. \A c \in Cards :
          /\ card'[c].tender = card[c].tender
          /\ card'[c].paid = card[c].paid
          /\ card'[c].status \in Live => card[c].status \in Live
          /\ card'[c].status = "PENDING_PAYMENT" => card[c].status = "PENDING_PAYMENT"
    BY <1>1 DEF SweepExpired, TypeOK, TablesOK, CardRecord, Live
  <2>4. Tame(p)
    BY <2>1, <2>2, <2>3 DEF Tame
  <2> QED BY <2>4, TameKeeps
<1>2. CASE DrainList(p) \/ Crash(p)
  BY <1>2, TameMoves, TameKeeps
<1> QED BY <1>1, <1>2

\* A session that is paid stays so; what Stripe calls paid, is.
LEMMA PaidEnvironment ==
    ASSUME TypeOK, PaidInv, NEW c \in Cards, Stripe(c) \/ \E d \in Deadline : DeadlinePasses(c, d)
    PROVE  PaidInv'
<1>0. UNCHANGED <<card, receipts, proc>> /\ ses \in [Cards -> SessionState]
  BY DEF Stripe, BuyerPays, BuyerPaysLater, MoneyArrives, MoneyFails, SessionExpires,
         DeadlinePasses, dbVars, TypeOK, WorldOK
<1>1. \A d \in Cards : /\ ses[d] = "paid" => ses'[d] = "paid"
                       /\ ses[d] = "none" => ses'[d] = "none"
  BY <1>0 DEF Stripe, BuyerPays, BuyerPaysLater, MoneyArrives, MoneyFails, SessionExpires,
              DeadlinePasses
<1>2. \A e \in events' : e \in events \/ (e.card = c /\ (e.says = "paid" => ses'[c] = "paid"))
  <2>1. ASSUME NEW s, NEW says, Emit(c, says), ses' = [ses EXCEPT ![c] = s],
               says = "paid" => s = "paid"
        PROVE  \A e \in events' : e \in events \/ (e.card = c /\ (e.says = "paid" => ses'[c] = "paid"))
    BY <1>0, <2>1 DEF Emit
  <2>2. CASE Stripe(c)
    BY <2>1, <2>2 DEF Stripe, BuyerPays, BuyerPaysLater, MoneyArrives, MoneyFails, SessionExpires
  <2>3. CASE \E d \in Deadline : DeadlinePasses(c, d)
    BY <2>3 DEF DeadlinePasses
  <2> QED BY <2>2, <2>3
<1>3. HeardOfPayment'
  <2>1. \A e \in events' : e.says = "paid" => ses'[e.card] = "paid"
    BY <1>1, <1>2, Belong DEF PaidInv, HeardOfPayment
  <2> QED BY <1>0, <1>1, <2>1, Belong DEF PaidInv, HeardOfPayment, C, Telling
<1>4. OneIssues'
  BY <1>0, <1>1, Belong DEF PaidInv, OneIssues, Issuing, C, Telling
<1>5. LiveMeansPaid'
  BY <1>0, <1>1 DEF PaidInv, LiveMeansPaid
<1> QED BY <1>3, <1>4, <1>5 DEF PaidInv

LEMMA PaidStep == TypeOK /\ SoldInv /\ PaidInv /\ [Next]_vars => PaidInv'
<1> SUFFICES ASSUME TypeOK, SoldInv, PaidInv, [Next]_vars PROVE PaidInv'
  OBVIOUS
<1>1. CASE UNCHANGED vars
  BY <1>1 DEF vars, PaidInv, HeardOfPayment, OneIssues, LiveMeansPaid, Issuing, C
<1>2. ASSUME NEW p \in Procs, HandlerStep(p) PROVE PaidInv'
  BY <1>2, PaidHandler
<1>3. ASSUME NEW p \in Requests, RequestStarts(p) PROVE PaidInv'
  BY <1>3, PaidRequestStarts
<1>4. ASSUME NEW p \in Procs, SweepExpired(p) \/ DrainList(p) \/ Crash(p) PROVE PaidInv'
  BY <1>4, PaidJobs
<1>5. ASSUME NEW c \in Cards, Stripe(c) \/ \E d \in Deadline : DeadlinePasses(c, d) PROVE PaidInv'
  BY <1>5, PaidEnvironment
<1> QED BY <1>1, <1>2, <1>3, <1>4, <1>5 DEF Next, Step, Procs

LEMMA PaidInit == Init => PaidInv
BY DEF Init, PaidInv, HeardOfPayment, OneIssues, LiveMeansPaid, Issuing, Live, C, IdleProc, Unsold,
       ClosedTooEarly

LEMMA PaidAlways == Spec => []PaidInv
<1>1. Spec => [](TypeOK /\ SoldInv /\ PaidInv)
  BY SoldInit, SoldStep, PaidInit, PaidStep, TypeStep, TypeCorrect, PTL DEF Spec
<1> QED BY <1>1, PTL

\* However many webhooks, polls and sweeps read however stale a state, a card
\* sold through Stripe is spendable only if Stripe holds its money.
THEOREM LiveIsPaid == Spec => []LiveMeansPaid
<1>1. PaidInv => LiveMeansPaid
  BY DEF PaidInv
<1> QED BY <1>1, PaidAlways, PTL

\* Of all the handlers that learn of a payment, one issues the receipt.
THEOREM OneReceiptEach == Spec => []ReceiptOnce
<1>1. TypeOK /\ PaidInv => ReceiptOnce
  BY DEF PaidInv, OneIssues, ReceiptOnce, TypeOK, TablesOK
<1> QED BY <1>1, PaidAlways, TypeCorrect, PTL

-----------------------------------------------------------------------------
(* What the system closes is lost.  A handler on its way to closing a card *)
(* has heard that its money will not come; the sweep may close a card it   *)
(* did not ask Stripe about, because no buyer ever got that card's session *)
(* and no checkout is left that could hand it to one.                      *)

Final(c) == ses[c] \in {"failed", "expired", "paidOdd"}

Unreached(c) ==
    ses[c] \in {"none", "open"} /\ ~card[c].sess /\ card[c].status # "NONE" /\ Unclaimed(c)

Lost(c) == Final(c) \/ Unreached(c)

\* A handler that was told the money will not come.
Closing(p) ==
    \/ proc[p].at \in {"disregardRead", "close"}
    \/ proc[p].at = "handleRead" /\ proc[p].arg = "paidOdd"

ClosingHeard ==
    /\ \A e \in events : e.says \in {"closed", "paidOdd"} => Final(e.card)
    /\ \A p \in Procs : Closing(p) => Final(C(p))
    /\ \A p \in Procs : proc[p].at = "closeAbandoned" => Lost(C(p))

SweepOfStale ==
    /\ \A p \in Procs : proc[p].at \in {"sweepList", "sweepNext"} => p \in Sweepers
    /\ \A p \in Sweepers : \A c \in proc[p].todo : "abandoned" \in passed[c]
    /\ \A c \in Cards : "abandoned" \in passed[c] => card[c].status # "NONE" /\ Unclaimed(c)
    /\ \A c \in Cards : ~card[c].sess => ses[c] \in {"none", "open", "expired"}

ClosedIsLost ==
    \A c \in Cards \ LegacyCards : card[c].status = "CANCELLED" /\ ~card[c].byPerson => Lost(c)

ClosedInv == ClosingHeard /\ SweepOfStale /\ ClosedIsLost

\* A sold card that no checkout holds is never taken up by one again.
LEMMA UnclaimedStays ==
    ASSUME TypeOK, SoldInv, [Next]_vars, NEW c \in Cards, card[c].status # "NONE", Unclaimed(c)
    PROVE  Unclaimed(c)'
<1> SUFFICES ASSUME NEW q \in Procs, proc'[q].card = c
             PROVE  proc'[q].at \notin {"reserve", "createSession", "saveSession"}
  BY DEF Unclaimed, C
<1>1. proc[q].card = c => proc[q].at \notin {"reserve", "createSession", "saveSession"}
  BY DEF Unclaimed, C
<1>2. CASE proc'[q] = proc[q]
  BY <1>1, <1>2
<1>3. ASSUME NEW p \in Procs, HandlerStep(p)
      PROVE  proc'[q].at \notin {"reserve", "createSession", "saveSession"}
  BY <1>1, <1>3, HandlerMoves
<1>4. ASSUME NEW p \in Requests, RequestStarts(p)
      PROVE  proc'[q].at \notin {"reserve", "createSession", "saveSession"}
  BY <1>1, <1>4, RequestMoves
<1>5. ASSUME NEW p \in Procs, SweepExpired(p) \/ DrainList(p) \/ Crash(p)
      PROVE  proc'[q] = proc[q] \/ proc'[q].at \notin {"reserve", "createSession", "saveSession"}
  <2>1. CASE SweepExpired(p)
    BY <2>1 DEF SweepExpired, Begin, IdleProc, TypeOK, ProcsOK
  <2>2. CASE DrainList(p)
    BY <2>2 DEF DrainList, IdleProc, TypeOK, ProcsOK
  <2>3. CASE Crash(p)
    BY <2>3 DEF Crash, IdleProc, TypeOK, ProcsOK
  <2> QED BY <1>5, <2>1, <2>2, <2>3
<1>6. CASE UNCHANGED vars \/ \E d \in Cards : Stripe(d) \/ \E l \in Deadline : DeadlinePasses(d, l)
  BY <1>2, <1>6 DEF vars, Stripe, BuyerPays, BuyerPaysLater, MoneyArrives, MoneyFails,
                    SessionExpires, DeadlinePasses
<1> QED BY <1>2, <1>3, <1>4, <1>5, <1>6 DEF Next, Step, Procs

\* What a handler step does to a row, a session, and the columns that the
\* closing of cards is about.
RowKeeps(c) ==
    /\ card'[c].promo = card[c].promo /\ card'[c].tender = card[c].tender
    /\ card'[c].sess = card[c].sess
    /\ card'[c].byPerson = card[c].byPerson
    /\ card'[c].status = card[c].status
          \/ (card[c].status = "ACTIVE" /\ card'[c].status \in Live)

RowSold(c) ==
    /\ card[c].status = "NONE" /\ card'[c].status # "CANCELLED"
    /\ card'[c].promo => /\ Cardinality(Reserved) < MaxRedemptions
                         /\ \A d \in Cards \ {c} : card'[d] = card[d]

RowClosed(c) ==
    /\ card'[c].promo = card[c].promo /\ card'[c].tender = card[c].tender
    /\ card'[c].status = "CANCELLED"
    /\ \/ card'[c].byPerson /\ card'[c].sess = card[c].sess
       \/ card'[c].byPerson = card[c].byPerson /\ card'[c].sess /\ Final(c)
       \/ card'[c].byPerson = card[c].byPerson /\ card'[c].sess = card[c].sess /\ Lost(c)

RowClaimed(c) ==
    /\ card'[c].promo = card[c].promo /\ card'[c].tender = card[c].tender
    /\ card'[c].sess
    /\ card'[c].byPerson = card[c].byPerson
    /\ card'[c].status = "ACTIVE"
    /\ card[c].status = "PENDING_PAYMENT" \/ SystemCancelled(card[c])
    /\ ses[c] = "paid"

RowReachable(c) ==
    /\ card'[c].promo = card[c].promo /\ card'[c].tender = card[c].tender
    /\ card'[c].sess
    /\ card'[c].byPerson = card[c].byPerson /\ card'[c].status = card[c].status
    /\ \E p \in Procs : proc[p].at = "saveSession" /\ C(p) = c

LEMMA ClosingRows ==
    ASSUME TypeOK, SoldInv, PaidInv, ClosedInv, NEW p \in Procs, HandlerStep(p), NEW c \in Cards
    PROVE  RowKeeps(c) \/ RowSold(c) \/ RowClosed(c) \/ RowClaimed(c) \/ RowReachable(c)
<1> DEFINE Goal == RowKeeps(c) \/ RowSold(c) \/ RowClosed(c) \/ RowClaimed(c) \/ RowReachable(c)
<1> SUFFICES Goal
  OBVIOUS
<1>0. card \in [Cards -> CardRecord]
  BY DEF TypeOK, TablesOK
<1>same. ASSUME card'[c] = card[c] PROVE Goal
  BY <1>same DEF RowKeeps
<1>1. ASSUME NEW s \in BOOLEAN, CreateCard(p, s) PROVE Goal
  <2>1. CASE C(p) = c
    <3>1. card[c].status = "NONE"
      BY <1>1, <2>1 DEF CreateCard, At, SoldInv
    <3>2. card'[c].status # "CANCELLED"
      BY <1>0, <1>1, <2>1, <3>1 DEF CreateCard, Sold, SoldInTest, Unsold
    <3>3. \A d \in Cards \ {c} : card'[d] = card[d]
      BY <1>0, <1>1, <2>1 DEF CreateCard
    <3>4. card'[c].promo => Cardinality(Reserved) < MaxRedemptions \/ card'[c] = card[c]
      BY <1>0, <1>1, <2>1 DEF CreateCard, Sold, SoldInTest, Unsold
    <3> QED BY <1>same, <3>1, <3>2, <3>3, <3>4 DEF RowSold
  <2>2. CASE C(p) # c
    BY <1>0, <1>1, <1>same, <2>2 DEF CreateCard
  <2> QED BY <2>1, <2>2
<1>2. CASE SaveSession(p)
  <2>1. CASE C(p) = c
    BY <1>0, <1>2, <2>1 DEF SaveSession, At, RowReachable, CardRecord
  <2>2. CASE C(p) # c
    BY <1>0, <1>2, <1>same, <2>2 DEF SaveSession
  <2> QED BY <2>1, <2>2
<1>3. CASE FlagForRefund(p) \/ ResendReset(p) \/ MarkSent(p)
  <2>1. RowKeeps(c)
    BY <1>0, <1>3 DEF FlagForRefund, ResendReset, MarkSent, RowKeeps, CardRecord
  <2> QED BY <2>1
<1>4. CASE RedeemWrite(p)
  <2>1. RowKeeps(c)
    BY <1>0, <1>4 DEF RedeemWrite, RowKeeps, CardRecord, Live
  <2> QED BY <2>1
<1>5. CASE Claim(p)
  <2>1. CASE card'[c] # card[c]
    <3>1. C(p) = c /\ proc[p].at = "claim" /\ Claimable(card[c], proc[p].arg)
      BY <1>0, <1>5, <2>1 DEF Claim, At
    <3>2. ses[c] = "paid"
      BY <3>1 DEF PaidInv, HeardOfPayment
    <3>3. card[c].status = "PENDING_PAYMENT" \/ SystemCancelled(card[c])
      BY <3>1 DEF Claimable
    <3>4. PICK n : card'[c] = [card[c] EXCEPT !.status = "ACTIVE", !.bal = FaceValue,
                                              !.paid = TRUE, !.sess = TRUE, !.note = n]
      BY <1>0, <1>5, <3>1 DEF Claim
    <3>5. RowClaimed(c)
      BY <1>0, <3>2, <3>3, <3>4 DEF RowClaimed, CardRecord
    <3> QED BY <3>5
  <2> QED BY <1>same, <2>1
<1>6. CASE Close(p)
  <2>1. CASE card'[c] # card[c]
    <3>1. C(p) = c /\ proc[p].at = "close"
      BY <1>0, <1>6, <2>1 DEF Close, At
    <3>2. Final(c)
      BY <3>1 DEF ClosedInv, ClosingHeard, Closing
    <3>3. card'[c] = [card[c] EXCEPT !.status = "CANCELLED", !.bal = 0, !.sess = TRUE,
                                     !.note = "unconfirmed"]
      BY <1>0, <1>6, <2>1, <3>1 DEF Close
    <3>4. RowClosed(c)
      BY <1>0, <3>2, <3>3 DEF RowClosed, CardRecord
    <3> QED BY <3>4
  <2> QED BY <1>same, <2>1
<1>7. CASE CloseAbandoned(p)
  <2>1. CASE card'[c] # card[c]
    <3>1. C(p) = c /\ proc[p].at = "closeAbandoned"
      BY <1>0, <1>7, <2>1 DEF CloseAbandoned, At
    <3>2. Lost(c)
      BY <3>1 DEF ClosedInv, ClosingHeard
    <3>3. card'[c] = [card[c] EXCEPT !.status = "CANCELLED", !.bal = 0]
      BY <1>0, <1>7, <2>1, <3>1 DEF CloseAbandoned
    <3>4. RowClosed(c)
      BY <1>0, <3>2, <3>3 DEF RowClosed, CardRecord
    <3> QED BY <3>4
  <2> QED BY <1>same, <2>1
<1>8. CASE CancelWrite(p)
  <2>1. CASE C(p) = c
    <3>1. RowClosed(c)
      BY <1>0, <1>8, <2>1 DEF CancelWrite, RowClosed, CardRecord
    <3> QED BY <3>1
  <2>2. CASE C(p) # c
    BY <1>0, <1>8, <1>same, <2>2 DEF CancelWrite
  <2> QED BY <2>1, <2>2
<1>9. CASE UNCHANGED card
  BY <1>9, <1>same
<1> HIDE DEF Goal
<1> QED
  BY <1>1, <1>2, <1>3, <1>4, <1>5, <1>6, <1>7, <1>8, <1>9
  DEF HandlerStep, CheckoutStep, PaymentStep, CardStep, SweepStep, CreateSession, Retrieve,
      RetrieveFails, HandleRead, Reread, IssueReceipt, DisregardRead, SweepList, SweepNext,
      DrainNext, JobEnds, Send, dbVars

\* How a session goes on: created by a checkout, then in the buyer's hands.
SessionKeeps(c) == ses'[c] = ses[c]

SessionMoves(c) ==
    \/ SessionKeeps(c)
    \/ /\ ses[c] = "none" /\ ses'[c] = "open"
       /\ \E p \in Procs : proc[p].at = "createSession" /\ C(p) = c
    \/ ses[c] = "open" /\ (card[c].sess \/ ses'[c] = "expired") /\ UNCHANGED card
    \/ ses[c] = "processing" /\ UNCHANGED card

LEMMA SessionStep ==
    ASSUME TypeOK, SoldInv, PaidInv, [Next]_vars, NEW c \in Cards
    PROVE  SessionMoves(c)
<1>0. ses \in [Cards -> SessionState]
  BY DEF TypeOK, WorldOK
<1>1. ASSUME NEW p \in Procs, HandlerStep(p) PROVE SessionMoves(c)
  <2>1. CASE CreateSession(p)
    <3>1. ses[C(p)] = "none" /\ proc[p].at = "createSession"
      BY <2>1 DEF CreateSession, At, PaidInv, HeardOfPayment
    <3> QED BY <1>0, <2>1, <3>1 DEF CreateSession, SessionMoves, SessionKeeps
  <2>2. CASE ~CreateSession(p)
    <3>1. ses' = ses
      BY <1>1, <2>2
      DEF HandlerStep, CheckoutStep, PaymentStep, CardStep, SweepStep, CreateCard, SaveSession,
          Retrieve, RetrieveFails, HandleRead, FlagForRefund, Claim, Reread, IssueReceipt,
          DisregardRead, Close, RedeemWrite, CancelWrite, ResendReset, Send, MarkSent, SweepList,
          CloseAbandoned, SweepNext, DrainNext, JobEnds, envVars
    <3> QED BY <3>1 DEF SessionMoves, SessionKeeps
  <2> QED BY <2>1, <2>2
<1>2. ASSUME NEW d \in Cards, Stripe(d) PROVE SessionMoves(c)
  BY <1>0, <1>2
  DEF Stripe, BuyerPays, BuyerPaysLater, MoneyArrives, MoneyFails, SessionExpires, dbVars,
      SessionMoves, SessionKeeps
<1>3. ASSUME NEW p \in Procs, SweepExpired(p) \/ DrainList(p) \/ Crash(p) PROVE SessionMoves(c)
  BY <1>3 DEF SweepExpired, DrainList, Crash, envVars, SessionMoves, SessionKeeps
<1>4. ASSUME NEW p \in Requests, RequestStarts(p) PROVE SessionMoves(c)
  BY <1>4, RequestMoves DEF envVars, SessionMoves, SessionKeeps
<1>5. ASSUME NEW d \in Cards, NEW l \in Deadline, DeadlinePasses(d, l) PROVE SessionMoves(c)
  BY <1>5 DEF DeadlinePasses, SessionMoves, SessionKeeps
<1>6. CASE UNCHANGED vars
  BY <1>6 DEF vars, SessionMoves, SessionKeeps
<1> QED BY <1>1, <1>2, <1>3, <1>4, <1>5, <1>6 DEF Next, Step, Procs

RowStep(c) == RowKeeps(c) \/ RowSold(c) \/ RowClosed(c) \/ RowClaimed(c) \/ RowReachable(c)

LEMMA ClosingRowStep ==
    ASSUME TypeOK, SoldInv, PaidInv, ClosedInv, [Next]_vars, NEW c \in Cards
    PROVE  RowStep(c)
<1>0. card \in [Cards -> CardRecord]
  BY DEF TypeOK, TablesOK
<1>same. ASSUME card'[c] = card[c] PROVE RowStep(c)
  BY <1>same DEF RowStep, RowKeeps
<1>1. ASSUME NEW p \in Procs, HandlerStep(p) PROVE RowStep(c)
  BY <1>1, ClosingRows DEF RowStep
<1>2. ASSUME NEW p \in Requests, RequestStarts(p) PROVE RowStep(c)
  <2>1. card'[c] = card[c] \/ (card[c].status = "NONE" /\ card'[c].status = "ACTIVE")
    BY <1>2, RequestMoves
  <2>2. card'[c] = card[c] \/ ~card'[c].promo
    BY <1>0, <1>2
    DEF RequestStarts, Webhook, StartCheckout, ActivatePhysicalCard, Poll, RedeemStart, CancelStart,
        ResendStart, dbVars, Unsold
  <2> QED BY <1>same, <2>1, <2>2 DEF RowStep, RowSold
<1>3. ASSUME NEW p \in Procs, SweepExpired(p) PROVE RowStep(c)
  BY <1>0, <1>3 DEF SweepExpired, RowStep, RowKeeps, Live, CardRecord
<1>4. ASSUME NEW p \in Procs, DrainList(p) \/ Crash(p) PROVE RowStep(c)
  BY <1>4, <1>same DEF DrainList, Crash, dbVars
<1>5. ASSUME NEW d \in Cards, Stripe(d) \/ \E l \in Deadline : DeadlinePasses(d, l) PROVE RowStep(c)
  BY <1>5, <1>same
  DEF Stripe, BuyerPays, BuyerPaysLater, MoneyArrives, MoneyFails, SessionExpires, DeadlinePasses,
      dbVars
<1>6. CASE UNCHANGED vars
  BY <1>6, <1>same DEF vars
<1> QED BY <1>1, <1>2, <1>3, <1>4, <1>5, <1>6 DEF Next, Step, Procs

\* A lost card stays lost.
LEMMA LostStays ==
    ASSUME TypeOK, SoldInv, PaidInv, ClosedInv, [Next]_vars, NEW c \in Cards
    PROVE  (Final(c) => Final(c)') /\ (Lost(c) => Lost(c)')
<1>1. SessionMoves(c) /\ RowStep(c)
  BY SessionStep, ClosingRowStep
<1>2. Final(c) => Final(c)'
  BY <1>1 DEF Final, SessionMoves, SessionKeeps
<1>3. ASSUME Unreached(c) PROVE Lost(c)'
  <2>1. Unclaimed(c)' /\ ~\E p \in Procs : proc[p].at \in {"createSession", "saveSession"} /\ C(p) = c
    BY <1>3, UnclaimedStays DEF Unreached, Unclaimed
  <2>2. SessionKeeps(c) \/ Final(c)'
    BY <1>1, <1>3, <2>1 DEF Unreached, SessionMoves, Final
  <2>3. ASSUME SessionKeeps(c), ~Final(c) PROVE Unreached(c)'
    <3>1. card'[c].sess = card[c].sess /\ card'[c].status # "NONE"
      BY <1>1, <1>3, <2>1, <2>3
      DEF RowStep, RowKeeps, RowSold, RowClosed, RowClaimed, RowReachable, Unreached, Live
    <3> QED BY <1>3, <2>1, <2>3, <3>1 DEF Unreached, SessionKeeps
  <2> QED BY <1>3, <2>2, <2>3 DEF Lost, Final, Unreached
<1> QED BY <1>2, <1>3 DEF Lost

LEMMA ClosedStep ==
    ASSUME TypeOK, SoldInv, PaidInv, ClosedInv, [Next]_vars
    PROVE  ClosedIsLost'
<1> SUFFICES ASSUME NEW c \in Cards \ LegacyCards, card'[c].status = "CANCELLED", ~card'[c].byPerson
             PROVE  Lost(c)'
  BY DEF ClosedIsLost, Lost, Final, Unreached
<1>1. RowStep(c) /\ (Lost(c) => Lost(c)')
  BY ClosingRowStep, LostStays
<1>2. card[c].status = "CANCELLED" /\ ~card[c].byPerson => Lost(c)
  BY DEF ClosedInv, ClosedIsLost
<1> QED
  BY <1>1, <1>2
  DEF RowStep, RowKeeps, RowSold, RowClosed, RowClaimed, RowReachable, Lost, Live

\* A handler is told to close a card only by Stripe: by an event, by an expired
\* session, or by a paid one whose amount is wrong.
LEMMA ClosingMoves ==
    ASSUME TypeOK, ClosedInv, NEW p \in Procs, HandlerStep(p), Closing(p)'
    PROVE  proc'[p].card = proc[p].card /\ Final(C(p)) /\ C(p) \in Cards
<1>ret. ~Return(p)
  <2>1. ASSUME Return(p) PROVE proc'[p].at \in {"sweepNext", "drainNext", "idle"}
    <3> DEFINE where == CASE p \in Sweepers -> "sweepNext" [] p \in Drainers -> "drainNext"
                          [] OTHER -> "idle"
    <3>1. where \in {"sweepNext", "drainNext", "idle"}
      OBVIOUS
    <3>2. proc'[p].at = where
      BY <2>1 DEF Return, IdleProc, TypeOK, ProcsOK, ProcRecord
    <3> QED BY <3>1, <3>2
  <2> QED BY <2>1 DEF Closing
<1>1. CASE Retrieve(p)
  <2>1. C(p) \in Cards
    BY <1>1, HasCard DEF Retrieve, At
  <2>2. /\ Disposition(ses[C(p)]) \in {"abandoned", "paidOdd"}
        /\ proc'[p].card = proc[p].card
    BY <1>1, <1>ret, Goes DEF Retrieve, Closing, Disposition, PC
  <2> QED BY <2>1, <2>2 DEF Disposition, Final
<1>2. CASE HandleRead(p)
  <2>1. C(p) \in Cards
    BY <1>2, HasCard DEF HandleRead, At
  <2>2. proc[p].at = "handleRead" /\ proc[p].arg = "paidOdd" /\ proc'[p].card = proc[p].card
    BY <1>2, <1>ret, Goes DEF HandleRead, At, Closing, PC
  <2> QED BY <2>1, <2>2 DEF ClosedInv, ClosingHeard, Closing
<1>3. CASE DisregardRead(p)
  <2>1. C(p) \in Cards
    BY <1>3, HasCard DEF DisregardRead, At
  <2>2. proc[p].at = "disregardRead" /\ proc'[p].card = proc[p].card
    BY <1>3, <1>ret, Goes DEF DisregardRead, At, PC
  <2> QED BY <2>1, <2>2 DEF ClosedInv, ClosingHeard, Closing
<1>go. ASSUME NEW where \in {"send", "mark", "issue", "reread", "createSession", "saveSession"},
              NEW arg, Goto(p, where, arg)
       PROVE  FALSE
  BY <1>go, Goes DEF PC, Closing
<1>4. CASE CheckoutStep(p)
  BY <1>4, <1>ret, <1>go DEF CheckoutStep, CreateCard, CreateSession, SaveSession
<1>5. CASE RetrieveFails(p) \/ FlagForRefund(p) \/ Close(p) \/ Claim(p) \/ Reread(p) \/ IssueReceipt(p)
  BY <1>5, <1>ret, <1>go DEF RetrieveFails, FlagForRefund, Close, Claim, Reread, IssueReceipt
<1>6. CASE CardStep(p)
  BY <1>6, <1>ret, <1>go DEF CardStep, RedeemWrite, CancelWrite, ResendReset, Send, MarkSent
<1>7. CASE SweepStep(p) \/ JobEnds(p) \/ \E c \in Cards : DrainNext(p, c)
  <2>1. CASE CloseAbandoned(p)
    BY <2>1, <1>ret DEF CloseAbandoned
  <2>2. CASE SweepList(p)
    <3>1. PICK batch : proc' = [proc EXCEPT ![p] = [IdleProc EXCEPT !.at = "sweepNext", !.todo = batch]]
      BY <2>2 DEF SweepList
    <3>2. proc'[p].at = "sweepNext"
      BY <3>1 DEF IdleProc, TypeOK, ProcsOK
    <3> QED BY <3>2 DEF Closing
  <2>3. CASE JobEnds(p)
    <3>1. proc'[p].at = "idle"
      BY <2>3 DEF JobEnds, IdleProc, TypeOK, ProcsOK
    <3> QED BY <3>1 DEF Closing
  <2>4. ASSUME NEW c \in Cards, SweepNext(p, c) PROVE FALSE
    <3>1. PICK where \in {"retrieve", "closeAbandoned"} :
             proc' = [proc EXCEPT ![p] =
                [proc[p] EXCEPT !.at = where, !.card = c, !.todo = proc[p].todo \ {c}]]
      BY <2>4 DEF SweepNext
    <3> QED BY <3>1 DEF TypeOK, ProcsOK, ProcRecord, Closing
  <2>5. ASSUME NEW c \in Cards, DrainNext(p, c) PROVE FALSE
    <3>1. proc'[p].at = "send"
      BY <2>5 DEF DrainNext, TypeOK, ProcsOK, ProcRecord
    <3> QED BY <3>1 DEF Closing
  <2> QED BY <1>7, <2>1, <2>2, <2>3, <2>4, <2>5 DEF SweepStep
<1> QED BY <1>1, <1>2, <1>3, <1>4, <1>5, <1>6, <1>7 DEF HandlerStep, PaymentStep

LEMMA PassedStays ==
    ASSUME TypeOK, [Next]_vars, NEW c \in Cards
    PROVE  /\ passed[c] \subseteq passed'[c]
           /\ "abandoned" \in passed'[c] =>
                 \/ "abandoned" \in passed[c]
                 \/ card[c].status # "NONE" /\ Unclaimed(c)
<1> DEFINE Stays == passed' = passed
<1>1. ASSUME NEW d \in Cards, NEW l \in Deadline, DeadlinePasses(d, l)
      PROVE  /\ passed[c] \subseteq passed'[c]
             /\ "abandoned" \in passed'[c] =>
                   \/ "abandoned" \in passed[c]
                   \/ card[c].status # "NONE" /\ Unclaimed(c)
  <2>1. passed \in [Cards -> SUBSET Deadline] /\ passed' = [passed EXCEPT ![d] = passed[d] \cup {l}]
    BY <1>1 DEF DeadlinePasses, TypeOK, WorldOK
  <2>2. l = "abandoned" => card[d].status # "NONE" /\ Unclaimed(d)
    BY <1>1 DEF DeadlinePasses
  <2> QED BY <2>1, <2>2
<1>2. ASSUME NEW p \in Procs, HandlerStep(p) PROVE Stays
  BY <1>2
  DEF HandlerStep, CheckoutStep, PaymentStep, CardStep, SweepStep, CreateCard, CreateSession,
      SaveSession, Retrieve, RetrieveFails, HandleRead, FlagForRefund, Claim, Reread, IssueReceipt,
      DisregardRead, Close, RedeemWrite, CancelWrite, ResendReset, Send, MarkSent, SweepList,
      CloseAbandoned, SweepNext, DrainNext, JobEnds, envVars
<1>3. ASSUME NEW p \in Requests, RequestStarts(p) PROVE Stays
  BY <1>3
  DEF RequestStarts, Webhook, StartCheckout, ActivatePhysicalCard, Poll, RedeemStart, CancelStart,
      ResendStart, envVars
<1>4. ASSUME NEW p \in Procs, SweepExpired(p) \/ DrainList(p) \/ Crash(p) PROVE Stays
  BY <1>4 DEF SweepExpired, DrainList, Crash, envVars
<1>5. ASSUME NEW d \in Cards, Stripe(d) PROVE Stays
  BY <1>5 DEF Stripe, BuyerPays, BuyerPaysLater, MoneyArrives, MoneyFails, SessionExpires
<1>6. CASE UNCHANGED vars
  BY <1>6 DEF vars
<1> QED BY <1>1, <1>2, <1>3, <1>4, <1>5, <1>6 DEF Next, Step, Procs

\* A job has its own kind of list.
LEMMA ReturnsToItsList ==
    ASSUME TypeOK, NEW p \in Procs, Return(p), proc'[p].at \in {"sweepList", "sweepNext"}
    PROVE  p \in Sweepers
<1> SUFFICES ASSUME p \notin Sweepers PROVE FALSE
  OBVIOUS
<1>1. PICK where \in {"drainNext", "idle"} :
         proc' = [proc EXCEPT ![p] = [IdleProc EXCEPT !.todo = proc[p].todo, !.at = where]]
  <2> DEFINE where == CASE p \in Sweepers -> "sweepNext" [] p \in Drainers -> "drainNext"
                        [] OTHER -> "idle"
  <2>1. where \in {"drainNext", "idle"}
    OBVIOUS
  <2>2. proc' = [proc EXCEPT ![p] = [IdleProc EXCEPT !.todo = proc[p].todo, !.at = where]]
    BY DEF Return
  <2> QED BY <2>1, <2>2
<1> QED BY <1>1 DEF IdleProc, TypeOK, ProcsOK, ProcRecord

LEMMA SweepPlaces ==
    ASSUME TypeOK, NEW p \in Procs, HandlerStep(p), proc'[p].at \in {"sweepList", "sweepNext"}
    PROVE  p \in Sweepers \/ proc[p].at \in {"sweepList", "sweepNext"}
<1>ret. ASSUME Return(p) PROVE p \in Sweepers
  BY <1>ret, ReturnsToItsList
<1>go. ASSUME NEW where \in PC \ {"sweepList", "sweepNext"}, NEW arg, Goto(p, where, arg)
       PROVE  FALSE
  BY <1>go, Goes
<1>1. CASE CheckoutStep(p)
  BY <1>1, <1>ret, <1>go DEF CheckoutStep, CreateCard, CreateSession, SaveSession, PC
<1>2. CASE Retrieve(p) \/ HandleRead(p) \/ DisregardRead(p)
  BY <1>2, <1>ret, <1>go DEF Retrieve, HandleRead, DisregardRead, PC
<1>3. CASE RetrieveFails(p) \/ FlagForRefund(p) \/ Close(p) \/ Claim(p) \/ Reread(p) \/ IssueReceipt(p)
  BY <1>3, <1>ret, <1>go DEF RetrieveFails, FlagForRefund, Close, Claim, Reread, IssueReceipt, PC
<1>4. CASE CardStep(p)
  BY <1>4, <1>ret, <1>go DEF CardStep, RedeemWrite, CancelWrite, ResendReset, Send, MarkSent, PC
<1>5. CASE CloseAbandoned(p)
  BY <1>5, <1>ret DEF CloseAbandoned
<1>6. CASE SweepList(p) \/ \E c \in Cards : SweepNext(p, c)
  BY <1>6 DEF SweepList, SweepNext, At
<1>7. CASE JobEnds(p)
  BY <1>7 DEF JobEnds, IdleProc, TypeOK, ProcsOK
<1>8. ASSUME NEW c \in Cards, DrainNext(p, c) PROVE FALSE
  <2>1. proc'[p].at = "send"
    BY <1>8 DEF DrainNext, TypeOK, ProcsOK, ProcRecord
  <2> QED BY <2>1
<1> QED BY <1>1, <1>2, <1>3, <1>4, <1>5, <1>6, <1>7, <1>8 DEF HandlerStep, PaymentStep, SweepStep

\* Who moves in a step, and where a starting request or job comes to.
LEMMA StepMoves ==
    ASSUME TypeOK, SoldInv, [Next]_vars
    PROVE  \/ proc' = proc
           \/ \E p \in Procs :
                 /\ \A q \in Procs \ {p} : proc'[q] = proc[q]
                 /\ \/ HandlerStep(p)
                    \/ p \in Requests /\ RequestStarts(p)
                    \/ p \in Sweepers /\ proc'[p].at = "sweepList" /\ proc'[p].todo = {}
                    \/ p \in Drainers /\ proc'[p].at = "drainNext"
                    \/ proc'[p].at = "idle" /\ proc'[p].todo = {}
<1>0. proc \in [Procs -> ProcRecord]
  BY DEF TypeOK, ProcsOK
<1>1. ASSUME NEW p \in Procs, HandlerStep(p) PROVE \A q \in Procs \ {p} : proc'[q] = proc[q]
  BY <1>1, HandlerMoves
<1>2. ASSUME NEW p \in Requests, RequestStarts(p)
      PROVE  p \in Procs /\ \A q \in Procs \ {p} : proc'[q] = proc[q]
  BY <1>2, RequestMoves
<1>3. ASSUME NEW p \in Sweepers, SweepExpired(p)
      PROVE  /\ p \in Procs /\ \A q \in Procs \ {p} : proc'[q] = proc[q]
             /\ proc'[p].at = "sweepList" /\ proc'[p].todo = {}
  BY <1>0, <1>3 DEF SweepExpired, Begin, IdleProc, Procs
<1>4. ASSUME NEW p \in Drainers, DrainList(p)
      PROVE  /\ p \in Procs /\ \A q \in Procs \ {p} : proc'[q] = proc[q]
             /\ proc'[p].at = "drainNext"
  BY <1>0, <1>4 DEF DrainList, IdleProc, Procs
<1>5. ASSUME NEW p \in Procs, Crash(p)
      PROVE  /\ \A q \in Procs \ {p} : proc'[q] = proc[q]
             /\ proc'[p].at = "idle" /\ proc'[p].todo = {}
  BY <1>0, <1>5 DEF Crash, IdleProc
<1>6. ASSUME NEW d \in Cards, Stripe(d) \/ \E l \in Deadline : DeadlinePasses(d, l)
      PROVE  proc' = proc
  BY <1>6
  DEF Stripe, BuyerPays, BuyerPaysLater, MoneyArrives, MoneyFails, SessionExpires, DeadlinePasses
<1>7. UNCHANGED vars => proc' = proc
  BY DEF vars
<1> QED BY <1>1, <1>2, <1>3, <1>4, <1>5, <1>6, <1>7 DEF Next, Step

LEMMA SweepOfStaleStep ==
    ASSUME TypeOK, SoldInv, PaidInv, ClosedInv, [Next]_vars
    PROVE  SweepOfStale'
<1>1. ASSUME NEW q \in Procs, proc'[q].at \in {"sweepList", "sweepNext"} PROVE q \in Sweepers
  <2>0. proc[q].at \in {"sweepList", "sweepNext"} => q \in Sweepers
    BY DEF ClosedInv, SweepOfStale
  <2>1. ASSUME NEW p \in Requests, RequestStarts(p), q = p PROVE FALSE
    <3>1. proc' # proc => proc'[p].card \in Cards /\ proc'[p].todo = {}
      BY <2>1, RequestMoves
    <3>2. p \notin Sweepers
      BY GiftCardAssumption
    <3>3. CASE proc' = proc
      BY <1>1, <2>0, <2>1, <3>2, <3>3
    <3>4. ASSUME NEW where, NEW arg, NEW c, Begin(p, where, c, arg),
                 where \notin {"sweepList", "sweepNext"}
          PROVE  FALSE
      BY <1>1, <2>1, <3>4 DEF Begin, IdleProc, TypeOK, ProcsOK
    <3>5. ASSUME NEW c \in Cards, NEW amount \in 1..FaceValue, RedeemStart(p, c, amount) PROVE FALSE
      BY <1>1, <2>1, <3>5 DEF RedeemStart, IdleProc, TypeOK, ProcsOK
    <3> QED
      BY <2>1, <3>3, <3>4, <3>5
      DEF RequestStarts, Webhook, StartCheckout, ActivatePhysicalCard, Poll, CancelStart, ResendStart
  <2>2. ASSUME NEW p \in Procs, HandlerStep(p), q = p PROVE q \in Sweepers
    BY <1>1, <2>0, <2>2, SweepPlaces
  <2> QED BY <1>1, <2>0, <2>1, <2>2, StepMoves
<1>2. ASSUME NEW q \in Sweepers, NEW c \in proc'[q].todo PROVE "abandoned" \in passed'[c]
  <2>0. /\ q \in Procs /\ q \notin Requests /\ q \notin Drainers
        /\ \A d \in proc[q].todo : d \in Cards /\ "abandoned" \in passed[d]
    BY GiftCardAssumption DEF Procs, ClosedInv, SweepOfStale, TypeOK, ProcsOK, ProcRecord
  <2>1. c \in proc[q].todo \cup Stale
    BY <1>2, <2>0, StepMoves, HandlerMoves
  <2>2. c \in Cards /\ "abandoned" \in passed[c]
    BY <2>0, <2>1 DEF Stale
  <2> QED BY <2>2, PassedStays
<1>3. ASSUME NEW c \in Cards, "abandoned" \in passed'[c]
      PROVE  card'[c].status # "NONE" /\ Unclaimed(c)'
  <2>1. card[c].status # "NONE" /\ Unclaimed(c)
    BY <1>3, PassedStays DEF ClosedInv, SweepOfStale
  <2>2. card'[c].status # "NONE"
    BY <2>1, ClosingRowStep
    DEF RowStep, RowKeeps, RowSold, RowClosed, RowClaimed, RowReachable, Live
  <2> QED BY <2>1, <2>2, UnclaimedStays
<1>4. ASSUME NEW c \in Cards, ~card'[c].sess PROVE ses'[c] \in {"none", "open", "expired"}
  <2>1. SessionMoves(c) /\ RowStep(c)
    BY SessionStep, ClosingRowStep
  <2>2. CASE card[c].status = "NONE"
    <3>1. ses[c] = "none"
      BY <2>2 DEF SoldInv
    <3> QED BY <2>1, <3>1 DEF SessionMoves, SessionKeeps
  <2>3. CASE card[c].status # "NONE"
    <3>1. ~card[c].sess
      BY <1>4, <2>1, <2>3
      DEF RowStep, RowKeeps, RowSold, RowClosed, RowClaimed, RowReachable
    <3>2. ses[c] \in {"none", "open", "expired"}
      BY <3>1 DEF ClosedInv, SweepOfStale
    <3> QED BY <2>1, <3>1, <3>2 DEF SessionMoves, SessionKeeps
  <2> QED BY <2>2, <2>3
<1> QED BY <1>1, <1>2, <1>3, <1>4 DEF SweepOfStale, Unclaimed, C

\* The sweep closes without asking only a stale card that has no session id.
LEMMA AbandonedMoves ==
    ASSUME TypeOK, ClosedInv, NEW p \in Procs, HandlerStep(p), proc'[p].at = "closeAbandoned"
    PROVE  proc'[p].card \in Cards /\ Lost(proc'[p].card)
<1>0. \A arg : ~\E where \in PC \ {"closeAbandoned"} : Goto(p, where, arg)
  BY Goes
<1>ret. ~Return(p)
  <2>1. ASSUME Return(p) PROVE proc'[p].at \in {"sweepNext", "drainNext", "idle"}
    <3> DEFINE where == CASE p \in Sweepers -> "sweepNext" [] p \in Drainers -> "drainNext"
                          [] OTHER -> "idle"
    <3>1. where \in {"sweepNext", "drainNext", "idle"}
      OBVIOUS
    <3>2. proc'[p].at = where
      BY <2>1 DEF Return, IdleProc, TypeOK, ProcsOK, ProcRecord
    <3> QED BY <3>1, <3>2
  <2> QED BY <2>1
<1>1. ASSUME NEW c \in Cards, SweepNext(p, c) PROVE c = proc'[p].card /\ Lost(c)
  <2>1. PICK where \in {"retrieve", "closeAbandoned"} :
           /\ proc' = [proc EXCEPT ![p] =
                 [proc[p] EXCEPT !.at = where, !.card = c, !.todo = proc[p].todo \ {c}]]
           /\ where = IF card[c].sess THEN "retrieve" ELSE "closeAbandoned"
    BY <1>1 DEF SweepNext
  <2>2. proc'[p].at = where /\ proc'[p].card = c
    BY <2>1 DEF TypeOK, ProcsOK, ProcRecord
  <2>3. ~card[c].sess
    BY <2>1, <2>2
  <2>4. p \in Sweepers /\ c \in proc[p].todo
    BY <1>1 DEF SweepNext, At, ClosedInv, SweepOfStale
  <2>5. card[c].status # "NONE" /\ Unclaimed(c) /\ ses[c] \in {"none", "open", "expired"}
    BY <2>3, <2>4 DEF ClosedInv, SweepOfStale
  <2> QED BY <2>2, <2>3, <2>5 DEF Lost, Final, Unreached
<1>go. ASSUME NEW where \in PC \ {"closeAbandoned"}, NEW arg, Goto(p, where, arg) PROVE FALSE
  BY <1>0, <1>go
<1>2. CASE CheckoutStep(p)
  BY <1>2, <1>ret, <1>go DEF CheckoutStep, CreateCard, CreateSession, SaveSession, PC
<1>3. CASE Retrieve(p) \/ HandleRead(p) \/ DisregardRead(p)
  BY <1>3, <1>ret, <1>go DEF Retrieve, HandleRead, DisregardRead, PC
<1>4. CASE RetrieveFails(p) \/ FlagForRefund(p) \/ Close(p) \/ Claim(p) \/ Reread(p) \/ IssueReceipt(p)
  BY <1>4, <1>ret, <1>go DEF RetrieveFails, FlagForRefund, Close, Claim, Reread, IssueReceipt, PC
<1>5. CASE CardStep(p)
  BY <1>5, <1>ret, <1>go DEF CardStep, RedeemWrite, CancelWrite, ResendReset, Send, MarkSent, PC
<1>6. CASE CloseAbandoned(p)
  BY <1>6, <1>ret DEF CloseAbandoned
<1>7. CASE SweepList(p)
  <2>1. PICK batch : proc' = [proc EXCEPT ![p] = [IdleProc EXCEPT !.at = "sweepNext", !.todo = batch]]
    BY <1>7, Zenon DEF SweepList
  <2>2. proc'[p].at = "sweepNext"
    BY <2>1 DEF IdleProc, TypeOK, ProcsOK
  <2> QED BY <2>2
<1>8. CASE JobEnds(p)
  <2>1. proc'[p].at = "idle"
    BY <1>8 DEF JobEnds, IdleProc, TypeOK, ProcsOK
  <2> QED BY <2>1
<1>9. ASSUME NEW c \in Cards, DrainNext(p, c) PROVE FALSE
  <2>1. proc'[p].at = "send"
    BY <1>9 DEF DrainNext, TypeOK, ProcsOK, ProcRecord
  <2> QED BY <2>1
<1> QED
  BY <1>1, <1>2, <1>3, <1>4, <1>5, <1>6, <1>7, <1>8, <1>9 DEF HandlerStep, PaymentStep, SweepStep

\* What Stripe emits about a closed or mismatched session is so.
LEMMA EventsHeard ==
    ASSUME TypeOK, SoldInv, PaidInv, ClosedInv, [Next]_vars, NEW e \in events',
           e.says \in {"closed", "paidOdd"}
    PROVE  Final(e.card)'
<1>0. ses \in [Cards -> SessionState] /\ \A f \in events : f.card \in Cards
  BY Belong DEF TypeOK, WorldOK
<1>1. CASE e \in events
  <2>1. Final(e.card) /\ e.card \in Cards
    BY <1>0, <1>1 DEF ClosedInv, ClosingHeard
  <2> QED BY <2>1, LostStays
<1>2. CASE e \notin events
  <2>1. PICK c \in Cards : Stripe(c)
    <3>1. ASSUME NEW p \in Procs, HandlerStep(p) PROVE events' = events
      <4>1. CASE CheckoutStep(p)
        BY <4>1 DEF CheckoutStep, CreateCard, CreateSession, SaveSession, envVars
      <4>2. CASE PaymentStep(p)
        BY <4>2 DEF PaymentStep, Retrieve, RetrieveFails, HandleRead, FlagForRefund, Claim, Reread,
                    IssueReceipt, DisregardRead, Close, envVars
      <4>3. CASE CardStep(p)
        BY <4>3 DEF CardStep, RedeemWrite, CancelWrite, ResendReset, Send, MarkSent, envVars
      <4>4. CASE SweepStep(p) \/ JobEnds(p) \/ \E c \in Cards : DrainNext(p, c)
        BY <4>4 DEF SweepStep, SweepList, CloseAbandoned, SweepNext, DrainNext, JobEnds, envVars
      <4> QED BY <3>1, <4>1, <4>2, <4>3, <4>4 DEF HandlerStep
    <3>2. ASSUME NEW p \in Requests, RequestStarts(p) PROVE events' = events
      BY <3>2, RequestMoves DEF envVars
    <3>3. ASSUME NEW p \in Procs, SweepExpired(p) \/ DrainList(p) \/ Crash(p) PROVE events' = events
      BY <3>3 DEF SweepExpired, DrainList, Crash, envVars
    <3>4. ASSUME NEW d \in Cards, NEW l \in Deadline, DeadlinePasses(d, l) PROVE events' = events
      BY <3>4 DEF DeadlinePasses
    <3>5. UNCHANGED vars => events' = events
      BY DEF vars
    <3> QED BY <1>2, <3>1, <3>2, <3>3, <3>4, <3>5 DEF Next, Step, Procs
  <2>2. ASSUME NEW says, NEW to \in {"failed", "expired", "paid", "paidOdd", "processing"},
               ses' = [ses EXCEPT ![c] = to], Emit(c, says),
               says \in {"closed", "paidOdd"} => to \in {"failed", "expired", "paidOdd"}
        PROVE  Final(e.card)'
    BY <1>0, <1>2, <2>2 DEF Emit, Final
  <2>3. PaidOutcomes \subseteq {"paid", "paidOdd"}
    BY GiftCardAssumption
  <2> QED
    BY <2>1, <2>2, <2>3
    DEF Stripe, BuyerPays, BuyerPaysLater, MoneyArrives, MoneyFails, SessionExpires
<1> QED BY <1>1, <1>2

LEMMA ClosingHeardStep ==
    ASSUME TypeOK, SoldInv, PaidInv, ClosedInv, [Next]_vars
    PROVE  ClosingHeard'
<1>0. proc \in [Procs -> ProcRecord]
  BY DEF TypeOK, ProcsOK
<1>1. ASSUME NEW e \in events', e.says \in {"closed", "paidOdd"} PROVE Final(e.card)'
  BY <1>1, EventsHeard
<1>2. ASSUME NEW q \in Procs, NEW c \in Cards, proc'[q].card = c,
             Closing(q)' => Final(c), proc'[q].at = "closeAbandoned" => Lost(c)
      PROVE  /\ Closing(q)' => Final(C(q))'
             /\ proc'[q].at = "closeAbandoned" => Lost(C(q))'
  <2>1. (Final(c) => Final(c)') /\ (Lost(c) => Lost(c)')
    BY LostStays
  <2>2. C(q)' = c
    BY <1>2 DEF C
  <2>3. (Final(c)' <=> Final(C(q))') /\ (Lost(c)' <=> Lost(C(q))')
    BY <2>2 DEF Final, Lost, Unreached, Unclaimed
  <2> QED BY <1>2, <2>1, <2>3
<1>3. ASSUME NEW q \in Procs, ~Closing(q)', proc'[q].at # "closeAbandoned"
      PROVE  /\ Closing(q)' => Final(C(q))'
             /\ proc'[q].at = "closeAbandoned" => Lost(C(q))'
  BY <1>3
<1>4. ASSUME NEW q \in Procs, proc'[q] = proc[q]
      PROVE  /\ Closing(q)' => Final(C(q))'
             /\ proc'[q].at = "closeAbandoned" => Lost(C(q))'
  <2>1. (Closing(q)' <=> Closing(q)) /\ proc'[q].card = C(q)
    BY <1>4 DEF Closing, C
  <2>2. (Closing(q) => Final(C(q))) /\ (proc[q].at = "closeAbandoned" => Lost(C(q)))
    BY DEF ClosedInv, ClosingHeard
  <2>3. Closing(q) \/ proc[q].at = "closeAbandoned" => C(q) \in Cards
    BY DEF Closing, TypeOK, ProcsOK, C
  <2> QED BY <1>2, <1>3, <1>4, <2>1, <2>2, <2>3
<1>5. ASSUME NEW q \in Procs, HandlerStep(q)
      PROVE  /\ Closing(q)' => Final(C(q))'
             /\ proc'[q].at = "closeAbandoned" => Lost(C(q))'
  <2>1. Closing(q)' => proc'[q].card \in Cards /\ Final(proc'[q].card)
    BY <1>5, ClosingMoves DEF C
  <2>2. proc'[q].at = "closeAbandoned" => proc'[q].card \in Cards /\ Lost(proc'[q].card)
    BY <1>5, AbandonedMoves
  <2>3. CASE Closing(q)'
    <3>1. proc'[q].at # "closeAbandoned"
      BY <2>3 DEF Closing
    <3> QED BY <1>2, <2>1, <2>3, <3>1
  <2>4. CASE proc'[q].at = "closeAbandoned"
    <3>1. ~Closing(q)'
      BY <2>4 DEF Closing
    <3> QED BY <1>2, <2>2, <2>4, <3>1
  <2> QED BY <1>3, <2>3, <2>4
<1>6. ASSUME NEW q \in Requests, RequestStarts(q)
      PROVE  /\ Closing(q)' => Final(C(q))'
             /\ proc'[q].at = "closeAbandoned" => Lost(C(q))'
  <2>0. q \in Procs
    BY DEF Procs
  <2>1. ASSUME NEW e \in events, Webhook(q, e)
        PROVE  /\ e.card \in Cards /\ proc'[q].card = e.card
               /\ Closing(q)' => Final(e.card)
               /\ proc'[q].at # "closeAbandoned"
    <3>1. /\ proc'[q].card = e.card
          /\ \/ e.says = "closed" /\ proc'[q].at = "disregardRead"
             \/ proc'[q].at = "handleRead" /\ proc'[q].arg = e.says
      BY <1>0, <2>0, <2>1 DEF Webhook, Begin, IdleProc
    <3>2. Closing(q)' => e.says \in {"closed", "paidOdd"}
      BY <3>1 DEF Closing
    <3> QED BY <3>1, <3>2, Belong DEF ClosedInv, ClosingHeard
  <2>2. ASSUME NEW c, NEW where \in {"reserve", "send", "retrieve", "cancelWrite", "resendReset"},
               NEW arg, Begin(q, where, c, arg)
        PROVE  ~Closing(q)' /\ proc'[q].at # "closeAbandoned"
    BY <1>0, <2>0, <2>2 DEF Begin, IdleProc, Closing
  <2>3. ASSUME NEW c \in Cards, NEW amount \in 1..FaceValue, RedeemStart(q, c, amount)
        PROVE  ~Closing(q)' /\ proc'[q].at # "closeAbandoned"
    BY <1>0, <2>0, <2>3 DEF RedeemStart, IdleProc, Closing
  <2>4. CASE \E e \in events : Webhook(q, e)
    BY <1>2, <2>0, <2>1, <2>4
  <2>5. ASSUME ~\E e \in events : Webhook(q, e), proc' # proc
        PROVE  ~Closing(q)' /\ proc'[q].at # "closeAbandoned"
    BY <1>6, <2>2, <2>3, <2>5
    DEF RequestStarts, StartCheckout, ActivatePhysicalCard, Poll, CancelStart, ResendStart
  <2> QED BY <1>3, <1>4, <2>0, <2>4, <2>5
<1>7. ASSUME NEW q \in Procs, proc'[q].at \in {"idle", "sweepList", "drainNext"}
      PROVE  ~Closing(q)' /\ proc'[q].at # "closeAbandoned"
  BY <1>7 DEF Closing
<1>8. \A q \in Procs :
         /\ Closing(q)' => Final(C(q))'
         /\ proc'[q].at = "closeAbandoned" => Lost(C(q))'
  BY <1>3, <1>4, <1>5, <1>6, <1>7, StepMoves
<1> QED BY <1>1, <1>8 DEF ClosingHeard

LEMMA ClosedInit == Init => ClosedInv
<1> SUFFICES ASSUME Init PROVE ClosedInv
  OBVIOUS
<1>1. \A p \in Procs : proc[p].at = "idle" /\ proc[p].todo = {}
  BY DEF Init, IdleProc
<1>2. ClosingHeard
  BY <1>1 DEF Init, ClosingHeard, Closing
<1>3. SweepOfStale
  <2>1. \A p \in Sweepers : proc[p].todo = {}
    BY <1>1 DEF Procs
  <2>2. \A c \in Cards : passed[c] = {}
    BY DEF Init
  <2>3. \A c \in Cards : ~card[c].sess => ses[c] = "none"
    BY DEF Init, Unsold, ClosedTooEarly
  <2> QED BY <1>1, <2>1, <2>2, <2>3 DEF SweepOfStale
<1>4. ClosedIsLost
  BY DEF Init, ClosedIsLost, Unsold
<1> QED BY <1>2, <1>3, <1>4 DEF ClosedInv

LEMMA ClosedAlways == Spec => [](TypeOK /\ SoldInv /\ PaidInv /\ ClosedInv)
<1>1. TypeOK /\ SoldInv /\ PaidInv /\ ClosedInv /\ [Next]_vars => ClosedInv'
  BY ClosingHeardStep, SweepOfStaleStep, ClosedStep DEF ClosedInv
<1> QED
  BY <1>1, SoldInit, SoldStep, PaidInit, PaidStep, ClosedInit, TypeStep, TypeCorrect, PTL DEF Spec

\* The system never closes a card whose buyer has paid, is paying or may still
\* pay: whatever was read before, only a person gives up such a card.
THEOREM ClosedWhenLost == Spec => []ClosedOnlyWhenLost
<1>1. ClosedInv => ClosedOnlyWhenLost
  BY DEF ClosedInv, ClosedIsLost, ClosedOnlyWhenLost, Lost, Final, Unreached
<1> QED BY <1>1, ClosedAlways, PTL

-----------------------------------------------------------------------------
(* The promo code's limit.  A slot is taken only by the step that counts   *)
(* them; the other way into the reserved cards, a claim on a card the      *)
(* system had closed, is shut: what it closed, no buyer pays for.          *)

LEMMA PromoRow ==
    ASSUME TypeOK, SoldInv, PaidInv, ClosedInv, [Next]_vars,
           NEW c \in (Reserved \ LegacyCards)', c \notin Reserved \ LegacyCards
    PROVE  /\ Cardinality(Reserved) < MaxRedemptions
           /\ \A d \in Cards \ {c} : card'[d] = card[d]
<1>0. /\ c \in Cards /\ c \notin LegacyCards
      /\ card'[c].promo /\ card'[c].tender # "TEST" /\ card'[c].status \notin {"NONE", "CANCELLED"}
      /\ ~(card[c].promo /\ card[c].tender # "TEST" /\ card[c].status \notin {"NONE", "CANCELLED"})
  BY DEF Reserved
<1>1. RowStep(c)
  BY <1>0, ClosingRowStep
<1>2. ASSUME RowClaimed(c) PROVE FALSE
  <2>1. SystemCancelled(card[c]) /\ ses[c] = "paid"
    BY <1>0, <1>2 DEF RowClaimed
  <2>2. Lost(c)
    BY <1>0, <2>1 DEF SystemCancelled, ClosedInv, ClosedIsLost
  <2> QED BY <2>1, <2>2 DEF Lost, Final, Unreached
<1>3. RowSold(c)
  BY <1>0, <1>1, <1>2 DEF RowStep, RowKeeps, RowClosed, RowReachable, Live
<1> QED BY <1>0, <1>3 DEF RowSold

LEMMA PromoStep ==
    ASSUME TypeOK, SoldInv, PaidInv, ClosedInv, PromoWithinLimit, [Next]_vars
    PROVE  PromoWithinLimit'
<1> DEFINE Taken == Reserved \ LegacyCards
           TakenNext == {c \in Cards : /\ card'[c].promo
                                       /\ card'[c].tender # "TEST"
                                       /\ card'[c].status \notin {"NONE", "CANCELLED"}} \ LegacyCards
<1>0. /\ IsFiniteSet(Cards) /\ MaxRedemptions \in Nat
      /\ Reserved \in SUBSET Cards /\ Taken \in SUBSET Reserved /\ TakenNext \in SUBSET Cards
  BY GiftCardAssumption DEF Reserved
<1>1. /\ IsFiniteSet(Reserved) /\ IsFiniteSet(Taken) /\ IsFiniteSet(TakenNext)
      /\ Cardinality(Taken) <= Cardinality(Reserved)
  BY <1>0, FS_Subset
<1>2. /\ Cardinality(Taken) \in Nat /\ Cardinality(TakenNext) \in Nat
      /\ Cardinality(Reserved) \in Nat
  BY <1>1, FS_CardinalityType
<1>3. Cardinality(Taken) <= MaxRedemptions
  BY DEF PromoWithinLimit
<1>4. TakenNext = (Reserved \ LegacyCards)'
  BY DEF Reserved
<1>5. CASE TakenNext \subseteq Taken
  <2>1. Cardinality(TakenNext) <= Cardinality(Taken)
    BY <1>1, <1>5, FS_Subset
  <2>2. Cardinality(TakenNext) <= MaxRedemptions
    <3> HIDE DEF Taken, TakenNext
    <3> QED BY <1>0, <1>2, <1>3, <2>1
  <2> QED BY <1>4, <2>2 DEF PromoWithinLimit
<1>6. ASSUME NEW c \in TakenNext, c \notin Taken
      PROVE  PromoWithinLimit'
  <2>1. /\ Cardinality(Reserved) < MaxRedemptions
        /\ \A d \in Cards \ {c} : card'[d] = card[d]
    BY <1>4, <1>6, PromoRow
  <2>2. TakenNext \in SUBSET (Taken \cup {c})
    BY <2>1 DEF Reserved
  <2>3. /\ IsFiniteSet(Taken \cup {c})
        /\ Cardinality(Taken \cup {c}) = Cardinality(Taken) + 1
    BY <1>1, <1>6, FS_AddElement
  <2>4. Cardinality(TakenNext) <= Cardinality(Taken \cup {c})
    BY <2>2, <2>3, FS_Subset
  <2>5. Cardinality(TakenNext) <= MaxRedemptions
    <3> HIDE DEF Taken, TakenNext
    <3> QED BY <1>0, <1>1, <1>2, <2>1, <2>3, <2>4
  <2> QED BY <1>4, <2>5 DEF PromoWithinLimit
<1> QED BY <1>5, <1>6

LEMMA PromoInit == Init => PromoWithinLimit
<1> SUFFICES ASSUME Init PROVE PromoWithinLimit
  OBVIOUS
<1>1. Reserved \ LegacyCards = {}
  BY DEF Init, Reserved, Unsold
<1> QED BY <1>1, FS_EmptySet, GiftCardAssumption DEF PromoWithinLimit

\* However many checkouts were quoted the promo code at once, and whatever was
\* cancelled, claimed or recovered since, its limit holds.
THEOREM PromoKept == Spec => []PromoWithinLimit
<1>1. TypeOK /\ SoldInv /\ PaidInv /\ ClosedInv /\ PromoWithinLimit /\ [Next]_vars
         => PromoWithinLimit'
  BY PromoStep
<1> QED BY <1>1, PromoInit, ClosedAlways, PTL DEF Spec
=============================================================================
