-------------------------- MODULE PosTendersProofs ---------------------------
(***************************************************************************)
(* Theorems about the ways to pay a bill: PosTerminal and PosOnline, alone *)
(* and as MCPosTenders puts them side by side, for any number of bills,    *)
(* tills, charges and sessions, with requests that may die at any step.    *)
(***************************************************************************)
EXTENDS MCPosTenders, PosBillProofs

-----------------------------------------------------------------------------
(* Terminals: the inductive invariant *)

\* Where a handler that knows a ref may stand: putting it on the terminal,
\* asking after it, booking it with no row yet, or done with that.
Starting == {"inFlight", "toSquare", "row"}
Asking == {"ask", "writeStatus", "claim", "cancel"}
Booking == {"book", "recRead", "recWrite", "payReread", "debit", "record", "refund"}
Finishing == {"status", "issueList", "issueNext", "issueMark", "refundCards", "booked", "notBooked"}

ProcFields == DOMAIN IdleProc

\* As much of the types as the argument needs: which fields there are.
Shapes ==
    /\ DOMAIN proc = Tills
    /\ \A p \in Tills : DOMAIN proc[p] = ProcFields /\ K(p) \in Refs \cup {NoRef}
    /\ DOMAIN attempt = Refs
    /\ \A k \in Refs : DOMAIN attempt[k] = DOMAIN NoAttempt
    /\ DOMAIN square = Refs
    /\ \A k \in Refs : DOMAIN square[k] = DOMAIN NotOnSquare
    /\ \A r \in pays : DOMAIN r = {"id", "bill", "method", "amt", "tip", "ref"}

\* A handler that knows a ref is one of this module's, or works for one.
Places ==
    \A p \in Tills : K(p) \in Refs =>
        /\ proc[p].at \in Starting \cup Asking \cup Booking \cup Finishing
        /\ proc[p].at \in Starting \cup Asking =>
              proc[p].then = "idle" /\ proc[p].catch = "idle"
        /\ proc[p].at \in (Booking \ {"book"}) \cup Finishing =>
              proc[p].then = "booked" /\ proc[p].catch = "notBooked"
        /\ proc[p].at \in {"recRead", "recWrite"} => proc[p].back = "payReread"

\* A ref that is being started is nobody else's and has no row.
StartsAlone ==
    \A p \in Tills : K(p) \in Refs =>
        IF proc[p].at \in Starting
        THEN /\ attempt[K(p)].kind = "none"
             /\ \A q \in Tills : q # p => K(q) # K(p)
        ELSE attempt[K(p)].kind # "none"

\* Square knows of every row, and of a row that is about to be written.
KnownToSquare ==
    /\ \A k \in Refs : square[k].kind = "none" => attempt[k].kind = "none"
    /\ \A p \in Tills : K(p) \in Refs /\ proc[p].at = "row" => square[K(p)].kind # "none"

\* The latch: open while there is no row, shut before anything is booked, and
\* only one handler at a time has shut it and not yet booked.
LatchHolds ==
    /\ \A k \in Refs : attempt[k].kind = "none" => attempt[k].latch = "open"
    /\ \A r \in pays : r.ref \in Refs => attempt[r.ref].latch # "open"
    /\ \A p \in Tills : K(p) \in Refs /\ proc[p].at \in Booking \cup Finishing =>
          attempt[K(p)].latch # "open"
    /\ \A p \in Tills : K(p) \in Refs /\ proc[p].at \in Booking =>
          /\ \A r \in pays : r.ref # K(p)
          /\ \A q \in Tills : q # p /\ K(q) = K(p) => proc[q].at \notin Booking

OneRowEach == \A r, s \in pays : r.ref \in Refs /\ r.ref = s.ref => r = s

LatchInv == Shapes /\ Places /\ StartsAlone /\ KnownToSquare /\ LatchHolds /\ OneRowEach

\* Square is done with what is claimed, being booked or booked.
DoneInv ==
    /\ \A p \in Tills : K(p) \in Refs /\ proc[p].at \in Booking \cup {"claim"} =>
          square[K(p)].status = "COMPLETED"
    /\ \A r \in pays : r.ref \in Refs => square[r.ref].status = "COMPLETED"

TerminalInv == LatchInv /\ DoneInv

-----------------------------------------------------------------------------
(* Steps that book nothing: one handler moves, within the places it may be *)
(* in, and the payment rows keep their refs.                               *)

PlainMove(p) ==
    /\ DOMAIN proc' = Tills
    /\ \A q \in Tills : q # p => proc'[q] = proc[q]
    /\ DOMAIN proc'[p] = ProcFields
    /\ \/ proc'[p].ref = NoRef
       \/ /\ K(p) \in Refs
          /\ proc'[p].ref = K(p) /\ proc'[p].then = proc[p].then /\ proc'[p].catch = proc[p].catch
          /\ \/ /\ proc[p].at \in Booking \ {"book"}
                /\ proc'[p].at \in (Booking \ {"book"}) \cup Finishing
             \/ proc[p].at \in Finishing /\ proc'[p].at \in Finishing
             \/ proc[p].at \in Asking /\ proc'[p].at \in Asking
          /\ proc'[p].at = "claim" => square[K(p)].status = "COMPLETED"
          /\ proc'[p].at \in {"recRead", "recWrite"} => proc'[p].back = "payReread"

SameRefs ==
    /\ \A r \in pays' :
          /\ DOMAIN r = {"id", "bill", "method", "amt", "tip", "ref"}
          /\ \E s \in pays : s.ref = r.ref
    /\ \A r, s \in pays' : r.ref \in Refs /\ r.ref = s.ref => r = s

\* Rows appear and disappear for nobody, latches stay as they are, and Square
\* does not take back what is completed.
QuietTables ==
    /\ DOMAIN attempt' = Refs /\ DOMAIN square' = Refs
    /\ \A k \in Refs :
          /\ DOMAIN attempt'[k] = DOMAIN NoAttempt /\ DOMAIN square'[k] = DOMAIN NotOnSquare
          /\ attempt'[k].kind = attempt[k].kind
          /\ attempt'[k].latch = "open" <=> attempt[k].latch = "open"
          /\ square'[k].kind = square[k].kind
          /\ square[k].status = "COMPLETED" => square'[k].status = "COMPLETED"

LEMMA Same_Tables ==
    ASSUME TerminalInv, UNCHANGED <<attempt, square>>
    PROVE  QuietTables
BY DEF TerminalInv, LatchInv, Shapes, QuietTables

LEMMA PlainStep ==
    ASSUME TerminalInv, NEW p \in Tills, PlainMove(p), SameRefs, QuietTables
    PROVE  TerminalInv'
<1> USE DEF TerminalInv, LatchInv, DoneInv, K, QuietTables
<1>0. NoRef \notin Refs
  BY PosBillAssumption
<1>1. Shapes'
  BY DEF Shapes, PlainMove, SameRefs
<1>2. Places'
  <2> SUFFICES ASSUME NEW q \in Tills, proc'[q].ref \in Refs
               PROVE  /\ proc'[q].at \in Starting \cup Asking \cup Booking \cup Finishing
                      /\ proc'[q].at \in Starting \cup Asking =>
                            proc'[q].then = "idle" /\ proc'[q].catch = "idle"
                      /\ proc'[q].at \in (Booking \ {"book"}) \cup Finishing =>
                            proc'[q].then = "booked" /\ proc'[q].catch = "notBooked"
                      /\ proc'[q].at \in {"recRead", "recWrite"} => proc'[q].back = "payReread"
    BY DEF Places
  <2>1. CASE q # p
    BY <2>1 DEF PlainMove, Places
  <2>2. CASE q = p
    BY <1>0, <2>2 DEF PlainMove, Places, Starting, Asking, Booking, Finishing
  <2> QED BY <2>1, <2>2
<1>3. StartsAlone'
  BY <1>0 DEF PlainMove, StartsAlone, Starting, Asking, Booking, Finishing
<1>4. KnownToSquare'
  BY <1>0 DEF PlainMove, KnownToSquare, Asking, Booking, Finishing
<1>5. LatchHolds'
  <2>1. \A r \in pays' : r.ref \in Refs => attempt'[r.ref].latch # "open"
    BY DEF LatchHolds, SameRefs
  <2>2. ASSUME NEW q \in Tills, proc'[q].ref \in Refs, proc'[q].at \in Booking
        PROVE  proc'[q].ref = K(q) /\ proc[q].at \in Booking
    BY <1>0, <2>2 DEF PlainMove, Asking, Booking, Finishing
  <2>3. ASSUME NEW q \in Tills, proc'[q].ref \in Refs, proc'[q].at \in Booking \cup Finishing
        PROVE  proc'[q].ref = K(q) /\ proc[q].at \in Booking \cup Finishing
    BY <1>0, <2>3 DEF PlainMove, Asking, Booking, Finishing
  <2> QED BY <2>1, <2>2, <2>3 DEF LatchHolds, SameRefs
<1>6. OneRowEach'
  BY DEF OneRowEach, SameRefs
<1>7. DoneInv'
  BY <1>0 DEF PlainMove, SameRefs, Asking, Booking, Finishing
<1> QED BY <1>1, <1>2, <1>3, <1>4, <1>5, <1>6, <1>7

-----------------------------------------------------------------------------
(* What the ways to move a handler do *)

LEMMA Fresh_Move ==
    ASSUME Shapes, NEW p \in Tills, NEW rec, proc' = [proc EXCEPT ![p] = rec],
           rec.ref = NoRef, DOMAIN rec = ProcFields
    PROVE  PlainMove(p)
BY DEF Shapes, PlainMove

LEMMA Idle_Move ==
    ASSUME Shapes, NEW p \in Tills, proc' = [proc EXCEPT ![p] = IdleProc]
    PROVE  PlainMove(p)
<1>1. IdleProc.ref = NoRef /\ DOMAIN IdleProc = ProcFields
  BY DEF IdleProc, ProcFields
<1> QED BY <1>1, Fresh_Move

\* A handler that keeps everything but its place and what a place may not hang on.
LEMMA Keep_Move ==
    ASSUME TerminalInv, NEW p \in Tills, NEW rec, proc' = [proc EXCEPT ![p] = rec],
           DOMAIN rec = ProcFields, rec.ref = K(p),
           K(p) \in Refs =>
              /\ rec.then = proc[p].then /\ rec.catch = proc[p].catch
              /\ \/ /\ proc[p].at \in Booking \ {"book"}
                    /\ rec.at \in (Booking \ {"book"}) \cup Finishing
                 \/ proc[p].at \in Finishing /\ rec.at \in Finishing
                 \/ proc[p].at \in Asking /\ rec.at \in Asking \ {"claim"}
              /\ rec.at \in {"recRead", "recWrite"} => rec.back = "payReread"
    PROVE  PlainMove(p)
<1>1. K(p) \in Refs \cup {NoRef} /\ DOMAIN proc = Tills
  BY DEF TerminalInv, LatchInv, Shapes
<1>2. proc'[p] = rec /\ DOMAIN proc' = Tills /\ \A q \in Tills : q # p => proc'[q] = proc[q]
  BY <1>1
<1>3. K(p) \in Refs => rec.at # "claim"
  BY DEF Asking, Booking, Finishing
<1> QED BY <1>1, <1>2, <1>3 DEF PlainMove, K

LEMMA At_Move ==
    ASSUME TerminalInv, NEW p \in Tills, NEW where, 
           proc' = [proc EXCEPT ![p] = [proc[p] EXCEPT !.at = where]],
           K(p) \in Refs =>
              /\ \/ /\ proc[p].at \in Booking \ {"book"}
                    /\ where \in (Booking \ {"book"}) \cup Finishing
                 \/ proc[p].at \in Finishing /\ where \in Finishing
                 \/ proc[p].at \in Asking /\ where \in Asking \ {"claim"}
              /\ where \in {"recRead", "recWrite"} => proc[p].back = "payReread"
    PROVE  PlainMove(p)
<1> DEFINE rec == [proc[p] EXCEPT !.at = where]
<1>1. DOMAIN proc[p] = ProcFields
  BY DEF TerminalInv, LatchInv, Shapes
<1>2. {"at", "ref", "then", "catch", "back"} \subseteq ProcFields
  BY DEF ProcFields, IdleProc
<1>3. /\ DOMAIN rec = ProcFields /\ rec.ref = K(p) /\ rec.then = proc[p].then
      /\ rec.catch = proc[p].catch /\ rec.back = proc[p].back /\ rec.at = where
  BY <1>1, <1>2 DEF K
<1> HIDE DEF rec
<1>4. proc' = [proc EXCEPT ![p] = rec]
  BY DEF rec
<1> QED BY <1>3, <1>4, Keep_Move

LEMMA Goto_Move ==
    ASSUME TerminalInv, NEW p \in Tills, NEW where, Goto(p, where),
           K(p) \in Refs =>
              /\ \/ /\ proc[p].at \in Booking \ {"book"}
                    /\ where \in (Booking \ {"book"}) \cup Finishing
                 \/ proc[p].at \in Finishing /\ where \in Finishing
                 \/ proc[p].at \in Asking /\ where \in Asking \ {"claim"}
              /\ where \in {"recRead", "recWrite"} => proc[p].back = "payReread"
    PROVE  PlainMove(p)
<1>1. proc' = [proc EXCEPT ![p] = [proc[p] EXCEPT !.at = where]]
  BY DEF Goto
<1> QED BY <1>1, At_Move

\* Returning and throwing: a booking goes on to what is done about it.
LEMMA Return_Move ==
    ASSUME TerminalInv, NEW p \in Tills, Return(p) \/ Throw(p),
           K(p) \in Refs => proc[p].at # "book"
    PROVE  PlainMove(p)
<1> DEFINE where == IF Return(p) THEN proc[p].then ELSE proc[p].catch
<1>1. \/ proc' = [proc EXCEPT ![p] = IdleProc]
      \/ where # "idle" /\ proc' = [proc EXCEPT ![p] = [proc[p] EXCEPT !.at = where]]
  BY DEF Return, Throw, GoOrIdle
<1>2. CASE proc' = [proc EXCEPT ![p] = IdleProc]
  BY <1>2, Idle_Move DEF TerminalInv, LatchInv
<1>3. CASE where # "idle" /\ proc' = [proc EXCEPT ![p] = [proc[p] EXCEPT !.at = where]]
  <2>1. K(p) \in Refs =>
           /\ proc[p].at \in (Booking \ {"book"}) \cup Finishing
           /\ where \in {"booked", "notBooked"}
    BY <1>3 DEF TerminalInv, LatchInv, Places, Starting, Asking, Booking, Finishing
  <2> HIDE DEF where
  <2>2. K(p) \in Refs =>
              /\ \/ /\ proc[p].at \in Booking \ {"book"}
                    /\ where \in (Booking \ {"book"}) \cup Finishing
                 \/ proc[p].at \in Finishing /\ where \in Finishing
                 \/ proc[p].at \in Asking /\ where \in Asking \ {"claim"}
              /\ where \in {"recRead", "recWrite"} => proc[p].back = "payReread"
    BY <2>1 DEF Finishing
  <2> QED BY <1>3, <2>2, At_Move
<1> QED BY <1>1, <1>2, <1>3

\* A handler that stands anywhere else knows no ref.
LEMMA NoRef_Elsewhere ==
    ASSUME TerminalInv, NEW p \in Tills,
           proc[p].at \notin Starting \cup Asking \cup Booking \cup Finishing
    PROVE  K(p) = NoRef
BY DEF TerminalInv, LatchInv, Shapes, Places

LEMMA NoRef_Move ==
    ASSUME TerminalInv, NEW p \in Tills, K(p) = NoRef, NEW rec, proc' = [proc EXCEPT ![p] = rec],
           rec.ref = K(p), DOMAIN rec = ProcFields
    PROVE  PlainMove(p)
BY Fresh_Move DEF TerminalInv, LatchInv

LEMMA Same_Rows ==
    ASSUME TerminalInv, UNCHANGED pays
    PROVE  SameRefs
BY DEF TerminalInv, LatchInv, Shapes, OneRowEach, SameRefs

-----------------------------------------------------------------------------
(* The steps of PosBill                                                    *)

LEMMA RingUp_Move ==
    ASSUME TerminalInv, NEW p \in Tills, RingUp(p)
    PROVE  PlainMove(p) /\ SameRefs
<1>0. Shapes
  BY DEF TerminalInv, LatchInv
<1>1. Idle(p) /\ UNCHANGED pays
  BY DEF RingUp, CreateOrder, SetLinesRead, AddGiftCardSaleRead, SplitRead, MergeRead,
         RemoveGiftCardSaleRead, billVars
<1>2. SameRefs
  BY <1>1, Same_Rows
<1>a. /\ DOMAIN IdleProc = ProcFields /\ IdleProc.ref = NoRef
      /\ {"at", "ref", "b", "other", "want", "todo"} \subseteq ProcFields
  BY DEF IdleProc, ProcFields
<1>3. ASSUME NEW b \in Bills, CreateOrder(p, b) PROVE PlainMove(p)
  <2>1. proc[p].ref = NoRef
    BY <1>1, NoRef_Elsewhere DEF Idle, At, Starting, Asking, Booking, Finishing, K
  <2>2. UNCHANGED proc
    BY <1>3 DEF CreateOrder
  <2> QED BY <1>0, <2>1, <2>2 DEF PlainMove, Shapes
<1>4. ASSUME NEW b \in Bills, NEW goods \in 0..MaxGoods, SetLinesRead(p, b, goods) PROVE PlainMove(p)
  <2> DEFINE rec == [IdleProc EXCEPT !.at = "setLines", !.b = b, !.want = goods]
  <2>1. rec.ref = NoRef /\ DOMAIN rec = ProcFields
    BY <1>a
  <2> HIDE DEF rec
  <2>2. proc' = [proc EXCEPT ![p] = rec]
    BY <1>4 DEF SetLinesRead, rec
  <2> QED BY <1>0, <2>1, <2>2, Fresh_Move
<1>5. ASSUME NEW b \in Bills, AddGiftCardSaleRead(p, b) PROVE PlainMove(p)
  <2> DEFINE rec == [IdleProc EXCEPT !.at = "addSale", !.b = b]
  <2>1. rec.ref = NoRef /\ DOMAIN rec = ProcFields
    BY <1>a
  <2> HIDE DEF rec
  <2>2. proc' = [proc EXCEPT ![p] = rec]
    BY <1>5 DEF AddGiftCardSaleRead, rec, Begin
  <2> QED BY <1>0, <2>1, <2>2, Fresh_Move
<1>6. ASSUME NEW b \in Bills, SplitRead(p, b) PROVE PlainMove(p)
  <2> DEFINE rec == [IdleProc EXCEPT !.at = "splitNext", !.other = b,
                                   !.want = bill[b].goods + bill[b].gifts]
  <2>1. rec.ref = NoRef /\ DOMAIN rec = ProcFields
    BY <1>a
  <2> HIDE DEF rec
  <2>2. proc' = [proc EXCEPT ![p] = rec]
    BY <1>6 DEF SplitRead, rec
  <2> QED BY <1>0, <2>1, <2>2, Fresh_Move
<1>7. ASSUME NEW b \in Bills, NEW source \in Bills, MergeRead(p, b, source) PROVE PlainMove(p)
  <2> DEFINE rec == [IdleProc EXCEPT !.at = "merge", !.b = b, !.other = source]
  <2>1. rec.ref = NoRef /\ DOMAIN rec = ProcFields
    BY <1>a
  <2> HIDE DEF rec
  <2>2. proc' = [proc EXCEPT ![p] = rec]
    BY <1>7 DEF MergeRead, rec
  <2> QED BY <1>0, <2>1, <2>2, Fresh_Move
<1>8. ASSUME NEW s \in Sales, RemoveGiftCardSaleRead(p, s) PROVE PlainMove(p)
  <2> DEFINE rec == [IdleProc EXCEPT !.at = "removeSale", !.b = sale[s].on, !.todo = {s}]
  <2>1. rec.ref = NoRef /\ DOMAIN rec = ProcFields
    BY <1>a
  <2> HIDE DEF rec
  <2>2. proc' = [proc EXCEPT ![p] = rec]
    BY <1>8 DEF RemoveGiftCardSaleRead, rec
  <2> QED BY <1>0, <2>1, <2>2, Fresh_Move
<1> QED BY <1>2, <1>3, <1>4, <1>5, <1>6, <1>7, <1>8 DEF RingUp

\* What a payment or a refund does with its handler: it is refused, or it goes
\* on to a place from which it may be booked.
TakenUp(q, rec) ==
    /\ DOMAIN rec = ProcFields
    /\ rec.at # "idle" => rec.ref = q.ref /\ rec.then = q.then /\ rec.catch = q.catch
    /\ \/ rec = IdleProc /\ q.catch = "idle"
       \/ rec.at = q.catch /\ q.catch # "idle"
       \/ rec.at = "recRead" /\ rec.back = "payReread"
       \/ rec.at \in {"debit", "record", "refund"}

LEMMA Decide_Record ==
    ASSUME NEW q, DOMAIN q = ProcFields
    PROVE  TakenUp(q, Decide(q)) /\ Decide(q).at \in {"idle", q.catch, "debit", "record"}
<1>1. {"at", "ref", "then", "catch", "back", "amt", "settle", "tips"} \subseteq ProcFields
  BY DEF ProcFields, IdleProc
<1>2. DOMAIN IdleProc = ProcFields /\ IdleProc.at = "idle"
  BY DEF ProcFields, IdleProc
<1> QED BY <1>1, <1>2 DEF Decide, Refused, TakenUp

LEMMA TakePayment_Record ==
    ASSUME NEW q, DOMAIN q = ProcFields
    PROVE  TakenUp(q, TakePayment(q))
<1>1. {"at", "ref", "then", "catch", "back", "amt", "settle", "tips"} \subseteq ProcFields
  BY DEF ProcFields, IdleProc
<1>2. DOMAIN IdleProc = ProcFields /\ IdleProc.at = "idle"
  BY DEF ProcFields, IdleProc
<1> QED BY <1>1, <1>2, Decide_Record DEF TakePayment, Refused, TakenUp

LEMMA TakeRefund_Record ==
    ASSUME NEW q, DOMAIN q = ProcFields
    PROVE  TakenUp(q, TakeRefund(q))
<1>1. {"at", "ref", "then", "catch", "back", "amt", "settle", "tips"} \subseteq ProcFields
  BY DEF ProcFields, IdleProc
<1>2. DOMAIN IdleProc = ProcFields /\ IdleProc.at = "idle"
  BY DEF ProcFields, IdleProc
<1> QED BY <1>1, <1>2 DEF TakeRefund, Refused, TakenUp

LEMMA SettleUp_Move ==
    ASSUME TerminalInv, NEW p \in Tills, SettleUp(p)
    PROVE  PlainMove(p) /\ SameRefs
<1>0. Shapes
  BY DEF TerminalInv, LatchInv
<1>1. UNCHANGED pays
  BY DEF SettleUp, PayOrder, RefundOrder, VoidRead, ReopenRead, UndoRead, billVars
<1>2. SameRefs
  BY <1>1, Same_Rows
<1>a. /\ DOMAIN IdleProc = ProcFields /\ IdleProc.ref = NoRef /\ IdleProc.catch = "idle"
      /\ {"at", "ref", "b", "method", "want", "tip", "pay", "tips", "catch"} \subseteq ProcFields
  BY DEF IdleProc, ProcFields
<1>3. ASSUME NEW b \in Bills, NEW method \in TillTenders, NEW want \in 0..MaxGoods,
           NEW tip \in 0..MaxTip, PayOrder(p, b, method, want, tip) PROVE PlainMove(p)
  <2> DEFINE q == [IdleProc EXCEPT !.b = b, !.method = method, !.want = want, !.tip = tip]
  <2>1. DOMAIN q = ProcFields /\ q.ref = NoRef /\ q.catch = "idle"
    BY <1>a
  <2> HIDE DEF q
  <2>2. proc' = [proc EXCEPT ![p] = TakePayment(q)]
    BY <1>3 DEF PayOrder, q
  <2>3. TakePayment(q).ref = NoRef /\ DOMAIN TakePayment(q) = ProcFields
    BY <1>a, <2>1, TakePayment_Record DEF TakenUp
  <2> QED BY <1>0, <2>2, <2>3, Fresh_Move
<1>4. ASSUME NEW b \in Bills, NEW method \in {"CASH", "REFUND"}, NEW want \in 0..MaxGoods,
             RefundOrder(p, b, method, want)
      PROVE  PlainMove(p)
  <2> DEFINE q == [IdleProc EXCEPT !.b = b, !.method = method, !.want = want]
  <2>1. DOMAIN q = ProcFields /\ q.ref = NoRef /\ q.catch = "idle"
    BY <1>a
  <2> HIDE DEF q
  <2>2. proc' = [proc EXCEPT ![p] = TakeRefund(q)]
    BY <1>4 DEF RefundOrder, q
  <2>3. TakeRefund(q).ref = NoRef /\ DOMAIN TakeRefund(q) = ProcFields
    BY <1>a, <2>1, TakeRefund_Record DEF TakenUp
  <2> QED BY <1>0, <2>2, <2>3, Fresh_Move
<1>5. ASSUME NEW b \in Bills, VoidRead(p, b) PROVE PlainMove(p)
  <2> DEFINE rec == [IdleProc EXCEPT !.at = "void", !.b = b]
  <2>1. rec.ref = NoRef /\ DOMAIN rec = ProcFields
    BY <1>a
  <2> HIDE DEF rec
  <2>2. proc' = [proc EXCEPT ![p] = rec]
    BY <1>5 DEF VoidRead, rec, Begin
  <2> QED BY <1>0, <2>1, <2>2, Fresh_Move
<1>6. ASSUME NEW b \in Bills, ReopenRead(p, b) PROVE PlainMove(p)
  <2> DEFINE rec == [IdleProc EXCEPT !.at = "reopen", !.b = b]
  <2>1. rec.ref = NoRef /\ DOMAIN rec = ProcFields
    BY <1>a
  <2> HIDE DEF rec
  <2>2. proc' = [proc EXCEPT ![p] = rec]
    BY <1>6 DEF ReopenRead, rec, Begin
  <2> QED BY <1>0, <2>1, <2>2, Fresh_Move
<1>7. ASSUME NEW r \in pays, UndoRead(p, r) PROVE PlainMove(p)
  <2> DEFINE rec == [IdleProc EXCEPT !.at = "undoDelete", !.b = r.bill, !.pay = r.id,
                                   !.tips = AtLeastZero(bill[r.bill].tip - r.tip)]
  <2>1. rec.ref = NoRef /\ DOMAIN rec = ProcFields
    BY <1>a
  <2> HIDE DEF rec
  <2>2. proc' = [proc EXCEPT ![p] = rec]
    BY <1>7 DEF UndoRead, rec
  <2> QED BY <1>0, <2>1, <2>2, Fresh_Move
<1> QED BY <1>2, <1>3, <1>4, <1>5, <1>6, <1>7 DEF SettleUp

\* Merging changes the bill of a row and nothing else of it.
LEMMA Merge_Rows ==
    ASSUME TerminalInv, NEW s, NEW t, pays' = {IF r.bill = s THEN [r EXCEPT !.bill = t] ELSE r : r \in pays}
    PROVE  SameRefs
<1> DEFINE moved(r) == IF r.bill = s THEN [r EXCEPT !.bill = t] ELSE r
<1>1. ASSUME NEW r \in pays
      PROVE  DOMAIN moved(r) = {"id", "bill", "method", "amt", "tip", "ref"} /\ moved(r).ref = r.ref
  <2>1. DOMAIN r = {"id", "bill", "method", "amt", "tip", "ref"}
    BY DEF TerminalInv, LatchInv, Shapes
  <2> QED BY <2>1
<1> HIDE DEF moved
<1>2. pays' = {moved(r) : r \in pays}
  BY DEF moved
<1>3. ASSUME NEW x \in pays', NEW y \in pays', x.ref \in Refs, x.ref = y.ref PROVE x = y
  <2>1. PICK r1 \in pays : x = moved(r1)
    BY <1>2
  <2>2. PICK r2 \in pays : y = moved(r2)
    BY <1>2
  <2>3. r1 = r2
    BY <1>1, <1>3, <2>1, <2>2 DEF TerminalInv, LatchInv, OneRowEach
  <2> QED BY <2>1, <2>2, <2>3
<1> QED BY <1>1, <1>2, <1>3 DEF SameRefs

LEMMA LineStep_Move ==
    ASSUME TerminalInv, NEW p \in Tills, LineStep(p)
    PROVE  PlainMove(p) /\ SameRefs
<1>0. Shapes /\ K(p) \in Refs \cup {NoRef} /\ DOMAIN proc[p] = ProcFields
  BY DEF TerminalInv, LatchInv, Shapes
<1>1. SameRefs
  <2>1. CASE MergeOrders(p)
    BY <2>1, Merge_Rows DEF MergeOrders
  <2>2. CASE ~MergeOrders(p)
    <3>1. UNCHANGED pays
      BY <2>2 DEF LineStep, SetLines, AddGiftCardSale, RemoveGiftCardSale, SyncRead, SyncClear,
             SyncCreate, RecomputeRead, RecomputeWrite, SplitChild, SplitVoid, billVars
    <3> QED BY <3>1, Same_Rows
  <2> QED BY <2>1, <2>2
<1> SUFFICES PlainMove(p)
  BY <1>1
<1>a. {"at", "ref", "b", "then", "catch", "back", "sum", "todo", "kids"} \subseteq ProcFields
  BY DEF ProcFields, IdleProc
<1> DEFINE Ringing == {"setLines", "addSale", "removeSale", "syncRead", "syncClear", "syncCreate",
                       "merge", "splitNext"}
<1>2. ASSUME proc[p].at \in Ringing PROVE K(p) = NoRef
  BY <1>2, NoRef_Elsewhere DEF Starting, Asking, Booking, Finishing
<1>3. ASSUME proc[p].at \in Ringing, NEW where, Goto(p, where) PROVE PlainMove(p)
  <2>1. K(p) \notin Refs
    BY <1>2, <1>3, PosBillAssumption
  <2> QED BY <1>3, <2>1, Goto_Move
<1>4. CASE SetLines(p)
  BY <1>3, <1>4 DEF SetLines, At
<1>5. ASSUME NEW s \in Sales, AddGiftCardSale(p, s) PROVE PlainMove(p)
  BY <1>3, <1>5 DEF AddGiftCardSale, At
<1>6. CASE RemoveGiftCardSale(p)
  <2>1. K(p) = NoRef
    BY <1>2, <1>6 DEF RemoveGiftCardSale, At
  <2>2. CASE Throw(p)
    BY <2>1, <2>2, PosBillAssumption, Return_Move
  <2>3. CASE proc' = [proc EXCEPT ![p] = [proc[p] EXCEPT !.at = "syncRead", !.todo = {}]]
    <3> DEFINE rec == [proc[p] EXCEPT !.at = "syncRead", !.todo = {}]
    <3>1. rec.ref = K(p) /\ DOMAIN rec = ProcFields
      BY <1>0, <1>a DEF K
    <3> HIDE DEF rec
    <3> QED BY <2>1, <2>3, <3>1, NoRef_Move DEF rec
  <2> QED BY <1>6, <2>2, <2>3 DEF RemoveGiftCardSale
<1>7. CASE SyncRead(p)
  <2> DEFINE rec == [proc[p] EXCEPT !.at = "syncClear", !.todo = SalesOn(B(p))]
  <2>1. rec.ref = K(p) /\ DOMAIN rec = ProcFields
    BY <1>0, <1>a DEF K
  <2>2. proc' = [proc EXCEPT ![p] = rec]
    BY <1>7 DEF SyncRead
  <2> HIDE DEF rec
  <2> QED BY <1>2, <1>7, <2>1, <2>2, NoRef_Move DEF SyncRead, At
<1>8. CASE SyncClear(p)
  BY <1>3, <1>8 DEF SyncClear, At
<1>9. CASE SyncCreate(p)
  <2> DEFINE rec == [proc[p] EXCEPT !.at = "recRead", !.todo = {}]
  <2>1. rec.ref = K(p) /\ DOMAIN rec = ProcFields
    BY <1>0, <1>a DEF K
  <2>2. proc' = [proc EXCEPT ![p] = rec]
    BY <1>9 DEF SyncCreate
  <2> HIDE DEF rec
  <2> QED BY <1>2, <1>9, <2>1, <2>2, NoRef_Move DEF SyncCreate, At
<1>10. CASE RecomputeRead(p)
  <2> DEFINE rec == [proc[p] EXCEPT !.at = "recWrite", !.sum = bill[B(p)].goods + bill[B(p)].gifts]
  <2>1. /\ rec.ref = K(p) /\ DOMAIN rec = ProcFields /\ rec.then = proc[p].then
        /\ rec.catch = proc[p].catch /\ rec.back = proc[p].back /\ rec.at = "recWrite"
    BY <1>0, <1>a DEF K
  <2>2. proc' = [proc EXCEPT ![p] = rec] /\ proc[p].at = "recRead"
    BY <1>10 DEF RecomputeRead, At
  <2> HIDE DEF rec
  <2>3. K(p) \in Refs => proc[p].back = "payReread"
    BY <2>2 DEF TerminalInv, LatchInv, Places
  <2>4. "recRead" \in Booking \ {"book"} /\ "recWrite" \in Booking \ {"book"}
    BY DEF Booking
  <2> QED BY <2>1, <2>2, <2>3, <2>4, Keep_Move
<1>11. CASE RecomputeWrite(p)
  <2>1. proc[p].at = "recWrite" /\ GoOrIdle(p, proc[p].back)
    BY <1>11 DEF RecomputeWrite, At
  <2>2. CASE proc[p].back = "idle"
    BY <1>0, <2>1, <2>2, Idle_Move DEF GoOrIdle
  <2>3. CASE proc[p].back # "idle"
    <3>1. proc' = [proc EXCEPT ![p] = [proc[p] EXCEPT !.at = proc[p].back]]
      BY <2>1, <2>3 DEF GoOrIdle
    <3>2. K(p) \in Refs => proc[p].back = "payReread"
      BY <2>1 DEF TerminalInv, LatchInv, Places
    <3>3. "recWrite" \in Booking \ {"book"} /\ "payReread" \in Booking \ {"book"}
      BY DEF Booking
    <3> QED BY <2>1, <3>1, <3>2, <3>3, At_Move
  <2> QED BY <2>2, <2>3
<1>12. CASE MergeOrders(p)
  BY <1>3, <1>12 DEF MergeOrders, At
<1>13. ASSUME NEW c \in Bills, SplitChild(p, c) PROVE PlainMove(p)
  <2> DEFINE rec == [proc[p] EXCEPT !.at = "recRead", !.b = c, !.back = "splitNext",
                                    !.kids = proc[p].kids \cup {c}]
  <2>1. rec.ref = K(p) /\ DOMAIN rec = ProcFields
    BY <1>0, <1>a DEF K
  <2>2. proc' = [proc EXCEPT ![p] = rec]
    BY <1>13 DEF SplitChild
  <2> HIDE DEF rec
  <2> QED BY <1>2, <1>13, <2>1, <2>2, NoRef_Move DEF SplitChild, At
<1>14. CASE SplitVoid(p)
  <2>1. K(p) \notin Refs /\ Return(p)
    BY <1>2, <1>14, PosBillAssumption DEF SplitVoid, At
  <2> QED BY <2>1, Return_Move
<1> QED BY <1>1, <1>4, <1>5, <1>6, <1>7, <1>8, <1>9, <1>10, <1>11, <1>12, <1>13, <1>14 DEF LineStep

LEMMA PayStep_Move ==
    ASSUME TerminalInv, NEW p \in Tills, PayStep(p), ~Record(p)
    PROVE  PlainMove(p) /\ SameRefs
<1>0. Shapes /\ K(p) \in Refs \cup {NoRef} /\ DOMAIN proc[p] = ProcFields
  BY DEF TerminalInv, LatchInv, Shapes
<1>1. UNCHANGED pays
  BY DEF PayStep, PayReread, Debit, SetStatus, IssueList, IssueNext, IssueMark, billVars
<1>2. SameRefs
  BY <1>1, Same_Rows
<1> SUFFICES PlainMove(p)
  BY <1>2
<1>a. {"at", "ref", "then", "catch", "back", "todo", "doing"} \subseteq ProcFields
  BY DEF ProcFields, IdleProc
<1>b. /\ {"payReread", "debit", "record"} \subseteq Booking \ {"book"}
      /\ {"status", "issueList", "issueNext", "issueMark", "notBooked"} \subseteq Finishing
      /\ {"recRead", "recWrite"} \cap Finishing = {}
  BY DEF Booking, Finishing
<1>3. CASE PayReread(p)
  <2> DEFINE q == [proc[p] EXCEPT !.back = "idle"]
  <2>1. /\ DOMAIN q = ProcFields /\ q.ref = K(p) /\ q.then = proc[p].then
        /\ q.catch = proc[p].catch
    BY <1>0, <1>a DEF K
  <2>2. proc' = [proc EXCEPT ![p] = Decide(q)] /\ proc[p].at = "payReread"
    BY <1>3 DEF PayReread, At
  <2> HIDE DEF q
  <2>3. TakenUp(q, Decide(q)) /\ Decide(q).at \in {"idle", q.catch, "debit", "record"}
    BY <2>1, Decide_Record
  <2>4. CASE Decide(q) = IdleProc
    BY <1>0, <2>2, <2>4, Idle_Move
  <2>5. CASE Decide(q) # IdleProc
    <3>0. K(p) \in Refs => proc[p].catch = "notBooked" 
      BY <1>b, <2>2 DEF TerminalInv, LatchInv, Places
    <3>1. K(p) \in Refs => Decide(q).at \in {"notBooked", "debit", "record"}
      BY <2>1, <2>3, <2>5, <3>0 DEF TakenUp
    <3>2. DOMAIN Decide(q) = ProcFields
      BY <2>3 DEF TakenUp
    <3>3. CASE K(p) \in Refs
      <4>1. Decide(q).ref = q.ref /\ Decide(q).then = q.then /\ Decide(q).catch = q.catch
        BY <2>3, <3>1, <3>3 DEF TakenUp
      <4> QED BY <1>b, <2>1, <2>2, <3>1, <3>2, <4>1, Keep_Move
    <3>4. CASE K(p) = NoRef
      <4>1. Decide(q).ref = NoRef
        <5>1. CASE Decide(q).at # "idle"
          BY <2>1, <2>3, <3>4, <5>1 DEF TakenUp
        <5>2. CASE Decide(q).at = "idle"
          BY <2>3, <2>5, <5>2 DEF TakenUp
        <5> QED BY <5>1, <5>2
      <4> QED BY <1>0, <2>2, <3>2, <4>1, Fresh_Move
    <3> QED BY <1>0, <3>3, <3>4
  <2> QED BY <2>4, <2>5
<1>4. CASE Debit(p)
  <2>1. proc[p].at = "debit" /\ (Goto(p, "record") \/ Throw(p))
    BY <1>4 DEF Debit, At
  <2>2. CASE Goto(p, "record")
    BY <1>b, <2>1, <2>2, Goto_Move
  <2> QED BY <2>1, <2>2, Return_Move
<1>5. CASE SetStatus(p)
  <2>1. proc[p].at = "status" /\ (Goto(p, "issueList") \/ Return(p))
    BY <1>5 DEF SetStatus, At
  <2>2. CASE Goto(p, "issueList")
    BY <1>b, <2>1, <2>2, Goto_Move
  <2> QED BY <2>1, <2>2, Return_Move
\* The loop over the sales moves between three places of Finishing.
<1>6. ASSUME proc[p].at \in Finishing, NEW rec, DOMAIN rec = ProcFields, rec.ref = K(p),
             rec.then = proc[p].then, rec.catch = proc[p].catch, rec.at \in Finishing,
             proc' = [proc EXCEPT ![p] = rec]
      PROVE  PlainMove(p)
  BY <1>6, <1>b, Keep_Move
<1>7. CASE IssueList(p)
  <2> DEFINE pending == {s \in SalesOn(B(p)) : ~sale[s].issued}
  <2> DEFINE rec == [proc[p] EXCEPT !.at = "issueNext", !.todo = pending]
  <2>1. /\ DOMAIN rec = ProcFields /\ rec.ref = K(p) /\ rec.at = "issueNext"
        /\ rec.then = proc[p].then /\ rec.catch = proc[p].catch
    BY <1>0, <1>a DEF K
  <2>2. proc[p].at = "issueList" /\ (Return(p) \/ proc' = [proc EXCEPT ![p] = rec])
    BY <1>7 DEF IssueList, At
  <2> HIDE DEF rec
  <2>3. CASE proc' = [proc EXCEPT ![p] = rec]
    BY <1>6, <1>b, <2>1, <2>2, <2>3
  <2> QED BY <2>2, <2>3, Return_Move
<1>8. ASSUME NEW rest, NextSale(p, rest), proc[p].at \in Finishing PROVE PlainMove(p)
  <2> DEFINE rec == [proc[p] EXCEPT !.at = "issueNext", !.todo = rest, !.doing = {}]
  <2>1. /\ DOMAIN rec = ProcFields /\ rec.ref = K(p) /\ rec.at = "issueNext"
        /\ rec.then = proc[p].then /\ rec.catch = proc[p].catch
    BY <1>0, <1>a DEF K
  <2>2. Return(p) \/ proc' = [proc EXCEPT ![p] = rec]
    BY <1>8 DEF NextSale
  <2> HIDE DEF rec
  <2>3. CASE proc' = [proc EXCEPT ![p] = rec]
    BY <1>6, <1>8, <1>b, <2>1, <2>3
  <2>4. proc[p].at # "book"
    BY <1>8 DEF Finishing
  <2> QED BY <2>2, <2>3, <2>4, Return_Move
<1>9. ASSUME NEW s \in Sales, IssueNext(p, s) PROVE PlainMove(p)
  <2> DEFINE rec == [proc[p] EXCEPT !.at = "issueMark", !.todo = proc[p].todo \ {s}, !.doing = {s}]
  <2>1. /\ DOMAIN rec = ProcFields /\ rec.ref = K(p) /\ rec.at = "issueMark"
        /\ rec.then = proc[p].then /\ rec.catch = proc[p].catch
    BY <1>0, <1>a DEF K
  <2>2. /\ proc[p].at \in Finishing
        /\ NextSale(p, proc[p].todo \ {s}) \/ proc' = [proc EXCEPT ![p] = rec]
    BY <1>9, <1>b DEF IssueNext, At
  <2> HIDE DEF rec
  <2>3. CASE proc' = [proc EXCEPT ![p] = rec]
    BY <1>6, <1>b, <2>1, <2>2, <2>3
  <2> QED BY <1>8, <2>2, <2>3
<1>10. CASE IssueMark(p)
  BY <1>8, <1>10, <1>b DEF IssueMark, At
<1> QED BY <1>3, <1>4, <1>5, <1>7, <1>9, <1>10 DEF PayStep

LEMMA ReverseStep_Move ==
    ASSUME TerminalInv, NEW p \in Tills, ReverseStep(p), ~Refund(p)
    PROVE  PlainMove(p) /\ SameRefs
<1>1. SameRefs
  <2>1. CASE UndoDelete(p)
    <3>1. pays' \subseteq pays
      BY <2>1 DEF UndoDelete
    <3> QED BY <3>1 DEF TerminalInv, LatchInv, Shapes, OneRowEach, SameRefs
  <2>2. CASE ~UndoDelete(p)
    <3>1. UNCHANGED pays
      BY <2>2 DEF ReverseStep, UndoStatus, VoidOrder, ReopenOrder, RefundCards
    <3> QED BY <3>1, Same_Rows
  <2> QED BY <2>1, <2>2
<1>2. proc[p].at \in {"undoDelete", "undoStatus", "void", "reopen", "refundCards"}
  BY DEF ReverseStep, UndoDelete, UndoStatus, VoidOrder, ReopenOrder, RefundCards, At
<1>3. Goto(p, "undoStatus") \/ Return(p) \/ Throw(p)
  BY DEF ReverseStep, UndoDelete, UndoStatus, VoidOrder, ReopenOrder, RefundCards
<1>4. CASE Goto(p, "undoStatus") /\ UndoDelete(p)
  <2>1. K(p) \notin Refs
    BY <1>4, NoRef_Elsewhere, PosBillAssumption
       DEF UndoDelete, At, Starting, Asking, Booking, Finishing
  <2> QED BY <1>1, <1>4, <2>1, Goto_Move
<1>5. CASE Return(p) \/ Throw(p)
  BY <1>1, <1>2, <1>5, Return_Move
<1> QED BY <1>4, <1>5 DEF ReverseStep, UndoDelete, UndoStatus, VoidOrder, ReopenOrder, RefundCards

\* The step that books: the row of a ref appears once its handler, the only one
\* there is, goes on to where nothing is booked.
LEMMA Add_Row ==
    ASSUME TerminalInv, NEW p \in Tills, NEW b, NEW method, NEW amt, NEW tip,
           proc[p].at \in {"record", "refund"}, AddPayment(b, method, amt, tip, proc[p].ref),
           PlainMove(p), proc'[p].ref \in Refs => proc'[p].at \in Finishing,
           UNCHANGED <<attempt, square>>
    PROVE  TerminalInv'
<1> DEFINE row == [id |-> written + 1, bill |-> b, method |-> method, amt |-> amt,
                   tip |-> tip, ref |-> K(p)]
<1>0. NoRef \notin Refs /\ proc[p].at \in Booking \ {"book"} /\ proc[p].at # "row"
  BY PosBillAssumption DEF Booking
<1>1. pays' = pays \cup {row} /\ row.ref = K(p)
      /\ DOMAIN row = {"id", "bill", "method", "amt", "tip", "ref"}
  BY DEF AddPayment, K
<1> HIDE DEF row
<1>2. K(p) \in Refs =>
         /\ attempt[K(p)].latch # "open"
         /\ square[K(p)].status = "COMPLETED"
         /\ \A r \in pays : r.ref # K(p)
         /\ \A q \in Tills : q # p /\ K(q) = K(p) => proc[q].at \notin Booking
  BY <1>0 DEF TerminalInv, LatchInv, LatchHolds, DoneInv
<1>3. Shapes'
  BY <1>1 DEF TerminalInv, LatchInv, Shapes, PlainMove, K
<1>4. Places'
  <2> SUFFICES ASSUME NEW q \in Tills, proc'[q].ref \in Refs
               PROVE  /\ proc'[q].at \in Starting \cup Asking \cup Booking \cup Finishing
                      /\ proc'[q].at \in Starting \cup Asking =>
                            proc'[q].then = "idle" /\ proc'[q].catch = "idle"
                      /\ proc'[q].at \in (Booking \ {"book"}) \cup Finishing =>
                            proc'[q].then = "booked" /\ proc'[q].catch = "notBooked"
                      /\ proc'[q].at \in {"recRead", "recWrite"} => proc'[q].back = "payReread"
    BY DEF Places, K
  <2>1. CASE q # p
    BY <2>1 DEF PlainMove, TerminalInv, LatchInv, Places, K
  <2>2. CASE q = p
    BY <1>0, <2>2 DEF PlainMove, TerminalInv, LatchInv, Places, Starting, Asking, Booking, Finishing, K
  <2> QED BY <2>1, <2>2
<1>5. StartsAlone'
  BY <1>0 DEF TerminalInv, LatchInv, PlainMove, StartsAlone, Starting, Asking, Booking, Finishing, K
<1>6. KnownToSquare'
  BY <1>0 DEF TerminalInv, LatchInv, PlainMove, KnownToSquare, Asking, Booking, Finishing, K
<1>7. LatchHolds'
  <2>1. \A r \in pays' : r.ref \in Refs => attempt'[r.ref].latch # "open"
    BY <1>1, <1>2 DEF TerminalInv, LatchInv, LatchHolds
  <2>2. ASSUME NEW q \in Tills, proc'[q].ref \in Refs, proc'[q].at \in Booking
        PROVE  q # p /\ proc'[q] = proc[q] /\ K(q) # K(p)
    <3>1. q # p
      BY <2>2 DEF Booking, Finishing
    <3>2. proc'[q] = proc[q]
      BY <3>1 DEF PlainMove
    <3>3. K(q) \in Refs /\ proc[q].at \in Booking
      BY <2>2, <3>2 DEF K
    <3>4. K(q) # K(p)
      BY <1>2, <3>1, <3>3
    <3> QED BY <3>1, <3>2, <3>4
  <2>3. \A q \in Tills : proc'[q].ref \in Refs =>
           proc'[q].ref = K(q) /\ (proc'[q].at \in Booking => proc[q].at \in Booking)
    BY <1>0 DEF PlainMove, K, Booking, Finishing
  <2>4. \A q \in Tills : proc'[q].ref \in Refs =>
           (proc'[q].at \in Booking \cup Finishing => proc[q].at \in Booking \cup Finishing)
    BY <1>0 DEF PlainMove, K, Booking, Finishing
  <2> QED BY <1>1, <2>1, <2>2, <2>3, <2>4 DEF TerminalInv, LatchInv, LatchHolds, K
<1>8. OneRowEach'
  BY <1>1, <1>2 DEF TerminalInv, LatchInv, OneRowEach
<1>9. DoneInv'
  BY <1>0, <1>1, <1>2 DEF TerminalInv, PlainMove, DoneInv, Asking, Booking, Finishing, K
<1> QED BY <1>3, <1>4, <1>5, <1>6, <1>7, <1>8, <1>9 DEF TerminalInv, LatchInv

LEMMA Record_Inv ==
    ASSUME TerminalInv, NEW p \in Tills, Record(p), UNCHANGED <<attempt, square>>
    PROVE  TerminalInv'
<1>1. proc[p].at = "record" /\ Goto(p, "status")
  BY DEF Record, At
<1>2. "record" \in Booking \ {"book"} /\ "status" \in Finishing /\ "status" \notin {"recRead", "recWrite"}
  BY DEF Booking, Finishing
<1>3. PlainMove(p)
  BY <1>1, <1>2, Goto_Move
<1>4. proc'[p].at = "status"
  BY <1>1 DEF Goto, TerminalInv, LatchInv, Shapes, ProcFields, IdleProc
<1> QED BY <1>1, <1>2, <1>3, <1>4, Add_Row DEF Record

LEMMA Refund_Inv ==
    ASSUME TerminalInv, NEW p \in Tills, Refund(p), UNCHANGED <<attempt, square>>
    PROVE  TerminalInv'
<1>1. proc[p].at = "refund" /\ (Goto(p, "refundCards") \/ Return(p))
  BY DEF Refund, At
<1>2. /\ "refund" \in Booking \ {"book"} /\ {"refundCards", "booked"} \subseteq Finishing
      /\ "refundCards" \notin {"recRead", "recWrite"}
  BY DEF Booking, Finishing
<1>3. PlainMove(p)
  <2>1. CASE Goto(p, "refundCards")
    BY <1>1, <1>2, <2>1, Goto_Move
  <2> QED BY <1>1, <2>1, Return_Move
<1>4. DOMAIN proc = Tills /\ DOMAIN proc[p] = ProcFields /\ {"at", "ref"} \subseteq ProcFields
  BY DEF TerminalInv, LatchInv, Shapes, ProcFields, IdleProc
<1>5. proc'[p].ref \in Refs => proc'[p].at \in Finishing
  <2>1. CASE Goto(p, "refundCards")
    BY <1>2, <1>4, <2>1 DEF Goto
  <2>2. CASE Return(p)
    <3>1. K(p) \in Refs => proc[p].then = "booked"
      BY <1>1, <1>2 DEF TerminalInv, LatchInv, Places
    <3>2. \/ proc' = [proc EXCEPT ![p] = IdleProc]
          \/ proc' = [proc EXCEPT ![p] = [proc[p] EXCEPT !.at = proc[p].then]]
      BY <2>2 DEF Return, GoOrIdle
    <3>3. IdleProc.ref = NoRef /\ NoRef \notin Refs
      BY PosBillAssumption DEF IdleProc
    <3> QED BY <1>2, <1>4, <3>1, <3>2, <3>3 DEF K
  <2> QED BY <1>1, <2>1, <2>2
<1> QED BY <1>1, <1>3, <1>5, Add_Row DEF Refund

LEMMA Step_Inv ==
    ASSUME TerminalInv, Step, UNCHANGED terminalVars
    PROVE  TerminalInv'
<1>1. UNCHANGED <<attempt, square>> /\ QuietTables
  BY Same_Tables DEF terminalVars
<1>2. PICK p \in Tills : RingUp(p) \/ SettleUp(p) \/ LineStep(p) \/ PayStep(p) \/ ReverseStep(p)
  BY DEF Step, StepOf
<1>3. CASE RingUp(p)
  BY <1>1, <1>3, RingUp_Move, PlainStep
<1>4. CASE SettleUp(p)
  BY <1>1, <1>4, SettleUp_Move, PlainStep
<1>5. CASE LineStep(p)
  BY <1>1, <1>5, LineStep_Move, PlainStep
<1>6. CASE PayStep(p)
  BY <1>1, <1>6, PayStep_Move, PlainStep, Record_Inv
<1>7. CASE ReverseStep(p)
  BY <1>1, <1>7, ReverseStep_Move, PlainStep, Refund_Inv
<1> QED BY <1>2, <1>3, <1>4, <1>5, <1>6, <1>7

-----------------------------------------------------------------------------
(* The steps of the terminal                                               *)

LEMMA Outside_Inv ==
    ASSUME TerminalInv, Outside
    PROVE  TerminalInv'
<1>1. UNCHANGED <<proc, pays>>
  BY DEF Outside, CardPresented, Completes, IsCanceled, vars
<1>2. QuietTables
  BY DEF Outside, CardPresented, Completes, IsCanceled, OnTerminal, TERMINAL_DONE, QuietTables,
         TerminalInv, LatchInv, Shapes, NotOnSquare
<1> QED BY <1>1, <1>2 DEF TerminalInv, LatchInv, DoneInv, Shapes, Places, StartsAlone, KnownToSquare,
                          LatchHolds, OneRowEach, QuietTables, K

\* A handler takes up a ref: a new one to start, or one that has a row.
LEMMA New_Ref ==
    ASSUME TerminalInv, NEW p \in Tills, NEW k \in Refs, NEW rec, proc' = [proc EXCEPT ![p] = rec],
           DOMAIN rec = ProcFields, rec.ref = k, rec.then = "idle", rec.catch = "idle",
           \/ rec.at = "inFlight" /\ Fresh(k)
           \/ rec.at \in {"ask", "cancel"} /\ attempt[k].kind # "none",
           UNCHANGED <<attempt, square, pays>>
    PROVE  TerminalInv'
<1> USE DEF TerminalInv, LatchInv
<1>0. /\ rec.at \in Starting \cup Asking /\ rec.at \notin Booking \cup Finishing
      /\ rec.at \notin {"recRead", "recWrite", "row", "claim"}
      /\ rec.at \in Starting => rec.at = "inFlight"
      /\ rec.at = "inFlight" => rec.at \in Starting
  BY DEF Starting, Asking, Booking, Finishing
<1>1. proc'[p] = rec /\ DOMAIN proc' = Tills /\ \A q \in Tills : q # p => proc'[q] = proc[q]
  BY DEF Shapes
<1>2. Shapes'
  BY <1>1 DEF Shapes, K
<1>3. Places'
  BY <1>0, <1>1 DEF Places, K
<1>4. StartsAlone'
  <2>1. CASE rec.at = "inFlight" /\ Fresh(k)
    <3>1. attempt[k].kind = "none"
      BY <2>1 DEF Fresh, KnownToSquare
    <3> QED BY <1>0, <1>1, <2>1, <3>1 DEF StartsAlone, K, Fresh
  <2>2. CASE rec.at \in {"ask", "cancel"} /\ attempt[k].kind # "none"
    BY <1>0, <1>1, <2>2 DEF StartsAlone, K
  <2> QED BY <2>1, <2>2
<1>5. KnownToSquare'
  BY <1>0, <1>1 DEF KnownToSquare, K
<1>6. LatchHolds'
  BY <1>0, <1>1 DEF LatchHolds, K
<1>7. OneRowEach'
  BY DEF OneRowEach
<1>8. DoneInv'
  BY <1>0, <1>1 DEF DoneInv, K
<1> QED BY <1>2, <1>3, <1>4, <1>5, <1>6, <1>7, <1>8

LEMMA TerminalRequest_Inv ==
    ASSUME TerminalInv, NEW p \in Tills, TerminalRequest(p)
    PROVE  TerminalInv'
<1>a. /\ DOMAIN IdleProc = ProcFields /\ IdleProc.then = "idle" /\ IdleProc.catch = "idle"
      /\ {"at", "ref", "b", "method", "amt", "tip", "then", "catch"} \subseteq ProcFields
  BY DEF IdleProc, ProcFields
<1>1. ASSUME NEW k \in Refs, NEW b \in Bills, NEW want \in 0..MaxGoods, NEW tip \in 0..MaxTip,
             StartCheckout(p, b, k, want, tip)
      PROVE  TerminalInv'
  <2> DEFINE amount == IF want = 0 THEN bill[b].total - Paid(Of(b)) ELSE want
  <2> DEFINE rec == [IdleProc EXCEPT !.at = "inFlight", !.b = b, !.ref = k,
                                     !.method = "SQUARE_TERMINAL", !.amt = amount, !.tip = tip]
  <2>1. /\ DOMAIN rec = ProcFields /\ rec.ref = k /\ rec.then = "idle" /\ rec.catch = "idle"
        /\ rec.at = "inFlight"
    BY <1>a
  <2>2. proc' = [proc EXCEPT ![p] = rec]
    BY <1>1 DEF StartCheckout
  <2> HIDE DEF rec
  <2>3. Fresh(k) /\ UNCHANGED <<attempt, square, pays>>
    BY <1>1 DEF StartCheckout, terminalVars, billVars
  <2> QED BY <2>1, <2>2, <2>3, New_Ref
<1>2. ASSUME NEW k \in Refs, NEW b \in Bills, NEW want \in 0..MaxGoods, NEW of \in Refs,
             StartRefund(p, b, k, of, want)
      PROVE  TerminalInv'
  <2> DEFINE amount == IF want = 0 THEN Refundable(b, of) ELSE want
  <2> DEFINE rec == [IdleProc EXCEPT !.at = "inFlight", !.b = b, !.ref = k,
                                     !.method = "REFUND", !.amt = amount]
  <2>1. /\ DOMAIN rec = ProcFields /\ rec.ref = k /\ rec.then = "idle" /\ rec.catch = "idle"
        /\ rec.at = "inFlight"
    BY <1>a
  <2>2. proc' = [proc EXCEPT ![p] = rec]
    BY <1>2 DEF StartRefund
  <2> HIDE DEF rec
  <2>3. Fresh(k) /\ UNCHANGED <<attempt, square, pays>>
    BY <1>2 DEF StartRefund, billVars
  <2> QED BY <2>1, <2>2, <2>3, New_Ref
<1>3. ASSUME NEW k \in Refs
      PROVE  /\ DOMAIN PollOf(k) = ProcFields /\ PollOf(k).ref = k /\ PollOf(k).at = "ask"
             /\ PollOf(k).then = "idle" /\ PollOf(k).catch = "idle"
  BY <1>a DEF PollOf
<1>4. ASSUME NEW k \in Refs, Poll(p, k) PROVE TerminalInv'
  <2>1. /\ proc' = [proc EXCEPT ![p] = PollOf(k)] /\ attempt[k].kind # "none"
        /\ UNCHANGED <<attempt, square, pays>>
    BY <1>4 DEF Poll, Pollable, billVars
  <2> QED BY <1>3, <2>1, New_Ref
<1>5. ASSUME NEW k \in Refs, CancelCheckout(p, k) PROVE TerminalInv'
  <2> DEFINE rec == [PollOf(k) EXCEPT !.at = "cancel"]
  <2>1. /\ DOMAIN rec = ProcFields /\ rec.ref = k /\ rec.then = "idle" /\ rec.catch = "idle"
        /\ rec.at = "cancel"
    BY <1>a, <1>3
  <2>2. /\ proc' = [proc EXCEPT ![p] = rec] /\ attempt[k].kind # "none"
        /\ UNCHANGED <<attempt, square, pays>>
    BY <1>5 DEF CancelCheckout, billVars, terminalVars
  <2> HIDE DEF rec
  <2> QED BY <2>1, <2>2, New_Ref
<1> QED BY <1>1, <1>2, <1>4, <1>5 DEF TerminalRequest

\* A ref on its way to the terminal: nobody else has it and nothing is booked.
LEMMA Start_Step ==
    ASSUME TerminalInv, NEW p \in Tills, proc[p].at \in Starting, NEW where \in {"toSquare", "row"},
           Goto(p, where), UNCHANGED <<attempt, pays>>,
           DOMAIN square' = Refs,
           \A k \in Refs : DOMAIN square'[k] = DOMAIN NotOnSquare,
           \A k \in Refs : k # K(p) => square'[k] = square[k],
           K(p) \in Refs => square'[K(p)] = square[K(p)] \/ square'[K(p)].kind # "none",
           K(p) \in Refs /\ where = "row" => square'[K(p)].kind # "none"
    PROVE  TerminalInv'
<1> USE DEF TerminalInv, LatchInv
<1>0. NoRef \notin Refs /\ where \in Starting /\ where \notin Asking \cup Booking \cup Finishing
      /\ where \notin {"recRead", "recWrite", "claim"}
  BY PosBillAssumption DEF Starting, Asking, Booking, Finishing
<1>1. /\ DOMAIN proc' = Tills /\ \A q \in Tills : q # p => proc'[q] = proc[q]
      /\ DOMAIN proc'[p] = ProcFields /\ proc'[p].ref = K(p) /\ proc'[p].at = where
      /\ proc'[p].then = proc[p].then /\ proc'[p].catch = proc[p].catch
  <2>1. DOMAIN proc = Tills /\ DOMAIN proc[p] = ProcFields
        /\ {"at", "ref", "then", "catch"} \subseteq ProcFields
    BY DEF Shapes, ProcFields, IdleProc
  <2> QED BY <2>1 DEF Goto, K
<1>2. K(p) \in Refs => attempt[K(p)].kind = "none" /\ \A q \in Tills : q # p => K(q) # K(p)
  BY DEF StartsAlone
<1>3. K(p) \in Refs => \A r \in pays : r.ref # K(p)
  BY <1>2 DEF LatchHolds
<1>4. Shapes'
  BY <1>1 DEF Shapes, K
<1>5. Places'
  BY <1>0, <1>1 DEF Places, K
<1>6. StartsAlone'
  BY <1>0, <1>1, <1>2 DEF StartsAlone, K
<1>7. KnownToSquare'
  BY <1>0, <1>1, <1>2 DEF KnownToSquare, K
<1>8. LatchHolds'
  BY <1>0, <1>1 DEF LatchHolds, K
<1>9. OneRowEach'
  BY DEF OneRowEach
<1>10. DoneInv'
  <2>1. \A r \in pays' : r.ref \in Refs => square'[r.ref].status = "COMPLETED"
    BY <1>3 DEF DoneInv
  <2>2. \A q \in Tills : proc'[q].ref \in Refs /\ proc'[q].at \in Booking \cup {"claim"} =>
           square'[proc'[q].ref].status = "COMPLETED"
    BY <1>0, <1>1, <1>2 DEF DoneInv, K
  <2> QED BY <2>1, <2>2 DEF DoneInv, K
<1> QED BY <1>4, <1>5, <1>6, <1>7, <1>8, <1>9, <1>10

LEMMA LookInFlight_Inv ==
    ASSUME TerminalInv, NEW p \in Tills, LookInFlight(p)
    PROVE  TerminalInv'
<1>1. proc[p].at = "inFlight" /\ UNCHANGED <<attempt, square, pays>>
      /\ (Throw(p) \/ Goto(p, "toSquare"))
  BY DEF LookInFlight, At, billVars, terminalVars
<1>2. CASE Throw(p)
  BY <1>1, <1>2, Return_Move, Same_Rows, Same_Tables, PlainStep
<1>3. CASE Goto(p, "toSquare")
  <2>1. proc[p].at \in Starting
    BY <1>1 DEF Starting
  <2>2. /\ DOMAIN square = Refs /\ \A k \in Refs : DOMAIN square[k] = DOMAIN NotOnSquare
    BY DEF TerminalInv, LatchInv, Shapes
  <2> QED BY <1>1, <1>3, <2>1, <2>2, Start_Step
<1> QED BY <1>1, <1>2, <1>3

LEMMA ToSquare_Inv ==
    ASSUME TerminalInv, NEW p \in Tills, ToSquare(p)
    PROVE  TerminalInv'
<1>1. proc[p].at = "toSquare" /\ UNCHANGED <<attempt, pays>>
  BY DEF ToSquare, At, billVars
<1>2. CASE Throw(p) /\ UNCHANGED square
  BY <1>1, <1>2, Return_Move, Same_Rows, Same_Tables, PlainStep
<1>3. CASE Goto(p, "row") /\ ~(Throw(p) /\ UNCHANGED square)
  <2> DEFINE isCharge == KindOf(p) = "charge"
  <2> DEFINE rec == [NotOnSquare EXCEPT !.kind = KindOf(p), !.bill = B(p),
                                        !.amt = proc[p].amt + proc[p].tip,
                                        !.asks = (isCharge /\ proc[p].tip = 0),
                                        !.of = IF isCharge THEN NoRef ELSE heard[p].of]
  <2>1. DOMAIN rec = DOMAIN NotOnSquare /\ rec.kind # "none"
    BY DEF NotOnSquare, KindOf
  <2>2. square' = [square EXCEPT ![K(p)] = rec]
    BY <1>3 DEF ToSquare
  <2> HIDE DEF rec
  <2>3. /\ DOMAIN square = Refs /\ \A k \in Refs : DOMAIN square[k] = DOMAIN NotOnSquare
    BY DEF TerminalInv, LatchInv, Shapes
  <2>4. /\ DOMAIN square' = Refs /\ \A k \in Refs : DOMAIN square'[k] = DOMAIN NotOnSquare
        /\ \A k \in Refs : k # K(p) => square'[k] = square[k]
        /\ K(p) \in Refs => square'[K(p)].kind # "none"
    BY <2>1, <2>2, <2>3
  <2>5. proc[p].at \in Starting
    BY <1>1 DEF Starting
  <2> QED BY <1>1, <1>3, <2>4, <2>5, Start_Step
<1> QED BY <1>1, <1>2, <1>3 DEF ToSquare

\* The row of a new ref: its handler is done, nobody else has it.
LEMMA WriteRow_Inv ==
    ASSUME TerminalInv, NEW p \in Tills, WriteRow(p)
    PROVE  TerminalInv'
<1>0. /\ proc[p].at = "row" /\ Return(p) /\ UNCHANGED <<square, pays>>
      /\ NoRef \notin Refs /\ IdleProc.ref = NoRef /\ DOMAIN IdleProc = ProcFields
  BY PosBillAssumption DEF WriteRow, At, billVars, IdleProc, ProcFields
<1> DEFINE rec == [NoAttempt EXCEPT !.kind = KindOf(p), !.bill = B(p), !.amt = proc[p].amt,
                                    !.tip = proc[p].tip, !.of = square[K(p)].of]
<1>1. DOMAIN rec = DOMAIN NoAttempt /\ rec.kind # "none" /\ rec.latch = "open"
  BY DEF NoAttempt, KindOf
<1>2. attempt' = [attempt EXCEPT ![K(p)] = rec]
  BY DEF WriteRow
<1> HIDE DEF rec
<1>3. DOMAIN attempt = Refs /\ DOMAIN proc = Tills
  BY DEF TerminalInv, LatchInv, Shapes
<1>4. CASE K(p) \notin Refs
  <2>1. DOMAIN attempt' = Refs /\ \A k \in Refs : attempt'[k] = attempt[k]
    BY <1>2, <1>3, <1>4
  <2>2. QuietTables
    BY <1>0, <2>1 DEF TerminalInv, LatchInv, Shapes, QuietTables
  <2> QED BY <1>0, <1>4, <2>2, Return_Move, Same_Rows, PlainStep
<1>5. CASE K(p) \in Refs
  <2> USE DEF TerminalInv, LatchInv
  <2>1. proc' = [proc EXCEPT ![p] = IdleProc]
    BY <1>0, <1>5 DEF Return, GoOrIdle, Places, Starting
  <2>2. /\ attempt[K(p)].kind = "none" /\ \A q \in Tills : q # p => K(q) # K(p)
        /\ square[K(p)].kind # "none" /\ \A r \in pays : r.ref # K(p)
    BY <1>0, <1>5 DEF StartsAlone, KnownToSquare, LatchHolds, Starting
  <2>3. /\ DOMAIN proc' = Tills /\ proc'[p] = IdleProc
        /\ \A q \in Tills : q # p => proc'[q] = proc[q]
        /\ DOMAIN attempt' = Refs /\ attempt'[K(p)] = rec
        /\ \A k \in Refs : k # K(p) => attempt'[k] = attempt[k]
    BY <1>2, <1>3, <1>5, <2>1
  <2>4. Shapes'
    BY <1>0, <1>1, <2>3 DEF Shapes, K
  <2>5. Places'
    BY <1>0, <2>3 DEF Places, K
  <2>6. StartsAlone'
    BY <1>0, <2>2, <2>3 DEF StartsAlone, K
  <2>7. KnownToSquare'
    BY <1>0, <1>1, <2>2, <2>3 DEF KnownToSquare, K
  <2>8. LatchHolds'
    BY <1>0, <1>1, <2>2, <2>3 DEF LatchHolds, K
  <2>9. OneRowEach'
    BY <1>0 DEF OneRowEach
  <2>10. DoneInv'
    BY <1>0, <2>2, <2>3 DEF DoneInv, K
  <2> QED BY <2>4, <2>5, <2>6, <2>7, <2>8, <2>9, <2>10
<1> QED BY <1>4, <1>5

LEMMA AskSquare_Inv ==
    ASSUME TerminalInv, NEW p \in Tills, AskSquare(p)
    PROVE  TerminalInv'
<1>1. /\ proc[p].at = "ask" /\ UNCHANGED <<attempt, square, pays>>
      /\ \/ square[K(p)].status = "COMPLETED" /\ Goto(p, "claim")
         \/ Goto(p, "writeStatus")
         \/ Return(p)
  BY DEF AskSquare, At, billVars
<1>2. PlainMove(p)
  <2>1. CASE square[K(p)].status = "COMPLETED" /\ Goto(p, "claim")
    <3>1. /\ DOMAIN proc = Tills /\ DOMAIN proc[p] = ProcFields /\ K(p) \in Refs \cup {NoRef}
          /\ {"at", "ref", "then", "catch"} \subseteq ProcFields
      BY DEF TerminalInv, LatchInv, Shapes, ProcFields, IdleProc
    <3>2. /\ DOMAIN proc' = Tills /\ \A q \in Tills : q # p => proc'[q] = proc[q]
          /\ DOMAIN proc'[p] = ProcFields /\ proc'[p].at = "claim" /\ proc'[p].ref = K(p)
          /\ proc'[p].then = proc[p].then /\ proc'[p].catch = proc[p].catch
      BY <2>1, <3>1 DEF Goto, K
    <3> QED BY <1>1, <2>1, <3>1, <3>2 DEF PlainMove, Asking
  <2>2. CASE Goto(p, "writeStatus")
    BY <1>1, <2>2, Goto_Move DEF Asking
  <2>3. CASE Return(p)
    BY <1>1, <2>3, Return_Move
  <2> QED BY <1>1, <2>1, <2>2, <2>3
<1> QED BY <1>1, <1>2, Same_Rows, Same_Tables, PlainStep

\* Steps that change neither what a row is of nor its latch.
LEMMA WriteStatus_Inv ==
    ASSUME TerminalInv, NEW p \in Tills, WriteStatus(p)
    PROVE  TerminalInv'
<1>1. proc[p].at = "writeStatus" /\ Return(p) /\ UNCHANGED <<square, pays>>
  BY DEF WriteStatus, At, billVars
<1>2. QuietTables
  BY <1>1 DEF WriteStatus, QuietTables, TerminalInv, LatchInv, Shapes, NoAttempt
<1> QED BY <1>1, <1>2, Return_Move, Same_Rows, PlainStep

LEMMA Booked_Inv ==
    ASSUME TerminalInv, NEW p \in Tills, Booked(p) \/ NotBooked(p)
    PROVE  TerminalInv'
<1>1. /\ proc[p].at \in Finishing /\ proc' = [proc EXCEPT ![p] = IdleProc]
      /\ UNCHANGED <<square, pays>>
  BY DEF Booked, NotBooked, At, billVars, Finishing
<1>2. PlainMove(p)
  BY <1>1, Idle_Move DEF TerminalInv, LatchInv
<1>3. QuietTables
  <2>1. CASE NotBooked(p)
    BY <1>1, <2>1 DEF NotBooked, QuietTables, TerminalInv, LatchInv, Shapes, NoAttempt
  <2>2. CASE Booked(p)
    <3>1. K(p) \in Refs => attempt[K(p)].latch # "open"
      BY <1>1 DEF TerminalInv, LatchInv, LatchHolds
    <3> QED BY <1>1, <2>2, <3>1 DEF Booked, QuietTables, TerminalInv, LatchInv, Shapes, NoAttempt
  <2> QED BY <2>1, <2>2
<1> QED BY <1>1, <1>2, <1>3, Same_Rows, PlainStep

LEMMA CancelOnSquare_Inv ==
    ASSUME TerminalInv, NEW p \in Tills, CancelOnSquare(p)
    PROVE  TerminalInv'
<1>1. /\ proc[p].at = "cancel" /\ UNCHANGED <<attempt, pays>>
      /\ Goto(p, "writeStatus") \/ Goto(p, "ask") \/ Throw(p)
  BY DEF CancelOnSquare, At, billVars
<1>2. PlainMove(p)
  <2>1. CASE Goto(p, "writeStatus")
    BY <1>1, <2>1, Goto_Move DEF Asking
  <2>2. CASE Goto(p, "ask")
    BY <1>1, <2>2, Goto_Move DEF Asking
  <2>3. CASE Throw(p)
    BY <1>1, <2>3, Return_Move
  <2> QED BY <1>1, <2>1, <2>2, <2>3
<1>3. QuietTables
  BY <1>1 DEF CancelOnSquare, QuietTables, TerminalInv, LatchInv, Shapes, NotOnSquare
<1> QED BY <1>1, <1>2, <1>3, Same_Rows, PlainStep

\* The conditional update is the lock: whoever finds the latch open is the only
\* one to book, and nothing has been booked.
LEMMA Claim_Inv ==
    ASSUME TerminalInv, NEW p \in Tills, Claim(p)
    PROVE  TerminalInv'
<1>0. proc[p].at = "claim" /\ UNCHANGED <<square, pays>> /\ NoRef \notin Refs
  BY PosBillAssumption DEF Claim, At, billVars
<1>1. CASE attempt[K(p)].latch # "open"
  <2>1. Return(p) /\ UNCHANGED attempt
    BY <1>1 DEF Claim
  <2> QED BY <1>0, <2>1, Return_Move, Same_Rows, Same_Tables, PlainStep
<1>2. CASE attempt[K(p)].latch = "open"
  <2> USE DEF TerminalInv, LatchInv
  <2> DEFINE rec == [[attempt[K(p)] EXCEPT !.status = "COMPLETED"] EXCEPT !.latch = "claimed"]
  <2>1. /\ Goto(p, "book")
        /\ attempt' = [[attempt EXCEPT ![K(p)].status = "COMPLETED"] EXCEPT ![K(p)].latch = "claimed"]
    BY <1>2 DEF Claim
  <2>2. /\ DOMAIN attempt' = Refs
        /\ \A k \in Refs : DOMAIN attempt'[k] = DOMAIN NoAttempt /\ attempt'[k].kind = attempt[k].kind
        /\ \A k \in Refs : k # K(p) => attempt'[k] = attempt[k]
        /\ K(p) \in Refs => attempt'[K(p)].latch # "open"
    BY <2>1 DEF Shapes, NoAttempt
  <2>3. /\ DOMAIN proc' = Tills /\ \A q \in Tills : q # p => proc'[q] = proc[q]
        /\ DOMAIN proc'[p] = ProcFields /\ proc'[p].at = "book" /\ proc'[p].ref = K(p)
    <3>1. DOMAIN proc = Tills /\ DOMAIN proc[p] = ProcFields /\ {"at", "ref"} \subseteq ProcFields
      BY DEF Shapes, ProcFields, IdleProc
    <3> QED BY <2>1, <3>1 DEF Goto, K
  <2>a. /\ "book" \in Booking /\ "claim" \in Asking
        /\ "book" \notin Starting \cup Asking \cup Finishing \cup {"recRead", "recWrite", "row"}
        /\ "claim" \notin Starting
    BY DEF Starting, Asking, Booking, Finishing
  <2>4. K(p) \in Refs =>
           /\ attempt[K(p)].kind # "none" /\ square[K(p)].status = "COMPLETED"
           /\ \A r \in pays : r.ref # K(p)
           /\ \A q \in Tills : K(q) = K(p) => proc[q].at \notin Booking
    BY <1>0, <1>2, <2>a DEF StartsAlone, LatchHolds, DoneInv
  <2>5. Shapes'
    BY <1>0, <2>2, <2>3 DEF Shapes, K
  <2>6. Places'
    BY <2>3, <2>a DEF Places, K
  <2>7. StartsAlone'
    <3>1. ASSUME NEW q \in Tills, q # p, K(q) \in Refs, proc[q].at \in Starting
          PROVE  K(q) # K(p)
      BY <3>1, <2>4 DEF StartsAlone
    <3> QED BY <2>2, <2>3, <2>4, <2>a, <3>1 DEF StartsAlone, K
  <2>8. KnownToSquare'
    BY <1>0, <2>2, <2>3, <2>a DEF KnownToSquare, K
  <2>9. LatchHolds'
    <3>1. \A k \in Refs : attempt'[k].kind = "none" => attempt'[k].latch = "open"
      BY <2>2, <2>4 DEF LatchHolds
    <3>2. \A r \in pays' : r.ref \in Refs => attempt'[r.ref].latch # "open"
      BY <1>0, <2>2 DEF LatchHolds
    <3>3. \A q \in Tills : proc'[q].ref \in Refs /\ proc'[q].at \in Booking \cup Finishing =>
             attempt'[proc'[q].ref].latch # "open"
      BY <2>2, <2>3 DEF LatchHolds, K
    <3>4. ASSUME NEW q \in Tills, proc'[q].ref \in Refs, proc'[q].at \in Booking
          PROVE  /\ \A r \in pays' : r.ref # proc'[q].ref
                 /\ \A o \in Tills : o # q /\ proc'[o].ref = proc'[q].ref => proc'[o].at \notin Booking
      <4>1. CASE q = p
        BY <1>0, <2>3, <2>4, <3>4, <4>1 DEF K
      <4>2. CASE q # p
        <5>1. K(q) # K(p)
          BY <2>3, <2>4, <3>4, <4>2 DEF K
        <5> QED BY <1>0, <2>3, <3>4, <4>2, <5>1 DEF LatchHolds, K
      <4> QED BY <4>1, <4>2
    <3> QED BY <3>1, <3>2, <3>3, <3>4 DEF LatchHolds, K
  <2>10. OneRowEach'
    BY <1>0 DEF OneRowEach
  <2>11. DoneInv'
    BY <1>0, <2>3, <2>4 DEF DoneInv, K
  <2> QED BY <2>5, <2>6, <2>7, <2>8, <2>9, <2>10, <2>11
<1> QED BY <1>1, <1>2

\* Handing a claimed row to payOrder or applyRefund.
LEMMA Book_Inv ==
    ASSUME TerminalInv, NEW p \in Tills, Book(p)
    PROVE  TerminalInv'
<1> USE DEF TerminalInv, LatchInv
<1>0. proc[p].at = "book" /\ UNCHANGED <<attempt, square, pays>> /\ NoRef \notin Refs
  BY PosBillAssumption DEF Book, At, billVars, terminalVars
<1> DEFINE q == [IdleProc EXCEPT !.b = attempt[K(p)].bill, !.ref = K(p), !.method = proc[p].method,
                                 !.want = attempt[K(p)].amt, !.then = "booked", !.catch = "notBooked"]
<1>a. /\ DOMAIN IdleProc = ProcFields
      /\ {"at", "b", "ref", "method", "want", "then", "catch", "tip", "back"} \subseteq ProcFields
  BY DEF IdleProc, ProcFields
<1>1. DOMAIN q = ProcFields /\ q.ref = K(p) /\ q.then = "booked" /\ q.catch = "notBooked"
  BY <1>a
<1>2. PICK tip \in TipsOf(K(p)) :
         proc' = [proc EXCEPT ![p] =
            IF attempt[K(p)].kind = "refund" THEN TakeRefund(q) ELSE TakePayment([q EXCEPT !.tip = tip])]
  BY DEF Book
<1> HIDE DEF q
<1> DEFINE t == [q EXCEPT !.tip = tip]
<1>3. DOMAIN t = ProcFields /\ t.ref = K(p) /\ t.then = "booked" /\ t.catch = "notBooked"
  BY <1>1, <1>a
<1> HIDE DEF t
<1>4. PICK rec : proc' = [proc EXCEPT ![p] = rec] /\ (TakenUp(q, rec) \/ TakenUp(t, rec))
  <2>1. TakenUp(q, TakeRefund(q)) /\ TakenUp(t, TakePayment(t))
    BY <1>1, <1>3, TakeRefund_Record, TakePayment_Record
  <2> QED BY <1>2, <2>1 DEF t
<1>5. /\ DOMAIN rec = ProcFields /\ rec.ref = K(p) /\ rec.then = "booked" /\ rec.catch = "notBooked"
      /\ rec.at \in {"notBooked", "recRead", "debit", "record", "refund"}
      /\ rec.at = "recRead" => rec.back = "payReread"
  BY <1>1, <1>3, <1>4 DEF TakenUp
<1>6. /\ DOMAIN proc' = Tills /\ \A o \in Tills : o # p => proc'[o] = proc[o]
      /\ proc'[p] = rec
  BY <1>4 DEF Shapes
<1>7. /\ rec.at \in (Booking \ {"book"}) \cup Finishing /\ "book" \in Booking
      /\ rec.at \notin Starting \cup Asking \cup {"recWrite", "row", "claim"}
      /\ "book" \notin Starting
  BY <1>5 DEF Starting, Asking, Booking, Finishing
<1>8. Shapes'
  BY <1>0, <1>5, <1>6 DEF Shapes, K
<1>9. Places'
  BY <1>5, <1>6, <1>7 DEF Places, K
<1>10. StartsAlone'
  BY <1>0, <1>5, <1>6, <1>7 DEF StartsAlone, K
<1>11. KnownToSquare'
  BY <1>0, <1>5, <1>6, <1>7 DEF KnownToSquare, K
<1>12. LatchHolds'
  <2>1. \A o \in Tills : proc'[o].ref \in Refs /\ proc'[o].at \in Booking \cup Finishing =>
           K(o) = proc'[o].ref /\ proc[o].at \in Booking \cup Finishing
    BY <1>0, <1>5, <1>6, <1>7 DEF K
  <2>2. \A o \in Tills : proc'[o].ref = K(o) /\ (proc'[o].at \in Booking => proc[o].at \in Booking)
    BY <1>0, <1>5, <1>6, <1>7 DEF K
  <2> QED BY <1>0, <2>1, <2>2 DEF LatchHolds, K
<1>13. OneRowEach'
  BY <1>0 DEF OneRowEach
<1>14. DoneInv'
  BY <1>0, <1>5, <1>6, <1>7 DEF DoneInv, K
<1> QED BY <1>8, <1>9, <1>10, <1>11, <1>12, <1>13, <1>14

LEMMA TerminalStep_Inv ==
    ASSUME TerminalInv, NEW p \in Tills, TerminalStep(p)
    PROVE  TerminalInv'
BY LookInFlight_Inv, ToSquare_Inv, WriteRow_Inv, AskSquare_Inv, WriteStatus_Inv, Claim_Inv, Book_Inv,
   Booked_Inv, CancelOnSquare_Inv DEF TerminalStep

LEMMA Crash_Inv ==
    ASSUME TerminalInv, NEW p \in Tills, CrashTerminal(p)
    PROVE  TerminalInv'
<1>1. proc' = [proc EXCEPT ![p] = IdleProc] /\ UNCHANGED <<attempt, square, pays>>
  BY DEF CrashTerminal, Crash, billVars, terminalVars
<1>2. PlainMove(p)
  BY <1>1, Idle_Move DEF TerminalInv, LatchInv
<1> QED BY <1>1, <1>2, Same_Rows, Same_Tables, PlainStep

-----------------------------------------------------------------------------
(* What follows for the terminals *)

LEMMA Inv_Init ==
    ASSUME TerminalInit
    PROVE  TerminalInv
<1>1. /\ proc = [p \in Tills |-> IdleProc] /\ pays = {}
      /\ attempt = [k \in Refs |-> NoAttempt] /\ square = [k \in Refs |-> NotOnSquare]
  BY DEF TerminalInit, Init
<1>2. IdleProc.ref = NoRef /\ NoRef \notin Refs /\ DOMAIN IdleProc = ProcFields
  BY PosBillAssumption DEF IdleProc, ProcFields
<1>3. \A p \in Tills : K(p) = NoRef
  BY <1>1, <1>2 DEF K
<1>4. NoAttempt.kind = "none" /\ NoAttempt.latch = "open" /\ NotOnSquare.kind = "none"
  BY DEF NoAttempt, NotOnSquare
<1> QED BY <1>1, <1>2, <1>3, <1>4
        DEF TerminalInv, LatchInv, DoneInv, Shapes, Places, StartsAlone, KnownToSquare, LatchHolds, OneRowEach

\* Whatever polls, cancellations, edits and crashes there are: the latch is shut
\* before anything is booked, by one handler at a time, and only when Square has
\* said that the card is done with.
THEOREM LatchKept == CrashingTerminalSpec => []TerminalInv
<1>1. TerminalInit => TerminalInv
  BY Inv_Init
<1>2. TerminalInv /\ [TerminalNext \/ \E p \in Tills : CrashTerminal(p)]_allVars => TerminalInv'
  <2> SUFFICES ASSUME TerminalInv, [TerminalNext \/ \E p \in Tills : CrashTerminal(p)]_allVars
               PROVE  TerminalInv'
    OBVIOUS
  <2>1. CASE TillStep
    BY <2>1, Step_Inv DEF TillStep
  <2>2. ASSUME NEW p \in Tills, TerminalRequest(p) PROVE TerminalInv'
    BY <2>2, TerminalRequest_Inv
  <2>3. ASSUME NEW p \in Tills, TerminalStep(p) PROVE TerminalInv'
    BY <2>3, TerminalStep_Inv
  <2>4. CASE Outside
    BY <2>4, Outside_Inv
  <2>5. ASSUME NEW p \in Tills, CrashTerminal(p) PROVE TerminalInv'
    BY <2>5, Crash_Inv
  <2>6. CASE UNCHANGED allVars
    BY <2>6 DEF allVars, vars, terminalVars, TerminalInv, LatchInv, DoneInv, Shapes, Places, StartsAlone,
                KnownToSquare, LatchHolds, OneRowEach, K
  <2> QED BY <2>1, <2>2, <2>3, <2>4, <2>5, <2>6 DEF TerminalNext
<1> QED BY <1>1, <1>2, PTL DEF CrashingTerminalSpec

\* pollCheckout's "two polls racing each other can only produce one payment": a
\* charge or a refund of a terminal is on the books at most once.
THEOREM BooksOnce == CrashingTerminalSpec => []BookedOnce
<1>1. TerminalInv => BookedOnce
  <2> SUFFICES ASSUME TerminalInv, NEW k \in Refs PROVE Cardinality(RowsFor(k)) <= 1
    BY DEF BookedOnce
  <2>1. CASE RowsFor(k) = {}
    BY <2>1, FS_EmptySet
  <2>2. CASE RowsFor(k) # {}
    <3>1. PICK r : r \in RowsFor(k)
      BY <2>2
    <3>2. RowsFor(k) = {r}
      BY <3>1 DEF RowsFor, TerminalInv, LatchInv, OneRowEach
    <3> QED BY <3>2, FS_Singleton
  <2> QED BY <2>1, <2>2
<1> QED BY <1>1, LatchKept, PTL

\* "The books move only once Square says": what a terminal led to is on the books
\* only when Square has completed it.
THEOREM BooksWhatIsDone == CrashingTerminalSpec => []BookedMeansDone
<1>1. TerminalInv => BookedMeansDone
  BY DEF BookedMeansDone, RowsFor, TerminalInv, DoneInv
<1> QED BY <1>1, LatchKept, PTL

-----------------------------------------------------------------------------
(* Types of the terminal's rows *)

\* A handler that is on the terminal's business knows whose.
Knows(q) ==
    /\ q.at \in Starting \cup Asking \cup {"book", "booked", "notBooked"}
          \/ q.then = "booked" \/ q.catch = "notBooked" => q.ref \in Refs
    /\ q.at \in Starting \cup Asking \cup {"book"} => q.method \in {"SQUARE_TERMINAL", "REFUND"}
    /\ q.at \in Starting => q.amt >= 1

TerminalTypes ==
    /\ BillTypes
    /\ attempt \in [Refs -> AttemptRecord]
    /\ square \in [Refs -> SquareRecord]
    /\ heard \in [Tills -> [status : Statuses, of : Refs \cup {NoRef}]]
    /\ \A k \in Refs : attempt[k].kind # "none" => attempt[k].amt >= 1 /\ attempt[k].bill \in Bills
    /\ \A p \in Tills : Knows(proc[p])

LEMMA Terminal_Places ==
    /\ Starting \cup Asking \cup {"book", "booked", "notBooked", "idle"} \subseteq Stops
    /\ (Starting \cup Asking \cup {"book", "booked", "notBooked"}) \cap (BillPlaces \cup {"idle"}) = {}
BY Places_Known DEF Starting, Asking, BillPlaces

LEMMA Idle_Knows == Knows(IdleProc)
BY DEF Knows, IdleProc, Starting, Asking

LEMMA Attempt_Typed ==
    /\ NoAttempt \in AttemptRecord
    /\ NotOnSquare \in SquareRecord
    /\ "PENDING" \in Statuses
BY DEF NoAttempt, AttemptRecord, NotOnSquare, SquareRecord, Statuses, Kinds

\* One handler moves and the terminal's rows stay.
LEMMA Knows_Move ==
    ASSUME TerminalTypes, NEW p \in Tills, \A q \in Tills : q # p => proc'[q] = proc[q],
           Knows(proc'[p]), BillTypes',
           attempt' \in [Refs -> AttemptRecord], square' \in [Refs -> SquareRecord],
           heard' \in [Tills -> [status : Statuses, of : Refs \cup {NoRef}]],
           \A k \in Refs : attempt'[k].kind # "none" => attempt'[k].amt >= 1 /\ attempt'[k].bill \in Bills
    PROVE  TerminalTypes'
BY DEF TerminalTypes

LEMMA Own_Knows ==
    ASSUME TerminalTypes, NEW p \in Tills, Own(p)
    PROVE  Knows(proc'[p])
<1>1. Knows(proc[p]) /\ proc[p] \in ProcRecord
  BY DEF TerminalTypes, BillTypes, TypeOK
<1>2. CASE Plain(proc'[p])
  BY <1>2, Terminal_Places DEF Plain, Knows
<1>3. CASE Follows(proc[p], proc'[p])
  <2>1. proc[p].then \in {"idle", "booked", "paid"} /\ proc[p].catch \in {"idle", "notBooked"}
    BY <1>1, ProcFields_Typed
  <2> QED BY <1>1, <1>3, <2>1, Terminal_Places DEF Follows, Knows, Starting, Asking
<1>4. CASE proc'[p] = proc[p]
  BY <1>1, <1>4
<1> QED BY <1>2, <1>3, <1>4 DEF Own

LEMMA Till_Types ==
    ASSUME TerminalTypes, NEW p \in Tills, StepOf(p) \/ Crash(p), UNCHANGED terminalVars
    PROVE  TerminalTypes'
<1>0. BillTypes
  BY DEF TerminalTypes
<1>1. BillTypes'
  BY <1>0, Step_Types, Crash_Types
<1>2. Knows(proc'[p]) /\ \A q \in Tills : q # p => proc'[q] = proc[q]
  <2>1. CASE StepOf(p)
    BY <1>0, <2>1, Step_Own, Own_Knows DEF Own
  <2>2. CASE Crash(p)
    <3>1. proc' = [proc EXCEPT ![p] = IdleProc]
      BY <2>2 DEF Crash
    <3> QED BY <1>0, <3>1, Set_Lands, Idle_Knows DEF Lands
  <2> QED BY <2>1, <2>2
<1>3. UNCHANGED <<attempt, square, heard>>
  BY DEF terminalVars
<1>4. /\ attempt' \in [Refs -> AttemptRecord] /\ square' \in [Refs -> SquareRecord]
      /\ heard' \in [Tills -> [status : Statuses, of : Refs \cup {NoRef}]]
      /\ \A k \in Refs : attempt'[k].kind # "none" => attempt'[k].amt >= 1 /\ attempt'[k].bill \in Bills
  BY <1>3 DEF TerminalTypes
<1> QED BY <1>1, <1>2, <1>4, Knows_Move

\* A handler gets a new record; the bills stay.
LEMMA Knows_Set ==
    ASSUME TerminalTypes, NEW p \in Tills, NEW rec \in ProcRecord, proc' = [proc EXCEPT ![p] = rec],
           Fit(rec), rec.doing = {} \/ rec.doing = proc[p].doing, Knows(rec), UNCHANGED billVars,
           attempt' \in [Refs -> AttemptRecord], square' \in [Refs -> SquareRecord],
           heard' \in [Tills -> [status : Statuses, of : Refs \cup {NoRef}]],
           \A k \in Refs : attempt'[k].kind # "none" => attempt'[k].amt >= 1 /\ attempt'[k].bill \in Bills
    PROVE  TerminalTypes'
<1>0. BillTypes
  BY DEF TerminalTypes
<1>1. Moved(p)
  BY <1>0, Set_Moved
<1>2. BillTypes'
  BY <1>0, <1>1, Typed_Move
<1>3. Knows(proc'[p]) /\ \A q \in Tills : q # p => proc'[q] = proc[q]
  BY <1>0, Set_Lands DEF Lands
<1> QED BY <1>2, <1>3, Knows_Move

\* The terminal's tables as they are.
LEMMA Rows_Stay ==
    ASSUME TerminalTypes
    PROVE  /\ UNCHANGED attempt => /\ attempt' \in [Refs -> AttemptRecord]
                                   /\ \A k \in Refs : attempt'[k].kind # "none" =>
                                         attempt'[k].amt >= 1 /\ attempt'[k].bill \in Bills
           /\ UNCHANGED square => square' \in [Refs -> SquareRecord]
           /\ UNCHANGED heard => heard' \in [Tills -> [status : Statuses, of : Refs \cup {NoRef}]]
BY DEF TerminalTypes

LEMMA Goto_Types ==
    ASSUME TerminalTypes, NEW p \in Tills, NEW w \in Stops, Goto(p, w), UNCHANGED billVars,
           proc[p].at \in Starting \cup Asking \cup {"book"},
           w \in Starting => proc[p].at \in Starting,
           w \in Starting \cup Asking \cup {"book"},
           attempt' \in [Refs -> AttemptRecord], square' \in [Refs -> SquareRecord],
           heard' \in [Tills -> [status : Statuses, of : Refs \cup {NoRef}]],
           \A k \in Refs : attempt'[k].kind # "none" => attempt'[k].amt >= 1 /\ attempt'[k].bill \in Bills
    PROVE  TerminalTypes'
<1> DEFINE rec == [proc[p] EXCEPT !.at = w]
<1>1. proc[p] \in ProcRecord /\ Fit(proc[p]) /\ Knows(proc[p])
  BY DEF TerminalTypes, BillTypes, TypeOK
<1>2. rec \in ProcRecord /\ rec.doing = proc[p].doing
  BY <1>1 DEF ProcRecord
<1>3. Fit(rec)
  BY <1>1 DEF ProcRecord, Fit, Starting, Asking
<1>4. Knows(rec)
  BY <1>1 DEF ProcRecord, Knows, Starting, Asking
<1>5. proc' = [proc EXCEPT ![p] = rec]
  BY DEF Goto, TerminalTypes, BillTypes, TypeOK
<1> HIDE DEF rec
<1> QED BY <1>2, <1>3, <1>4, <1>5, Knows_Set

LEMMA Return_Types ==
    ASSUME TerminalTypes, NEW p \in Tills, Return(p) \/ Throw(p), UNCHANGED billVars,
           proc[p].at \in Starting \cup Asking \cup {"book"},
           attempt' \in [Refs -> AttemptRecord], square' \in [Refs -> SquareRecord],
           heard' \in [Tills -> [status : Statuses, of : Refs \cup {NoRef}]],
           \A k \in Refs : attempt'[k].kind # "none" => attempt'[k].amt >= 1 /\ attempt'[k].bill \in Bills
    PROVE  TerminalTypes'
<1>0. BillTypes /\ proc[p] \in ProcRecord /\ Knows(proc[p])
  BY DEF TerminalTypes, BillTypes, TypeOK
<1>1. BillTypes'
  BY <1>0, Return_Moved, Typed_Move DEF Starting, Asking
<1>2. proc[p].then \in {"idle", "booked", "paid"} /\ proc[p].catch \in {"idle", "notBooked"}
  BY <1>0, ProcFields_Typed
<1>3. PICK w \in {proc[p].then, proc[p].catch} :
         proc' = [proc EXCEPT ![p] = IF w = "idle" THEN IdleProc ELSE [proc[p] EXCEPT !.at = w]]
  BY DEF Return, Throw, GoOrIdle
<1>4. Knows(proc'[p]) /\ \A q \in Tills : q # p => proc'[q] = proc[q]
  <2>1. CASE w = "idle"
    BY <1>0, <1>3, <2>1, Set_Lands, Idle_Knows DEF Lands
  <2>2. CASE w # "idle"
    <3> DEFINE rec == [proc[p] EXCEPT !.at = w]
    <3>1. Knows(rec)
      BY <1>0, <1>2, <2>2 DEF ProcRecord, Knows, Starting, Asking
    <3>2. proc' = [proc EXCEPT ![p] = rec]
      BY <1>3, <2>2
    <3> HIDE DEF rec
    <3> QED BY <1>0, <3>1, <3>2, Set_Lands DEF Lands
  <2> QED BY <2>1, <2>2
<1> QED BY <1>1, <1>4, Knows_Move

-----------------------------------------------------------------------------
(* Requests and steps of the terminal *)

LEMMA Poll_Record ==
    ASSUME TerminalTypes, NEW k \in Refs, attempt[k].kind # "none"
    PROVE  /\ PollOf(k) \in ProcRecord /\ Fit(PollOf(k)) /\ PollOf(k).doing = {} /\ Knows(PollOf(k))
           /\ [PollOf(k) EXCEPT !.at = "cancel"] \in ProcRecord
           /\ Fit([PollOf(k) EXCEPT !.at = "cancel"]) /\ [PollOf(k) EXCEPT !.at = "cancel"].doing = {}
           /\ Knows([PollOf(k) EXCEPT !.at = "cancel"])
           /\ attempt[k].status \in Statuses
<1> DEFINE b == attempt[k].bill
           m == IF attempt[k].kind = "refund" THEN "REFUND" ELSE "SQUARE_TERMINAL"
           rec == [IdleProc EXCEPT !.at = "ask", !.b = b, !.ref = k, !.method = m]
<1>1. b \in Bills /\ attempt[k].status \in Statuses
  BY DEF TerminalTypes, AttemptRecord
<1>2. m \in Methods /\ m \in {"SQUARE_TERMINAL", "REFUND"}
  BY DEF Methods
<1>3. PollOf(k) = rec
  BY DEF PollOf
<1> HIDE DEF b, m
<1>4. /\ rec \in ProcRecord /\ rec.doing = {} /\ rec.at = "ask" /\ rec.b = b /\ rec.ref = k
      /\ rec.method = m /\ rec.then = "idle" /\ rec.catch = "idle" /\ rec.back = "idle"
  BY <1>1, <1>2, Idle_Typed, Places_Known DEF ProcRecord, IdleProc
<1> HIDE DEF rec
<1> DEFINE c == [rec EXCEPT !.at = "cancel"]
<1>5. /\ c \in ProcRecord /\ c.doing = {} /\ c.at = "cancel" /\ c.b = b /\ c.ref = k
      /\ c.method = m /\ c.then = "idle" /\ c.catch = "idle" /\ c.back = "idle"
  BY <1>4, Places_Known DEF ProcRecord
<1> HIDE DEF c
<1>6. Fit(rec) /\ Fit(c) /\ Knows(rec) /\ Knows(c)
  BY <1>1, <1>2, <1>4, <1>5 DEF Fit, Knows, Starting, Asking
<1>7. [PollOf(k) EXCEPT !.at = "cancel"] = c
  BY <1>3 DEF c
<1> QED BY <1>1, <1>3, <1>4, <1>5, <1>6, <1>7

LEMMA Request_Types ==
    ASSUME TerminalTypes, NEW p \in Tills, TerminalRequest(p)
    PROVE  TerminalTypes'
<1>0. /\ BillTypes /\ attempt \in [Refs -> AttemptRecord]
      /\ heard \in [Tills -> [status : Statuses, of : Refs \cup {NoRef}]]
  BY DEF TerminalTypes
<1>1. ASSUME NEW k \in Refs, NEW b \in Bills, NEW want \in 0..MaxGoods, NEW tip \in 0..MaxTip,
             StartCheckout(p, b, k, want, tip)
      PROVE  TerminalTypes'
  <2> DEFINE balance == bill[b].total - Paid(Of(b))
             n == IF want = 0 THEN balance ELSE want
             rec == [IdleProc EXCEPT !.at = "inFlight", !.b = b, !.ref = k,
                                     !.method = "SQUARE_TERMINAL", !.amt = n, !.tip = tip]
  <2>1. bill[b].total \in Int /\ want \in Int /\ tip \in Nat
    BY <1>0 DEF BillTypes, TypeOK, BillRecord
  <2>2. n \in Int
    BY <1>0, <2>1, Bill_Sums
  <2>3. n >= 1 /\ proc' = [proc EXCEPT ![p] = rec] /\ UNCHANGED <<billVars, attempt, square, heard>>
    BY <1>1 DEF StartCheckout, terminalVars
  <2>4. "SQUARE_TERMINAL" \in Methods
    BY DEF Methods
  <2> HIDE DEF n
  <2>5. /\ rec \in ProcRecord /\ rec.doing = {} /\ rec.at = "inFlight" /\ rec.b = b /\ rec.ref = k
        /\ rec.method = "SQUARE_TERMINAL" /\ rec.amt = n /\ rec.back = "idle"
    BY <2>1, <2>2, <2>4, Idle_Typed, Places_Known DEF ProcRecord, IdleProc
  <2> HIDE DEF rec
  <2>6. Fit(rec) /\ Knows(rec)
    BY <2>3, <2>5 DEF Fit, Knows, Starting, Asking
  <2> QED BY <2>3, <2>5, <2>6, Knows_Set, Rows_Stay
<1>2. ASSUME NEW k \in Refs, NEW b \in Bills, NEW want \in 0..MaxGoods, NEW of \in Refs,
             StartRefund(p, b, k, of, want)
      PROVE  TerminalTypes'
  <2> DEFINE n == IF want = 0 THEN Refundable(b, of) ELSE want
             rec == [IdleProc EXCEPT !.at = "inFlight", !.b = b, !.ref = k,
                                     !.method = "REFUND", !.amt = n]
  <2>1. Refundable(b, of) \in Int
    <3> DEFINE f == [r \in Of(b) |-> r.amt + r.tip]
               P == {r \in Of(b) : r.method = "SQUARE_TERMINAL" /\ r.amt > 0 /\ r.ref = of}
               g == [j \in Refs |-> attempt[j].amt]
               R == {j \in Rows("refund", b, Statuses) : attempt[j].of = of /\ attempt[j].latch # "open"}
    <3>1. \A r \in P : f[r] \in Int
      BY <1>0 DEF Of, BillTypes, TypeOK, PaymentRecord
    <3>2. IsFiniteSet(P)
      BY <1>0, Rows_Sum DEF Of
    <3>3. \A j \in R : g[j] \in Int
      BY <1>0 DEF Rows, AttemptRecord
    <3>4. IsFiniteSet(R)
      BY PosBillAssumption, FS_Subset DEF Rows
    <3>5. Refundable(b, of) = SumFunctionOnSet(f, P) - SumFunctionOnSet(g, R)
      BY DEF Refundable
    <3> HIDE DEF f, g, P, R
    <3> QED BY <3>1, <3>2, <3>3, <3>4, <3>5, SumType
  <2>2. n \in Int
    BY <2>1
  <2>3. n >= 1 /\ proc' = [proc EXCEPT ![p] = rec] /\ UNCHANGED <<billVars, attempt, square>>
        /\ heard' = [heard EXCEPT ![p].of = of]
    BY <1>2 DEF StartRefund
  <2>4. "REFUND" \in Methods
    BY DEF Methods
  <2> HIDE DEF n
  <2>5. /\ rec \in ProcRecord /\ rec.doing = {} /\ rec.at = "inFlight" /\ rec.b = b /\ rec.ref = k
        /\ rec.method = "REFUND" /\ rec.amt = n /\ rec.back = "idle"
    BY <2>2, <2>4, Idle_Typed, Places_Known DEF ProcRecord, IdleProc
  <2> HIDE DEF rec
  <2>6. Fit(rec) /\ Knows(rec)
    BY <2>3, <2>5 DEF Fit, Knows, Starting, Asking
  <2>7. heard' \in [Tills -> [status : Statuses, of : Refs \cup {NoRef}]]
    BY <1>0, <2>3
  <2> QED BY <2>3, <2>5, <2>6, <2>7, Knows_Set, Rows_Stay
<1>3. ASSUME NEW k \in Refs, Poll(p, k) PROVE TerminalTypes'
  <2>1. attempt[k].kind # "none" /\ proc' = [proc EXCEPT ![p] = PollOf(k)]
        /\ UNCHANGED <<billVars, attempt, square>> /\ heard' = [heard EXCEPT ![p].status = attempt[k].status]
    BY <1>3 DEF Poll, Pollable, Hears
  <2>2. heard' \in [Tills -> [status : Statuses, of : Refs \cup {NoRef}]]
    BY <1>0, <2>1, Poll_Record
  <2> QED BY <2>1, <2>2, Poll_Record, Knows_Set, Rows_Stay
<1>4. ASSUME NEW k \in Refs, CancelCheckout(p, k) PROVE TerminalTypes'
  <2>1. attempt[k].kind # "none" /\ proc' = [proc EXCEPT ![p] = [PollOf(k) EXCEPT !.at = "cancel"]]
        /\ UNCHANGED <<billVars, attempt, square, heard>>
    BY <1>4 DEF CancelCheckout, terminalVars
  <2> QED BY <2>1, Poll_Record, Knows_Set, Rows_Stay
<1> QED BY <1>1, <1>2, <1>3, <1>4 DEF TerminalRequest

\* A row is written over.
LEMMA Attempt_Set ==
    ASSUME TerminalTypes, NEW k \in Refs, NEW rec \in AttemptRecord,
           rec.kind # "none" => rec.amt >= 1 /\ rec.bill \in Bills,
           attempt' = [attempt EXCEPT ![k] = rec]
    PROVE  /\ attempt' \in [Refs -> AttemptRecord]
           /\ \A j \in Refs : attempt'[j].kind # "none" => attempt'[j].amt >= 1 /\ attempt'[j].bill \in Bills
BY DEF TerminalTypes

SameAttempt(a, c) == c \in AttemptRecord /\ c.kind = a.kind /\ c.amt = a.amt /\ c.bill = a.bill

LEMMA Attempt_Fields ==
    ASSUME NEW a \in AttemptRecord
    PROVE  /\ \A s \in Statuses : SameAttempt(a, [a EXCEPT !.status = s])
           /\ \A n \in Nat : SameAttempt(a, [[a EXCEPT !.latch = "paid"] EXCEPT !.tip = n])
           /\ SameAttempt(a, [a EXCEPT !.failed = TRUE])
<1>1. \A s \in Statuses : SameAttempt(a, [a EXCEPT !.status = s])
  BY DEF AttemptRecord, SameAttempt
<1>2. \A n \in Nat : SameAttempt(a, [[a EXCEPT !.latch = "paid"] EXCEPT !.tip = n])
  <2> TAKE n \in Nat
  <2> DEFINE c == [a EXCEPT !.latch = "paid"]
  <2>1. SameAttempt(a, c)
    BY DEF AttemptRecord, SameAttempt
  <2> HIDE DEF c
  <2> QED BY <2>1 DEF AttemptRecord, SameAttempt
<1>3. SameAttempt(a, [a EXCEPT !.failed = TRUE])
  BY DEF AttemptRecord, SameAttempt
<1> QED BY <1>1, <1>2, <1>3

LEMMA TerminalStep_Types ==
    ASSUME TerminalTypes, TerminalInv, NEW p \in Tills, TerminalStep(p)
    PROVE  TerminalTypes'
<1>0. /\ BillTypes /\ attempt \in [Refs -> AttemptRecord] /\ square \in [Refs -> SquareRecord]
      /\ heard \in [Tills -> [status : Statuses, of : Refs \cup {NoRef}]]
      /\ proc[p] \in ProcRecord /\ Fit(proc[p]) /\ Knows(proc[p])
      /\ \A k \in Refs : attempt[k].kind # "none" => attempt[k].amt >= 1 /\ attempt[k].bill \in Bills
      /\ heard[p].status \in Statuses /\ heard[p].of \in Refs \cup {NoRef}
  BY DEF TerminalTypes, BillTypes, TypeOK
<1>a. /\ proc[p].amt \in Int /\ proc[p].tip \in Nat /\ proc[p].b \in Bills \cup {NoBill}
      /\ proc[p].ref \in Refs \cup {NoRef} /\ proc[p].method \in Methods
  BY <1>0, ProcFields_Typed
<1>1. CASE LookInFlight(p)
  <2>1. proc[p].at = "inFlight" /\ (Throw(p) \/ Goto(p, "toSquare"))
        /\ UNCHANGED <<billVars, attempt, square, heard>>
    BY <1>1 DEF LookInFlight, At, terminalVars
  <2>2. proc[p].at \in Starting /\ "toSquare" \in Starting \cap Stops
    BY <2>1, Places_Known DEF Starting
  <2> QED BY <2>1, <2>2, Rows_Stay, Goto_Types, Return_Types
<1>2. CASE ToSquare(p)
  <2> DEFINE of == heard[p].of
             isCharge == KindOf(p) = "charge"
             asks == isCharge /\ proc[p].tip = 0
             back == IF isCharge THEN NoRef ELSE of
             n == proc[p].amt + proc[p].tip
             rec == [NotOnSquare EXCEPT !.kind = KindOf(p), !.bill = B(p), !.amt = n,
                                        !.asks = asks, !.of = back]
  <2>1. proc[p].at = "toSquare" /\ UNCHANGED <<billVars, attempt, heard>>
        /\ \/ square' = [square EXCEPT ![K(p)] = rec] /\ Goto(p, "row")
           \/ Throw(p) /\ UNCHANGED square
    BY <1>2 DEF ToSquare, At
  <2>2. n \in Nat /\ back \in Refs \cup {NoRef} /\ asks \in BOOLEAN /\ KindOf(p) \in Kinds
    <3>1. proc[p].amt >= 1
      BY <1>0, <2>1 DEF Knows, Starting
    <3> QED BY <1>0, <1>a, <3>1 DEF KindOf, Kinds
  <2>3. square' \in [Refs -> SquareRecord]
    <3> HIDE DEF n, back, asks
    <3>1. rec \in SquareRecord
      BY <1>a, <2>2, Attempt_Typed DEF SquareRecord, NotOnSquare, B
    <3> HIDE DEF rec
    <3> QED BY <1>0, <2>1, <3>1
  <2>4. proc[p].at \in Starting /\ "row" \in Starting \cap Stops
    BY <2>1, Places_Known DEF Starting
  <2>5. Throw(p) \/ Goto(p, "row")
    BY <2>1
  <2> HIDE DEF rec, n, back, asks
  <2> QED BY <2>1, <2>3, <2>4, <2>5, Rows_Stay, Goto_Types, Return_Types
<1>3. CASE WriteRow(p)
  <2> DEFINE rec == [NoAttempt EXCEPT !.kind = KindOf(p), !.bill = B(p), !.amt = proc[p].amt,
                                      !.tip = proc[p].tip, !.of = square[K(p)].of]
  <2>1. proc[p].at = "row" /\ UNCHANGED <<billVars, square, heard>> /\ Return(p)
        /\ attempt' = [attempt EXCEPT ![K(p)] = rec]
    BY <1>3 DEF WriteRow, At
  <2>2. proc[p].amt >= 1 /\ K(p) \in Refs /\ proc[p].b \in Bills /\ proc[p].at \in Starting
    BY <1>0, <2>1 DEF Knows, Starting, Fit, K
  <2>3. square[K(p)].of \in Refs \cup {NoRef} /\ KindOf(p) \in Kinds
    BY <1>0, <2>2 DEF SquareRecord, KindOf, Kinds
  <2>4. rec \in AttemptRecord /\ rec.amt >= 1 /\ rec.bill \in Bills
    <3>1. proc[p].amt \in Nat /\ proc[p].tip \in Nat
      BY <1>a, <2>2
    <3> DEFINE kind == KindOf(p)
               of == square[K(p)].of
    <3>2. rec = [NoAttempt EXCEPT !.kind = kind, !.bill = proc[p].b, !.amt = proc[p].amt,
                                  !.tip = proc[p].tip, !.of = of]
      BY DEF B
    <3>3. kind \in Kinds /\ of \in Refs \cup {NoRef}
      BY <2>3
    <3> HIDE DEF rec, kind, of
    <3>4. NoAttempt \in AttemptRecord
      BY Attempt_Typed
    <3> QED BY <2>2, <3>1, <3>2, <3>3, <3>4 DEF AttemptRecord
  <2> HIDE DEF rec
  <2>5. /\ attempt' \in [Refs -> AttemptRecord]
        /\ \A k \in Refs : attempt'[k].kind # "none" => attempt'[k].amt >= 1 /\ attempt'[k].bill \in Bills
    BY <1>0, <2>1, <2>2, <2>4
  <2> QED BY <2>1, <2>2, <2>5, Rows_Stay, Return_Types
<1>4. CASE AskSquare(p)
  <2>1. /\ proc[p].at = "ask" /\ UNCHANGED <<billVars, attempt, square>>
        /\ heard' = [heard EXCEPT ![p].status = square[K(p)].status]
        /\ Goto(p, "claim") \/ Goto(p, "writeStatus") \/ Return(p)
    BY <1>4 DEF AskSquare, At, Hears
  <2>2. K(p) \in Refs /\ proc[p].at \in Asking /\ {"claim", "writeStatus"} \subseteq Asking \cap Stops
        /\ {"claim", "writeStatus"} \cap Starting = {}
    BY <1>0, <2>1, Places_Known DEF Knows, Asking, Starting, K
  <2>3. square[K(p)].status \in Statuses
    BY <1>0, <2>2 DEF SquareRecord
  <2>4. heard' \in [Tills -> [status : Statuses, of : Refs \cup {NoRef}]]
    BY <1>0, <2>1, <2>3
  <2>5. "claim" \in Stops /\ "writeStatus" \in Stops
    BY <2>2
  <2>6. CASE Goto(p, "claim")
    BY <2>1, <2>2, <2>4, <2>5, <2>6, Rows_Stay, Goto_Types
  <2>7. CASE Goto(p, "writeStatus")
    BY <2>1, <2>2, <2>4, <2>5, <2>7, Rows_Stay, Goto_Types
  <2>8. CASE Return(p)
    BY <2>1, <2>2, <2>4, <2>8, Rows_Stay, Return_Types
  <2> QED BY <2>1, <2>6, <2>7, <2>8
<1>5. CASE WriteStatus(p)
  <2>1. proc[p].at = "writeStatus" /\ UNCHANGED <<billVars, square, heard>> /\ Return(p)
        /\ attempt' = [attempt EXCEPT ![K(p)].status = heard[p].status]
    BY <1>5 DEF WriteStatus, At
  <2>2. proc[p].at \in Asking
    BY <2>1 DEF Asking
  <2>3. /\ attempt' \in [Refs -> AttemptRecord]
        /\ \A k \in Refs : attempt'[k].kind # "none" => attempt'[k].amt >= 1 /\ attempt'[k].bill \in Bills
    <3> DEFINE rec == [attempt[K(p)] EXCEPT !.status = heard[p].status]
    <3>1. K(p) \in Refs /\ attempt[K(p)] \in AttemptRecord
      BY <1>0, <2>1 DEF Knows, Asking, K
    <3>2. rec \in AttemptRecord /\ (rec.kind # "none" => rec.amt >= 1 /\ rec.bill \in Bills)
      BY <1>0, <3>1, Attempt_Fields DEF SameAttempt
    <3>3. attempt' = [attempt EXCEPT ![K(p)] = rec]
      BY <2>1
    <3> HIDE DEF rec
    <3> QED BY <3>1, <3>2, <3>3, Attempt_Set
  <2> QED BY <2>1, <2>2, <2>3, Rows_Stay, Return_Types
<1>6. CASE Claim(p)
  <2>1. /\ proc[p].at = "claim" /\ UNCHANGED <<billVars, square, heard>>
        /\ \/ Goto(p, "book")
              /\ attempt' = [[attempt EXCEPT ![K(p)].status = "COMPLETED"] EXCEPT ![K(p)].latch = "claimed"]
           \/ Return(p) /\ UNCHANGED attempt
    BY <1>6 DEF Claim, At
  <2>2. proc[p].at \in Asking /\ "book" \in Stops /\ "book" \notin Starting /\ "COMPLETED" \in Statuses
    BY <2>1, Places_Known DEF Asking, Starting, Statuses
  <2>3. /\ attempt' \in [Refs -> AttemptRecord]
        /\ \A k \in Refs : attempt'[k].kind # "none" => attempt'[k].amt >= 1 /\ attempt'[k].bill \in Bills
    BY <1>0, <2>1, <2>2 DEF AttemptRecord
  <2>4. Return(p) \/ Goto(p, "book")
    BY <2>1
  <2> QED BY <2>1, <2>2, <2>3, <2>4, Rows_Stay, Goto_Types, Return_Types
<1>7. CASE Book(p)
  <2> DEFINE q == [IdleProc EXCEPT !.b = attempt[K(p)].bill, !.ref = K(p), !.method = proc[p].method,
                                   !.want = attempt[K(p)].amt, !.then = "booked", !.catch = "notBooked"]
  <2>1. proc[p].at = "book" /\ UNCHANGED <<billVars, attempt, square, heard>>
    BY <1>7 DEF Book, At, terminalVars
  <2>2. PICK tip \in TipsOf(K(p)) :
           proc' = [proc EXCEPT ![p] =
              IF attempt[K(p)].kind = "refund" THEN TakeRefund(q) ELSE TakePayment([q EXCEPT !.tip = tip])]
    BY <1>7 DEF Book
  <2>3. /\ K(p) \in Refs /\ proc[p].method \in {"SQUARE_TERMINAL", "REFUND"}
        /\ attempt[K(p)].kind # "none"
    BY <1>0, <2>1 DEF Knows, K, TerminalInv, LatchInv, StartsAlone, Starting
  <2>4. attempt[K(p)].bill \in Bills /\ attempt[K(p)].amt \in Nat /\ tip \in Nat
    <3>1. attempt[K(p)] \in AttemptRecord /\ square[K(p)] \in SquareRecord
      BY <1>0, <2>3
    <3> QED BY <1>0, <2>3, <3>1 DEF AttemptRecord, SquareRecord, TipsOf
  <2>5. /\ q \in ProcRecord /\ q.b \in Bills /\ q.back = "idle" /\ q.doing = {} /\ q.ref = K(p)
        /\ q.method = proc[p].method /\ q.then = "booked" /\ q.catch = "notBooked"
    BY <1>a, <2>3, <2>4, Idle_Typed DEF ProcRecord, IdleProc
  <2> HIDE DEF q
  <2> DEFINE t == [q EXCEPT !.tip = tip]
  <2>6. /\ t \in ProcRecord /\ t.b \in Bills /\ t.back = "idle" /\ t.doing = {} /\ t.ref = K(p)
        /\ t.method = proc[p].method /\ t.then = "booked" /\ t.catch = "notBooked"
    BY <2>4, <2>5 DEF ProcRecord
  <2> HIDE DEF t
  <2>7. q.method \notin Wallets
    BY <2>3, <2>5 DEF Wallets
  <2>8. PICK rec \in {TakeRefund(q), TakePayment(t)} : proc' = [proc EXCEPT ![p] = rec]
    BY <2>2 DEF t
  <2>9. rec \in ProcRecord /\ Fit(rec) /\ rec.doing = {}
    BY <1>0, <2>5, <2>6, <2>7, <2>8, TakeRefund_Typed, TakePayment_Typed
  <2>10. rec.ref = K(p) /\ rec.at \in {"notBooked", "recRead", "debit", "record", "refund"}
    <3>1. DOMAIN q = ProcFields /\ DOMAIN t = ProcFields
      BY <2>5, <2>6 DEF ProcRecord, ProcFields, IdleProc
    <3>2. TakenUp(q, TakeRefund(q)) /\ TakenUp(t, TakePayment(t))
      BY <3>1, TakeRefund_Record, TakePayment_Record
    <3> QED BY <2>5, <2>6, <2>8, <3>2 DEF TakenUp
  <2>11. Knows(rec)
    BY <2>3, <2>10 DEF Knows, Starting, Asking
  <2> QED BY <2>1, <2>8, <2>9, <2>11, Knows_Set, Rows_Stay
<1>8. CASE Booked(p)
  <2>1. /\ UNCHANGED <<billVars, square, heard>> /\ proc' = [proc EXCEPT ![p] = IdleProc]
        /\ attempt' = [[attempt EXCEPT ![K(p)].latch = "paid"] EXCEPT ![K(p)].tip = proc[p].tip]
    BY <1>8 DEF Booked
  <2>2. /\ attempt' \in [Refs -> AttemptRecord]
        /\ \A k \in Refs : attempt'[k].kind # "none" => attempt'[k].amt >= 1 /\ attempt'[k].bill \in Bills
    <3> DEFINE rec == [[attempt[K(p)] EXCEPT !.latch = "paid"] EXCEPT !.tip = proc[p].tip]
    <3>1. proc[p].at = "booked"
      BY <1>8 DEF Booked, At
    <3>2. K(p) \in Refs /\ attempt[K(p)] \in AttemptRecord
      BY <1>0, <3>1 DEF Knows, K
    <3>3. rec \in AttemptRecord /\ (rec.kind # "none" => rec.amt >= 1 /\ rec.bill \in Bills)
      BY <1>0, <1>a, <3>2, Attempt_Fields DEF SameAttempt
    <3>4. attempt' = [attempt EXCEPT ![K(p)] = rec]
      BY <1>0, <2>1, <3>2
    <3> HIDE DEF rec
    <3> QED BY <3>2, <3>3, <3>4, Attempt_Set
  <2> QED BY <2>1, <2>2, Rows_Stay, Knows_Set, Idle_Typed, Idle_Knows
<1>9. CASE NotBooked(p)
  <2>1. /\ UNCHANGED <<billVars, square, heard>> /\ proc' = [proc EXCEPT ![p] = IdleProc]
        /\ attempt' = [attempt EXCEPT ![K(p)].failed = TRUE]
    BY <1>9 DEF NotBooked
  <2>2. /\ attempt' \in [Refs -> AttemptRecord]
        /\ \A k \in Refs : attempt'[k].kind # "none" => attempt'[k].amt >= 1 /\ attempt'[k].bill \in Bills
    <3> DEFINE rec == [attempt[K(p)] EXCEPT !.failed = TRUE]
    <3>1. proc[p].at = "notBooked"
      BY <1>9 DEF NotBooked, At
    <3>2. K(p) \in Refs /\ attempt[K(p)] \in AttemptRecord
      BY <1>0, <3>1 DEF Knows, K
    <3>3. rec \in AttemptRecord /\ (rec.kind # "none" => rec.amt >= 1 /\ rec.bill \in Bills)
      BY <1>0, <1>a, <3>2, Attempt_Fields DEF SameAttempt
    <3>4. attempt' = [attempt EXCEPT ![K(p)] = rec]
      BY <1>0, <2>1, <3>2
    <3> HIDE DEF rec
    <3> QED BY <3>2, <3>3, <3>4, Attempt_Set
  <2> QED BY <2>1, <2>2, Rows_Stay, Knows_Set, Idle_Typed, Idle_Knows
<1>10. CASE CancelOnSquare(p)
  <2>1. /\ proc[p].at = "cancel" /\ UNCHANGED <<billVars, attempt>>
        /\ \/ \E status \in {"CANCEL_REQUESTED", "CANCELED"} :
                 /\ square' = [square EXCEPT ![K(p)].status = status]
                 /\ heard' = [heard EXCEPT ![p].status = status]
                 /\ Goto(p, "writeStatus")
           \/ /\ heard' = [heard EXCEPT ![p].status = attempt[K(p)].status]
              /\ Goto(p, "ask") /\ UNCHANGED square
           \/ Throw(p) /\ UNCHANGED <<square, heard>>
    BY <1>10 DEF CancelOnSquare, At, Hears
  <2>2. K(p) \in Refs /\ proc[p].at \in Asking /\ {"ask", "writeStatus"} \subseteq Asking
        /\ "ask" \in Stops /\ "writeStatus" \in Stops
        /\ {"ask", "writeStatus"} \cap Starting = {} /\ {"CANCEL_REQUESTED", "CANCELED"} \subseteq Statuses
    BY <1>0, <2>1, Places_Known DEF Knows, Asking, Starting, K, Statuses
  <2>3. attempt[K(p)].status \in Statuses
    BY <1>0, <2>2 DEF AttemptRecord
  <2>4. /\ square' \in [Refs -> SquareRecord]
        /\ heard' \in [Tills -> [status : Statuses, of : Refs \cup {NoRef}]]
    BY <1>0, <2>1, <2>2, <2>3 DEF SquareRecord
  <2>5. Throw(p) \/ Goto(p, "ask") \/ Goto(p, "writeStatus")
    BY <2>1
  <2>6. CASE Goto(p, "ask")
    BY <2>1, <2>2, <2>4, <2>6, Rows_Stay, Goto_Types
  <2>7. CASE Goto(p, "writeStatus")
    BY <2>1, <2>2, <2>4, <2>7, Rows_Stay, Goto_Types
  <2>8. CASE Throw(p)
    BY <2>1, <2>2, <2>4, <2>8, Rows_Stay, Return_Types
  <2> QED BY <2>5, <2>6, <2>7, <2>8
<1> QED BY <1>1, <1>2, <1>3, <1>4, <1>5, <1>6, <1>7, <1>8, <1>9, <1>10 DEF TerminalStep

LEMMA Outside_Types ==
    ASSUME TerminalTypes, Outside
    PROVE  TerminalTypes'
<1>0. /\ BillTypes /\ attempt \in [Refs -> AttemptRecord] /\ square \in [Refs -> SquareRecord]
      /\ MaxTip \in Nat /\ {"IN_PROGRESS", "COMPLETED", "CANCELED"} \subseteq Statuses
  BY PosBillAssumption DEF TerminalTypes, Statuses
<1>1. UNCHANGED <<vars, attempt, heard>>
  BY DEF Outside, CardPresented, Completes, IsCanceled
<1>2. square' \in [Refs -> SquareRecord]
  <2>1. PICK k \in Refs : \/ \E s \in Statuses : square' = [square EXCEPT ![k].status = s]
                          \/ \E tip \in Nat : square' = [[square EXCEPT ![k].status = "COMPLETED"] EXCEPT ![k].tip = tip]
    BY <1>0 DEF Outside, CardPresented, Completes, IsCanceled
  <2> QED BY <1>0, <2>1 DEF SquareRecord
<1>3. BillTypes'
  BY <1>0, <1>1 DEF BillTypes, TypeOK, RowIds, LiveCards, vars
<1> QED BY <1>1, <1>2, <1>3 DEF TerminalTypes, vars

-----------------------------------------------------------------------------
(* Where rows come from *)

SameMoney(r, s) == r.id = s.id /\ r.method = s.method /\ r.amt = s.amt /\ r.tip = s.tip /\ r.ref = s.ref

\* The row that a handler writes.
WritesRow(p, r) ==
    /\ proc[p].at \in {"record", "refund"}
    /\ r.method = proc[p].method /\ r.ref = proc[p].ref /\ r.bill = proc[p].b
    /\ proc[p].at = "record" => r.amt = proc[p].amt /\ r.tip = proc[p].tip

RowsFrom(p) == \A r \in pays' : (\E s \in pays : SameMoney(r, s)) \/ WritesRow(p, r)

LEMMA Same_From ==
    ASSUME NEW p, pays' \subseteq pays
    PROVE  RowsFrom(p)
BY DEF RowsFrom, SameMoney

LEMMA Step_Rows ==
    ASSUME BillTypes, NEW p \in Tills, StepOf(p)
    PROVE  RowsFrom(p)
<1>t. /\ proc \in [Tills -> ProcRecord] /\ proc[p] \in ProcRecord /\ Fit(proc[p])
      /\ proc[p].amt \in Int /\ proc[p].tip \in Int /\ proc[p].tips \in Int
      /\ proc[p].method \in Methods /\ proc[p].ref \in Refs \cup {NoRef}
  BY ProcFields_Typed DEF BillTypes, TypeOK
<1>1. CASE Debit(p)
  BY <1>1, Same_From DEF Debit
<1>2. CASE Record(p)
  <2>1. proc[p].at = "record"
        /\ AddPayment(B(p), proc[p].method, proc[p].amt, proc[p].tip, proc[p].ref)
    BY <1>2 DEF Record, At
  <2>2. B(p) \in Bills
    BY <1>t, <2>1 DEF Fit, B
  <2>3. PICK r \in PaymentRecord : /\ pays' = pays \cup {r} /\ r.bill = B(p)
                                   /\ r.method = proc[p].method /\ r.ref = proc[p].ref
                                   /\ r.amt = proc[p].amt /\ r.tip = proc[p].tip
    BY <1>t, <2>1, <2>2, Added_Row
  <2> QED BY <2>1, <2>3 DEF RowsFrom, SameMoney, WritesRow, B
<1>3. CASE Refund(p)
  <2>1. proc[p].at = "refund"
        /\ AddPayment(B(p), proc[p].method, proc[p].tips - proc[p].amt, -proc[p].tips, proc[p].ref)
    BY <1>3 DEF Refund, At
  <2>2. B(p) \in Bills
    BY <1>t, <2>1 DEF Fit, B
  <2>a. proc[p].tips - proc[p].amt \in Int /\ -proc[p].tips \in Int
    BY <1>t
  <2>3. PICK r \in PaymentRecord : /\ pays' = pays \cup {r} /\ r.bill = B(p)
                                   /\ r.method = proc[p].method /\ r.ref = proc[p].ref
    BY <1>t, <2>1, <2>2, <2>a, Added_Row
  <2> QED BY <2>1, <2>3 DEF RowsFrom, SameMoney, WritesRow, B
<1>4. CASE UndoDelete(p)
  BY <1>4, Same_From DEF UndoDelete
<1>5. CASE MergeOrders(p)
  <2>1. proc[p].at = "merge" /\ MovedRows(B(p), proc[p].other)
    BY <1>5 DEF MergeOrders, MovedRows, At
  <2>2. B(p) \in Bills
    BY <1>t, <2>1 DEF Fit, B
  <2>3. PICK h : /\ pays' = {h[r] : r \in pays}
                 /\ \A r \in pays : /\ h[r].id = r.id /\ h[r].method = r.method
                                    /\ h[r].amt = r.amt /\ h[r].tip = r.tip /\ h[r].ref = r.ref
    BY <2>1, <2>2, Merge_Map
  <2> QED BY <2>3 DEF RowsFrom, SameMoney
<1>6. CASE Quiet(p)
  BY <1>6, Same_From DEF Quiet
<1> QED
  BY <1>1, <1>2, <1>3, <1>4, <1>5, <1>6, RingUp_Quiet, SettleUp_Quiet, LineStep_Quiet, PayStep_Quiet,
     ReverseStep_Quiet DEF StepOf

-----------------------------------------------------------------------------
(* A payment on its way *)

PayPath == {"recRead", "recWrite", "payReread", "record", "status", "issueList", "issueNext", "issueMark"}

\* A handler that is taking a payment goes on with that until it is done.
LEMMA Pay_Path ==
    ASSUME BillTypes, NEW p \in Tills, StepOf(p), proc[p].at \in PayPath, proc[p].method \notin Wallets,
           proc[p].at \in {"recRead", "recWrite"} => proc[p].back = "payReread",
           proc'[p].at # "idle", proc[p].catch = "idle"
    PROVE  /\ proc'[p].at \in PayPath \cup {proc[p].then}
           /\ proc'[p].at \in {"recRead", "recWrite"} => proc'[p].back = "payReread"
           /\ proc[p].at = "record" => proc'[p].at = "status"
           /\ proc'[p].at = "record" => proc[p].at = "payReread"
           /\ proc'[p].at \in {"recRead", "recWrite", "payReread"} => proc[p].at \in {"recRead", "recWrite"}
<1> DEFINE q == proc[p]
           Good(n) == \/ n.at = "idle"
                      \/ n.at = q.then /\ q.at # "record" /\ n.at \notin {"record", "recRead", "recWrite", "payReread"}
                      \/ /\ n.at \in PayPath
                         /\ n.at \in {"recRead", "recWrite"} => n.back = "payReread"
                         /\ q.at = "record" => n.at = "status"
                         /\ n.at = "record" => q.at = "payReread"
                         /\ n.at \in {"recRead", "recWrite", "payReread"} => q.at \in {"recRead", "recWrite"}
<1>t. proc \in [Tills -> ProcRecord] /\ proc[p] \in ProcRecord /\ Fit(proc[p])
      /\ proc[p].then \in {"idle", "booked", "paid"}
  BY ProcFields_Typed DEF BillTypes, TypeOK
<1>r. ASSUME Return(p) \/ Throw(p), q.at # "record" PROVE Good(proc'[p])
  <2>1. PICK w \in {q.then, q.catch} :
           proc'[p] = IF w = "idle" THEN IdleProc ELSE [q EXCEPT !.at = w]
    BY <1>r, <1>t DEF Return, Throw, GoOrIdle
  <2>2. proc'[p].at = w
    BY <1>t, <2>1 DEF ProcRecord, IdleProc
  <2> QED BY <1>t, <1>r, <2>2
<1>g. ASSUME NEW w, Goto(p, w), w \in PayPath \ {"record", "recRead", "recWrite", "payReread"},
             q.at = "record" => w = "status"
      PROVE  Good(proc'[p])
  <2>1. proc'[p].at = w
    BY <1>g, <1>t DEF Goto, ProcRecord
  <2> QED BY <1>g, <2>1
<1>1. CASE RecomputeRead(p)
  <2> DEFINE n == [q EXCEPT !.at = "recWrite", !.sum = bill[B(p)].goods + bill[B(p)].gifts]
  <2>1. q.at = "recRead" /\ proc'[p] = n
    BY <1>1, <1>t DEF RecomputeRead, At
  <2>2. n.at = "recWrite" /\ n.back = q.back
    BY <1>t DEF ProcRecord
  <2> HIDE DEF n
  <2>3. Good(proc'[p])
    BY <2>1, <2>2 DEF PayPath
  <2> QED BY <1>t, <2>3
<1>2. CASE RecomputeWrite(p)
  <2>1. q.at = "recWrite" /\ q.back = "payReread" /\ proc'[p] = [q EXCEPT !.at = "payReread"]
    BY <1>2, <1>t DEF RecomputeWrite, At, GoOrIdle
  <2>2. proc'[p].at = "payReread"
    BY <1>t, <2>1 DEF ProcRecord
  <2> QED BY <2>1, <2>2 DEF PayPath
<1>3. CASE PayReread(p)
  <2> DEFINE d == [q EXCEPT !.back = "idle"]
  <2>1. q.at = "payReread" /\ proc'[p] = Decide(d)
    BY <1>3, <1>t DEF PayReread, At
  <2>2. d \in ProcRecord /\ d.b \in Bills /\ d.method = q.method /\ d.catch = "idle"
    BY <1>t, <2>1 DEF ProcRecord, Fit
  <2> HIDE DEF d
  <2>3. Decide(d) = IdleProc \/ Decide(d).at = "record"
    BY <2>2, Decide_Goes
  <2>4. IdleProc.at = "idle"
    BY DEF IdleProc
  <2> QED BY <2>1, <2>3, <2>4 DEF PayPath
<1>4. CASE Record(p)
  BY <1>4, <1>g, <1>t DEF Record, PayPath
<1>5. CASE SetStatus(p)
  <2>1. q.at = "status" /\ (Goto(p, "issueList") \/ Return(p))
    BY <1>5 DEF SetStatus, At
  <2>2. Good(proc'[p])
    BY <1>g, <1>r, <2>1 DEF PayPath
  <2> QED BY <1>t, <2>1, <2>2
<1>6. CASE IssueList(p)
  <2> DEFINE pending == {s \in SalesOn(B(p)) : ~sale[s].issued}
             n == [q EXCEPT !.at = "issueNext", !.todo = pending]
  <2>1. q.at = "issueList" /\ (Return(p) \/ proc'[p] = n)
    BY <1>6, <1>t DEF IssueList, At
  <2>2. n.at = "issueNext"
    BY <1>t DEF ProcRecord
  <2> HIDE DEF n
  <2>3. Good(proc'[p])
    BY <1>r, <2>1, <2>2 DEF PayPath
  <2> QED BY <1>t, <2>1, <2>3
<1>7. ASSUME NEW rest, NextSale(p, rest), q.at # "record" PROVE Good(proc'[p])
  <2> DEFINE n == [q EXCEPT !.at = "issueNext", !.todo = rest, !.doing = {}]
  <2>1. Return(p) \/ proc'[p] = n
    BY <1>7, <1>t DEF NextSale
  <2>2. n.at = "issueNext"
    BY <1>t DEF ProcRecord
  <2> HIDE DEF n
  <2> QED BY <1>7, <1>r, <2>1, <2>2 DEF PayPath
<1>8. ASSUME NEW s \in Sales, IssueNext(p, s)
      PROVE  Good(proc'[p]) /\ q.at = "issueNext"
  <2> DEFINE n == [q EXCEPT !.at = "issueMark", !.todo = q.todo \ {s}, !.doing = {s}]
  <2>1. q.at = "issueNext" /\ (NextSale(p, q.todo \ {s}) \/ proc'[p] = n)
    BY <1>8, <1>t DEF IssueNext, At
  <2>2. n.at = "issueMark"
    BY <1>t DEF ProcRecord
  <2> HIDE DEF n
  <2> QED BY <1>7, <2>1, <2>2 DEF PayPath
<1>9. CASE IssueMark(p)
  <2>1. q.at = "issueMark" /\ NextSale(p, q.todo)
    BY <1>9 DEF IssueMark, At
  <2>2. Good(proc'[p])
    BY <1>7, <2>1
  <2> QED BY <1>t, <2>1, <2>2
<1>10. q.at \notin {"idle", "setLines", "addSale", "removeSale", "syncRead", "syncClear", "syncCreate",
                    "merge", "splitNext", "debit", "undoDelete", "undoStatus", "void", "reopen", "refund",
                    "refundCards"}
  BY DEF PayPath
<1>11. \/ RecomputeRead(p) \/ RecomputeWrite(p) \/ PayReread(p) \/ Record(p) \/ SetStatus(p)
       \/ IssueList(p) \/ (\E s \in Sales : IssueNext(p, s)) \/ IssueMark(p)
  <2>1. ~RingUp(p)
    BY <1>10 DEF RingUp, CreateOrder, SetLinesRead, AddGiftCardSaleRead, SplitRead, MergeRead,
                 RemoveGiftCardSaleRead, Idle, At
  <2>2. ~SettleUp(p)
    BY <1>10 DEF SettleUp, PayOrder, RefundOrder, VoidRead, ReopenRead, UndoRead, Idle, At
  <2>3. ~ReverseStep(p)
    BY <1>10 DEF ReverseStep, UndoDelete, UndoStatus, VoidOrder, ReopenOrder, Refund, RefundCards, At
  <2>4. LineStep(p) => RecomputeRead(p) \/ RecomputeWrite(p)
    BY <1>10 DEF LineStep, SetLines, AddGiftCardSale, RemoveGiftCardSale, SyncRead, SyncClear,
                 SyncCreate, MergeOrders, SplitChild, SplitVoid, At
  <2>5. ~Debit(p)
    BY <1>10 DEF Debit, At
  <2> QED BY <2>1, <2>2, <2>3, <2>4, <2>5 DEF StepOf, PayStep
<1> QED BY <1>t, <1>1, <1>2, <1>3, <1>4, <1>5, <1>6, <1>8, <1>9, <1>10, <1>11

-----------------------------------------------------------------------------
(* Payments from the guest's phone *)

OnlinePlaces == {"session", "existing", "confirm", "pay", "paid"}

\* A handler that is about a session knows which, and what to pay.
OnlineKnows(q) ==
    /\ q.catch = "idle" /\ q.then \in {"idle", "paid"}
    /\ q.ref \in Refs \/ q.method = "ONLINE" \/ q.at \in OnlinePlaces \/ q.then = "paid" =>
          q.ref \in Refs /\ (q.at \in OnlinePlaces \/ q.then = "paid")
    /\ q.then = "paid" => q.at \in PayPath \cup {"paid"}
    /\ q.at \in OnlinePlaces \ {"paid"} => q.then = "idle" /\ q.back = "idle"
    /\ q.at = "session" => /\ q.method = "CASH" /\ q.want >= 1 /\ q.tip <= MaxTip
                           /\ session[q.ref].status = "none"
    /\ q.ref \in Refs /\ q.at # "session" =>
          /\ q.method = "ONLINE" /\ session[q.ref].status = "paid" /\ session[q.ref].bill = q.b
          /\ q.at \in {"recRead", "recWrite"} => q.back = "payReread"
          /\ q.at \in {"pay", "recRead", "recWrite", "payReread", "record"} =>
                q.want >= 1 /\ q.want + q.tip = session[q.ref].received
          /\ q.at = "record" => q.amt = q.want

SessionsTyped ==
    /\ session \in [Refs -> SessionRecord]
    /\ \A k \in Refs : session[k].status # "none" =>
          session[k].received > session[k].tip /\ session[k].bill \in Bills

RowsPaid ==
    \A r \in pays : r.ref \in Refs \/ r.method = "ONLINE" =>
        /\ r.ref \in Refs /\ r.method = "ONLINE" /\ session[r.ref].status = "paid"
        /\ r.amt + r.tip = session[r.ref].received

OnlineTypes ==
    /\ BillTypes
    /\ SessionsTyped
    /\ confirmed \subseteq Refs
    /\ \A p \in Tills : OnlineKnows(proc[p])
    /\ \A p, q \in Tills : p # q /\ proc[p].at = "session" => proc[q].ref # proc[p].ref
    /\ RowsPaid

LEMMA Larger == \A m, n \in Int : Max({m, n}) \in {m, n} /\ Max({m, n}) >= m /\ Max({m, n}) >= n
<1> SUFFICES ASSUME NEW m \in Int, NEW n \in Int
             PROVE  Max({m, n}) \in {m, n} /\ Max({m, n}) >= m /\ Max({m, n}) >= n
  OBVIOUS
<1>1. \E x \in {m, n} : \A y \in {m, n} : x >= y
  OBVIOUS
<1> QED BY <1>1 DEF Max

LEMMA Online_Places ==
    /\ OnlinePlaces \subseteq Stops
    /\ \A w \in BillPlaces \cup {"idle", "away"} : w \notin OnlinePlaces
    /\ "session" \in OnlinePlaces /\ "pay" \in OnlinePlaces /\ "paid" \in OnlinePlaces
    /\ PayPath \subseteq BillPlaces
BY Places_Known DEF OnlinePlaces, BillPlaces, PayPath

LEMMA Idle_Online ==
    ASSUME NEW a \in {"idle", "away"}
    PROVE  OnlineKnows([IdleProc EXCEPT !.at = a])
BY PosBillAssumption DEF OnlineKnows, IdleProc, OnlinePlaces, PayPath

LEMMA IdleProc_Online == OnlineKnows(IdleProc) /\ IdleProc.at = "idle" /\ IdleProc.ref = NoRef
BY PosBillAssumption DEF OnlineKnows, IdleProc, OnlinePlaces, PayPath

\* One handler moves and the sessions stay.
LEMMA Online_Move ==
    ASSUME OnlineTypes, UNCHANGED session, confirmed' \subseteq Refs, NEW p \in Tills,
           \A q \in Tills : q # p => proc'[q] = proc[q], BillTypes', OnlineKnows(proc'[p]),
           \/ proc'[p].ref \notin Refs
           \/ proc'[p].ref = proc[p].ref /\ (proc'[p].at = "session" => proc[p].at = "session")
           \/ \A q \in Tills : proc'[p].ref # proc[q].ref
           \/ proc'[p].at # "session" /\ session[proc'[p].ref].status # "none",
           RowsPaid'
    PROVE  OnlineTypes'
<1>1. SessionsTyped'
  BY DEF OnlineTypes, SessionsTyped
<1>2. ASSUME NEW q \in Tills PROVE OnlineKnows(proc[q])'
  <2>1. CASE q = p
    BY <2>1 DEF OnlineKnows
  <2>2. CASE q # p
    BY <2>2 DEF OnlineTypes, OnlineKnows
  <2> QED BY <2>1, <2>2
<1>3. ASSUME NEW o \in Tills, NEW q \in Tills, o # q, proc'[o].at = "session"
      PROVE  proc'[q].ref # proc'[o].ref
  <2>0. \A x \in Tills : proc[x].at = "session" =>
           proc[x].ref \in Refs /\ session[proc[x].ref].status = "none"
    BY DEF OnlineTypes, OnlineKnows, OnlinePlaces
  <2>00. proc'[p].at = "session" => proc'[p].ref \in Refs /\ session[proc'[p].ref].status = "none"
    BY DEF OnlineKnows, OnlinePlaces
  <2>1. CASE o = p
    BY <1>3, <2>0, <2>00, <2>1 DEF OnlineTypes
  <2>2. CASE q = p
    BY <1>3, <2>0, <2>2 DEF OnlineTypes
  <2>3. CASE o # p /\ q # p
    BY <1>3, <2>3 DEF OnlineTypes
  <2> QED BY <2>1, <2>2, <2>3
<1> QED BY <1>1, <1>2, <1>3 DEF OnlineTypes

LEMMA Rows_As_Paid ==
    ASSUME OnlineTypes, UNCHANGED <<pays, session>>
    PROVE  RowsPaid'
BY DEF OnlineTypes, RowsPaid

LEMMA Online_Till ==
    ASSUME OnlineTypes, NEW p \in Tills, StepOf(p), UNCHANGED onlineVars
    PROVE  OnlineTypes'
<1>0. BillTypes /\ BillTypes' /\ UNCHANGED <<session, confirmed>>
  BY Step_Types DEF OnlineTypes, onlineVars
<1>1. proc[p] \in ProcRecord /\ OnlineKnows(proc[p]) /\ Fit(proc[p]) /\ NoRef \notin Refs
  BY PosBillAssumption DEF OnlineTypes, BillTypes, TypeOK
<1>2. Own(p) /\ RowsFrom(p)
  BY <1>0, Step_Own, Step_Rows
<1>3. confirmed' \subseteq Refs
  BY <1>0 DEF OnlineTypes
<1>4. RowsPaid'
  <2> SUFFICES ASSUME NEW r \in pays', r.ref \in Refs \/ r.method = "ONLINE"
               PROVE  /\ r.ref \in Refs /\ r.method = "ONLINE" /\ session[r.ref].status = "paid"
                      /\ r.amt + r.tip = session[r.ref].received
    BY <1>0 DEF RowsPaid
  <2>1. CASE \E s \in pays : SameMoney(r, s)
    BY <2>1 DEF OnlineTypes, RowsPaid, SameMoney
  <2>2. CASE WritesRow(p, r)
    <3>1. proc[p].ref \in Refs /\ proc[p].at # "session" /\ proc[p].then = "paid"
      BY <1>1, <2>2 DEF WritesRow, OnlineKnows, OnlinePlaces
    <3>2. proc[p].at = "record"
      BY <1>1, <2>2, <3>1 DEF WritesRow, OnlineKnows, PayPath
    <3> QED BY <1>1, <2>2, <3>1, <3>2 DEF WritesRow, OnlineKnows
  <2> QED BY <1>2, <2>1, <2>2 DEF RowsFrom
<1>5. CASE Plain(proc'[p])
  <2>1. OnlineKnows(proc'[p])
    <3>1. proc'[p].at \notin OnlinePlaces
      BY <1>5, Online_Places DEF Plain
    <3> QED BY <1>1, <1>5, <3>1, Online_Places DEF Plain, OnlineKnows
  <2> QED BY <1>0, <1>1, <1>2, <1>3, <1>4, <1>5, <2>1, Online_Move DEF Own, Plain
<1>6. CASE proc'[p] = proc[p]
  BY <1>0, <1>1, <1>2, <1>3, <1>4, <1>6, Online_Move DEF Own
<1>7. CASE Follows(proc[p], proc'[p])
  <2> DEFINE q == proc[p]
             n == proc'[p]
  <2>1. /\ q.at \in BillPlaces
        /\ n.at \in BillPlaces \/ (n.at # "idle" /\ n.at \in {q.then, q.catch})
        /\ n.ref = q.ref /\ n.then = q.then /\ n.catch = q.catch /\ n.method = q.method
        /\ n.want = q.want /\ n.tip = q.tip /\ (q.at # "splitNext" => n.b = q.b)
        /\ (n.at = "record" /\ q.at \notin {"debit", "record"} /\ q.want # 0 => n.amt = q.want)
    BY <1>7 DEF Follows
  <2>2. q.catch = "idle" /\ q.then \in {"idle", "paid"}
    BY <1>1 DEF OnlineKnows
  <2>3. CASE q.ref \notin Refs
    <3>1. q.then = "idle" /\ q.method # "ONLINE"
      BY <1>1, <2>2, <2>3 DEF OnlineKnows
    <3>2. n.at \in BillPlaces
      BY <2>1, <2>2, <3>1
    <3>3. OnlineKnows(n)
      <4>1. n.at \notin OnlinePlaces
        BY <3>2, Online_Places
      <4> HIDE DEF q, n
      <4> QED BY <2>1, <2>2, <2>3, <3>1, <4>1, Online_Places DEF OnlineKnows
    <3> QED BY <1>0, <1>2, <1>3, <1>4, <2>1, <2>3, <3>3, Online_Move DEF Own
  <2>4. CASE q.ref \in Refs
    <3>1. q.at \notin OnlinePlaces /\ q.then = "paid"
      <4>0. q.at \in BillPlaces
        BY <2>1
      <4>1. q.at \notin OnlinePlaces
        BY <4>0, Online_Places
      <4> QED BY <1>1, <2>4, <4>1 DEF OnlineKnows
    <3>2. q.at \in PayPath /\ q.at # "session" /\ q.method = "ONLINE" /\ q.at # "splitNext"
      BY <1>1, <2>4, <3>1 DEF OnlineKnows, OnlinePlaces, PayPath
    <3>3. q.at \in {"recRead", "recWrite"} => q.back = "payReread"
      BY <1>1, <2>4, <3>2 DEF OnlineKnows
    <3>4. n.at # "idle"
      BY <2>1, Online_Places DEF BillPlaces
    <3>5. q.method \notin Wallets
      BY <3>2 DEF Wallets
    <3>6. /\ n.at \in PayPath \cup {"paid"}
          /\ n.at \in {"recRead", "recWrite"} => n.back = "payReread"
          /\ n.at = "record" => q.at = "payReread"
          /\ q.at = "record" => n.at = "status"
          /\ n.at \in {"recRead", "recWrite", "payReread"} => q.at \in {"recRead", "recWrite"}
      BY <1>0, <2>2, <3>1, <3>2, <3>3, <3>4, <3>5, Pay_Path
    <3>7. /\ session[q.ref].status = "paid" /\ session[q.ref].bill = q.b
          /\ q.at \in {"recRead", "recWrite", "payReread"} =>
                q.want >= 1 /\ q.want + q.tip = session[q.ref].received
      BY <1>1, <2>4, <3>2 DEF OnlineKnows
    <3>8. q.want \in Nat
      BY <1>1, ProcFields_Typed
    <3>9. n.at \in {"recRead", "recWrite", "payReread", "record"} =>
             q.at \in {"recRead", "recWrite", "payReread"}
      BY <3>6
    <3>10. n.at = "record" => n.amt = q.want
      BY <2>1, <3>6, <3>7, <3>8
    <3>11. n.at # "session"
      BY <3>6 DEF PayPath
    <3>12. OnlineKnows(n)
      <4>1. n.ref = q.ref /\ n.then = "paid" /\ n.catch = "idle" /\ n.method = "ONLINE" /\ n.b = q.b
            /\ n.want = q.want /\ n.tip = q.tip
        BY <2>1, <2>2, <3>1, <3>2
      <4>2. n.at \in OnlinePlaces => n.at = "paid"
        BY <3>6, Online_Places
      <4>3. n.at # "pay"
        BY <3>6 DEF PayPath
      <4> HIDE DEF q, n
      <4> QED BY <2>4, <3>6, <3>7, <3>9, <3>10, <3>11, <4>1, <4>2, <4>3 DEF OnlineKnows
    <3> QED BY <1>0, <1>2, <1>3, <1>4, <2>1, <3>11, <3>12, Online_Move DEF Own
  <2> QED BY <2>3, <2>4
<1> QED BY <1>2, <1>5, <1>6, <1>7 DEF Own

LEMMA Online_Crash ==
    ASSUME OnlineTypes, NEW p \in Tills, Crash(p), UNCHANGED onlineVars
    PROVE  OnlineTypes'
<1>0. BillTypes /\ BillTypes' /\ UNCHANGED <<session, confirmed, pays>>
  BY Crash_Types DEF OnlineTypes, onlineVars, Crash, billVars
<1>1. proc'[p] = IdleProc /\ \A q \in Tills : q # p => proc'[q] = proc[q]
  BY <1>0, Set_Lands DEF Crash, Lands
<1>2. confirmed' \subseteq Refs /\ NoRef \notin Refs
  BY <1>0, PosBillAssumption DEF OnlineTypes
<1> QED BY <1>0, <1>1, <1>2, IdleProc_Online, Rows_As_Paid, Online_Move

\* A handler gets a new record; bills and sessions stay.
LEMMA Online_Set ==
    ASSUME OnlineTypes, NEW p \in Tills, NEW rec \in ProcRecord, proc' = [proc EXCEPT ![p] = rec],
           Fit(rec), rec.doing \subseteq proc[p].doing, OnlineKnows(rec), UNCHANGED <<billVars, session>>,
           confirmed' \subseteq Refs,
           \/ rec.ref \notin Refs
           \/ rec.ref = proc[p].ref /\ (rec.at = "session" => proc[p].at = "session")
           \/ \A q \in Tills : rec.ref # proc[q].ref
           \/ rec.at # "session" /\ session[rec.ref].status # "none"
    PROVE  OnlineTypes'
<1>0. BillTypes
  BY DEF OnlineTypes
<1>1. BillTypes'
  BY <1>0, Set_Moved, Typed_Move
<1>2. proc'[p] = rec /\ \A q \in Tills : q # p => proc'[q] = proc[q]
  BY <1>0, Set_Lands DEF Lands
<1>3. RowsPaid'
  BY Rows_As_Paid DEF billVars
<1> QED BY <1>1, <1>2, <1>3, Online_Move

LEMMA Online_Return ==
    ASSUME OnlineTypes, NEW p \in Tills, Return(p), proc[p].then = "idle",
           UNCHANGED <<billVars, session>>, confirmed' \subseteq Refs
    PROVE  OnlineTypes'
<1>1. proc' = [proc EXCEPT ![p] = IdleProc]
  BY DEF Return, GoOrIdle
<1> QED BY <1>1, Online_Set, Idle_Typed, IdleProc_Online, PosBillAssumption

LEMMA OnlineStep_Types ==
    ASSUME OnlineTypes, NEW p \in Tills, OnlineStep(p)
    PROVE  OnlineTypes'
<1>0. /\ BillTypes /\ session \in [Refs -> SessionRecord] /\ confirmed \subseteq Refs
      /\ proc \in [Tills -> ProcRecord] /\ proc[p] \in ProcRecord /\ Fit(proc[p]) /\ OnlineKnows(proc[p])
      /\ \A k \in Refs : session[k].status # "none" =>
            session[k].received > session[k].tip /\ session[k].bill \in Bills
      /\ NoRef \notin Refs /\ MaxTip \in Nat
  BY PosBillAssumption DEF OnlineTypes, SessionsTyped, BillTypes, TypeOK
<1>a. /\ proc[p].want \in Nat /\ proc[p].tip \in Nat /\ proc[p].b \in Bills \cup {NoBill}
      /\ proc[p].ref \in Refs \cup {NoRef}
  BY <1>0, ProcFields_Typed
<1>b. AnswerOk(p) /\ proc[p].ref \in Refs => confirmed' \subseteq Refs
  BY <1>0 DEF AnswerOk
<1>1. ASSUME NEW k \in Refs, NEW b \in Bills, NEW tip \in 0..MaxTip, PayIntent(p, b, k, tip)
      PROVE  OnlineTypes'
  <2> DEFINE n == Balance(b)
             rec == [IdleProc EXCEPT !.at = "session", !.b = b, !.ref = k, !.want = n, !.tip = tip]
  <2>1. bill[b].total \in Int /\ tip \in Nat /\ tip <= MaxTip
    BY <1>0 DEF BillTypes, TypeOK, BillRecord
  <2>2. n \in Int
    BY <1>0, <2>1, Bill_Sums DEF Balance
  <2>3. /\ n > 0 /\ proc' = [proc EXCEPT ![p] = rec] /\ UNCHANGED <<billVars, session, confirmed>>
        /\ session[k].status = "none" /\ \A q \in Tills : proc[q].ref # k
    BY <1>1 DEF PayIntent, onlineVars
  <2> HIDE DEF n
  <2>4. n \in Nat /\ n >= 1
    BY <2>2, <2>3
  <2>5. /\ rec \in ProcRecord /\ rec.doing = {} /\ rec.at = "session" /\ rec.b = b /\ rec.ref = k
        /\ rec.want = n /\ rec.tip = tip /\ rec.back = "idle" /\ rec.method = "CASH"
        /\ rec.then = "idle" /\ rec.catch = "idle"
    BY <2>1, <2>4, Idle_Typed, Places_Known DEF ProcRecord, IdleProc
  <2> HIDE DEF rec
  <2>6. Fit(rec)
    BY <2>5 DEF Fit
  <2>7. OnlineKnows(rec)
    BY <2>1, <2>3, <2>4, <2>5, Online_Places DEF OnlineKnows
  <2>8. \A q \in Tills : rec.ref # proc[q].ref
    BY <2>3, <2>5
  <2>9. confirmed' \subseteq Refs /\ rec.doing \subseteq proc[p].doing
    BY <1>0, <2>3, <2>5
  <2> QED BY <2>3, <2>5, <2>6, <2>7, <2>8, <2>9, Online_Set
<1>2. ASSUME NEW k \in Refs, PayConfirm(p, k) PROVE OnlineTypes'
  <2> DEFINE b == session[k].bill
             rec == [IdleProc EXCEPT !.at = "existing", !.b = b, !.ref = k, !.method = "ONLINE"]
  <2>1. session[k].status = "paid" /\ proc' = [proc EXCEPT ![p] = rec]
        /\ UNCHANGED <<billVars, session, confirmed>>
    BY <1>2 DEF PayConfirm, onlineVars
  <2>2. b \in Bills /\ "ONLINE" \in Methods
    BY <1>0, <2>1 DEF Methods
  <2> HIDE DEF b
  <2>3. /\ rec \in ProcRecord /\ rec.doing = {} /\ rec.at = "existing" /\ rec.b = b /\ rec.ref = k
        /\ rec.back = "idle" /\ rec.method = "ONLINE" /\ rec.then = "idle" /\ rec.catch = "idle"
    BY <2>2, Idle_Typed, Places_Known DEF ProcRecord, IdleProc
  <2> HIDE DEF rec
  <2>4. Fit(rec)
    BY <2>2, <2>3 DEF Fit
  <2>5. OnlineKnows(rec)
    BY <2>1, <2>3 DEF OnlineKnows, OnlinePlaces, b
  <2>6. confirmed' \subseteq Refs /\ rec.doing \subseteq proc[p].doing
    BY <1>0, <2>1, <2>3
  <2>7. rec.at # "session" /\ session[rec.ref].status # "none"
    BY <2>1, <2>3
  <2> QED BY <2>1, <2>3, <2>4, <2>5, <2>6, <2>7, Online_Set
<1>3. CASE CreateSession(p)
  <2> DEFINE k == proc[p].ref
             rec == [status |-> "open", bill |-> B(p), received |-> proc[p].want + proc[p].tip,
                     tip |-> proc[p].tip]
  <2>1. proc[p].at = "session" /\ session' = [session EXCEPT ![k] = rec] /\ Return(p)
        /\ UNCHANGED <<billVars, confirmed>>
    BY <1>3 DEF CreateSession, At
  <2>2. /\ k \in Refs /\ proc[p].then = "idle" /\ proc[p].want >= 1 /\ proc[p].tip <= MaxTip
        /\ session[k].status = "none" /\ proc[p].b \in Bills
    BY <1>0, <2>1, Online_Places DEF OnlineKnows, OnlinePlaces, Fit
  <2>3. rec \in SessionRecord /\ rec.received > rec.tip /\ rec.bill \in Bills /\ rec.status = "open"
    BY <1>0, <1>a, <2>2 DEF SessionRecord, B
  <2>4. proc' = [proc EXCEPT ![p] = IdleProc]
    BY <2>1, <2>2 DEF Return, GoOrIdle
  <2>5. BillTypes'
    BY <1>0, <2>1, <2>4, Idle_Typed, Set_Moved, Typed_Move
  <2>6. proc'[p] = IdleProc /\ \A q \in Tills : q # p => proc'[q] = proc[q]
    BY <1>0, <2>4, Set_Lands DEF Lands
  <2> HIDE DEF rec
  <2>7. SessionsTyped'
    BY <1>0, <2>1, <2>2, <2>3 DEF SessionsTyped
  <2>8. \A j \in Refs : j # k => session'[j] = session[j]
    BY <1>0, <2>1
  <2>9. ASSUME NEW q \in Tills PROVE OnlineKnows(proc[q])'
    <3>1. CASE q = p
      <4>1. proc'[q] = IdleProc
        BY <2>6, <3>1
      <4>2. IdleProc.ref = NoRef /\ IdleProc.at = "idle" /\ IdleProc.method = "CASH" /\ IdleProc.catch = "idle"
            /\ IdleProc.then = "idle"
        BY DEF IdleProc
      <4> QED BY <1>0, <4>1, <4>2, Online_Places DEF OnlineKnows, OnlinePlaces
    <3>2. CASE q # p
      <4>1. proc'[q] = proc[q] /\ OnlineKnows(proc[q])
        BY <2>6, <3>2 DEF OnlineTypes
      <4>2. proc[q].ref # k
        BY <2>1, <3>2 DEF OnlineTypes
      <4>3. proc[q].at = "session" \/ proc[q].ref \in Refs => proc[q].ref \in Refs
        BY <4>1, Online_Places DEF OnlineKnows
      <4>4. proc[q].ref \in Refs => session'[proc[q].ref] = session[proc[q].ref]
        BY <2>8, <4>2
      <4> QED BY <4>1, <4>3, <4>4 DEF OnlineKnows
    <3> QED BY <3>1, <3>2
  <2>10. RowsPaid'
    <3>1. \A r \in pays : r.ref # k
      BY <2>2 DEF OnlineTypes, RowsPaid
    <3>2. pays' = pays
      BY <2>1 DEF billVars
    <3> QED BY <2>8, <3>1, <3>2 DEF OnlineTypes, RowsPaid
  <2>11. \A o, q \in Tills : o # q /\ proc'[o].at = "session" => proc'[q].ref # proc'[o].ref
    <3>1. IdleProc.at = "idle" /\ IdleProc.ref = NoRef
      BY DEF IdleProc
    <3>2. \A o \in Tills : proc[o].at = "session" => proc[o].ref \in Refs
      BY Online_Places DEF OnlineTypes, OnlineKnows
    <3> QED BY <1>0, <2>6, <3>1, <3>2 DEF OnlineTypes
  <2> QED BY <1>0, <2>1, <2>5, <2>7, <2>9, <2>10, <2>11 DEF OnlineTypes
<1>4. CASE LookForExisting(p)
  <2>1. proc[p].at = "existing" /\ UNCHANGED <<billVars, session>>
        /\ \/ AnswerOk(p) /\ Return(p)
           \/ Goto(p, "confirm") /\ UNCHANGED confirmed
    BY <1>4 DEF LookForExisting, At
  <2>2. proc[p].ref \in Refs /\ proc[p].then = "idle" /\ confirmed' \subseteq Refs
    BY <1>0, <1>b, <2>1 DEF OnlineKnows, OnlinePlaces
  <2>3. CASE Goto(p, "confirm")
    <3> DEFINE rec == [proc[p] EXCEPT !.at = "confirm"]
    <3>1. proc' = [proc EXCEPT ![p] = rec]
      BY <1>0, <2>3 DEF Goto
    <3>2. /\ rec \in ProcRecord /\ rec.at = "confirm" /\ SameRequest(proc[p], rec)
          /\ rec.back = proc[p].back /\ rec.other = proc[p].other /\ rec.doing = proc[p].doing
      BY <1>0, Places_Known DEF ProcRecord, SameRequest
    <3> HIDE DEF rec
    <3>3. Fit(rec)
      BY <1>0, <2>1, <3>2 DEF Fit, SameRequest
    <3>4. OnlineKnows(rec)
      BY <1>0, <2>1, <2>2, <3>2 DEF OnlineKnows, OnlinePlaces, SameRequest
    <3> QED BY <2>1, <2>2, <3>1, <3>2, <3>3, <3>4, Online_Set DEF SameRequest
  <2>4. CASE Return(p)
    BY <2>1, <2>2, <2>4, Online_Return
  <2> QED BY <2>1, <2>3, <2>4
<1>5. CASE Decided(p)
  <2> DEFINE s == session[proc[p].ref]
             amount == AmountOf(Balance(B(p)), s.received, s.tip)
             rest == s.received - amount
             rec == [proc[p] EXCEPT !.at = "pay", !.want = amount, !.tip = rest]
  <2>1. proc[p].at = "confirm" /\ UNCHANGED <<billVars, session>>
        /\ \/ AnswerOk(p) /\ Return(p)
           \/ proc' = [proc EXCEPT ![p] = rec] /\ UNCHANGED confirmed
    BY <1>0, <1>5 DEF Decided, At
  <2>2. proc[p].ref \in Refs /\ proc[p].then = "idle" /\ confirmed' \subseteq Refs
        /\ s.status = "paid" /\ proc[p].b \in Bills
    BY <1>0, <1>b, <2>1 DEF OnlineKnows, OnlinePlaces, Fit
  <2>3. CASE Return(p)
    BY <2>1, <2>2, <2>3, Online_Return
  <2>4. CASE proc' = [proc EXCEPT ![p] = rec]
    <3>1. s \in SessionRecord /\ s.received > s.tip
      BY <1>0, <2>2
    <3>2. s.received \in Nat /\ s.tip \in Nat
      BY <1>0, <3>1 DEF SessionRecord
    <3>3. Balance(B(p)) \in Int
      <4>1. bill[proc[p].b].total \in Int
        BY <1>0, <2>2 DEF BillTypes, TypeOK, BillRecord
      <4> QED BY <1>0, <4>1, Bill_Sums DEF Balance, B
    <3>4. amount \in Nat /\ amount >= 1 /\ rest \in Nat /\ amount + rest = s.received
      <4> DEFINE most == s.received - s.tip
                 bal == Balance(B(p))
      <4>1. most \in Int /\ most >= 1
        BY <3>1, <3>2
      <4>2. Min({bal, most}) \in {bal, most} /\ Min({bal, most}) <= most /\ Min({bal, most}) \in Int
        <5> HIDE DEF bal, most
        <5>1. bal \in Int
          BY <3>3 DEF bal
        <5> QED BY <4>1, <5>1, Smaller
      <4> DEFINE m == Min({bal, most})
      <4>3. Max({1, m}) \in {1, m} /\ Max({1, m}) >= 1
        <5> HIDE DEF m
        <5>1. m \in Int
          BY <4>2 DEF m
        <5> QED BY <5>1, Larger
      <4>4. amount = Max({1, m})
        BY DEF AmountOf
      <4> HIDE DEF amount, m
      <4>5. amount \in {1, m} /\ m \in Int /\ m <= most
        BY <4>2, <4>3, <4>4 DEF m
      <4>6. amount \in Int /\ amount >= 1 /\ amount <= s.received
        <5>1. amount >= 1
          BY <4>3, <4>4
        <5> QED BY <3>1, <3>2, <4>1, <4>5, <5>1
      <4> QED BY <3>2, <4>6
    <3> HIDE DEF amount, rest
    <3>5. /\ rec \in ProcRecord /\ rec.at = "pay" /\ rec.ref = proc[p].ref /\ rec.then = proc[p].then
          /\ rec.catch = proc[p].catch /\ rec.method = proc[p].method /\ rec.b = proc[p].b
          /\ rec.want = amount /\ rec.tip = rest
          /\ rec.back = proc[p].back /\ rec.other = proc[p].other /\ rec.doing = proc[p].doing
      BY <1>0, <3>4, Places_Known DEF ProcRecord
    <3> HIDE DEF rec
    <3>6. Fit(rec)
      BY <1>0, <2>1, <3>5 DEF Fit
    <3>7. OnlineKnows(rec)
      BY <1>0, <2>1, <2>2, <3>4, <3>5 DEF OnlineKnows, OnlinePlaces
    <3> QED BY <2>1, <2>2, <2>4, <3>5, <3>6, <3>7, Online_Set
  <2> QED BY <2>1, <2>3, <2>4
<1>6. CASE Pay(p)
  <2> DEFINE q == [proc[p] EXCEPT !.then = "paid"]
             rec == TakePayment(q)
  <2>1. proc[p].at = "pay" /\ proc' = [proc EXCEPT ![p] = rec]
        /\ UNCHANGED <<billVars, session, confirmed>>
    BY <1>0, <1>6 DEF Pay, At, onlineVars
  <2>2. /\ proc[p].ref \in Refs /\ confirmed' \subseteq Refs /\ proc[p].b \in Bills
        /\ proc[p].catch = "idle" /\ proc[p].method = "ONLINE" /\ proc[p].want >= 1
        /\ session[proc[p].ref].status = "paid" /\ session[proc[p].ref].bill = proc[p].b
        /\ proc[p].want + proc[p].tip = session[proc[p].ref].received
    BY <1>0, <2>1 DEF OnlineKnows, OnlinePlaces, Fit
  <2>3. /\ q \in ProcRecord /\ q.ref = proc[p].ref /\ q.then = "paid" /\ q.b = proc[p].b
        /\ q.catch = "idle" /\ q.method = "ONLINE" /\ q.want = proc[p].want /\ q.tip = proc[p].tip
        /\ q.back = proc[p].back /\ q.doing = proc[p].doing
    BY <1>0, <2>2 DEF ProcRecord
  <2>4. q.back # "splitNext"
    <3>1. proc[p].back # "splitNext"
      BY <1>0, <2>1 DEF OnlineKnows, OnlinePlaces
    <3> QED BY <2>3, <3>1
  <2> HIDE DEF q
  <2>5. rec \in ProcRecord /\ Fit(rec) /\ rec.doing \subseteq proc[p].doing
    BY <1>0, <2>2, <2>3, <2>4, TakePayment_Typed
  <2>6. OnlineKnows(rec) /\ (rec.ref \notin Refs \/ (rec.ref = proc[p].ref /\ rec.at # "session"))
    <3>1. \/ rec = IdleProc
          \/ rec = [q EXCEPT !.at = "recRead", !.back = "payReread"]
          \/ rec = Decide(q)
      BY <1>0, <2>2, <2>3, TakePayment_Goes
    <3>2. \/ Decide(q) = IdleProc
          \/ SameRequest(q, Decide(q)) /\ Decide(q).at = "record" /\ Decide(q).amt = q.want
      <4>1. q.method \notin Wallets /\ q.want # 0
        BY <1>a, <2>2, <2>3 DEF Wallets
      <4> QED BY <1>0, <2>2, <2>3, <4>1, Decide_Goes
    <3>3. CASE rec = IdleProc
      BY <1>0, <3>3, IdleProc_Online
    <3>4. CASE rec = [q EXCEPT !.at = "recRead", !.back = "payReread"]
      <4>1. SameRequest(q, rec) /\ rec.at = "recRead" /\ rec.back = "payReread"
        BY <2>3, <3>4 DEF ProcRecord, SameRequest
      <4> HIDE DEF rec
      <4> QED BY <2>2, <2>3, <4>1 DEF OnlineKnows, OnlinePlaces, SameRequest, PayPath
    <3>5. CASE rec = Decide(q) /\ rec # IdleProc
      <4>1. SameRequest(q, rec) /\ rec.at = "record" /\ rec.amt = q.want
        BY <3>2, <3>5
      <4> HIDE DEF rec
      <4> QED BY <2>2, <2>3, <4>1 DEF OnlineKnows, OnlinePlaces, SameRequest, PayPath
    <3> QED BY <3>1, <3>3, <3>4, <3>5
  <2> HIDE DEF rec
  <2> QED BY <2>1, <2>2, <2>5, <2>6, Online_Set
<1>7. CASE PaidOk(p)
  <2>1. proc[p].at = "paid" /\ AnswerOk(p) /\ proc' = [proc EXCEPT ![p] = IdleProc]
        /\ UNCHANGED <<billVars, session>>
    BY <1>7 DEF PaidOk, At
  <2>2. proc[p].ref \in Refs
    BY <1>0, <2>1, Online_Places DEF OnlineKnows
  <2> QED BY <1>0, <1>b, <2>1, <2>2, Online_Set, Idle_Typed, IdleProc_Online
<1> QED BY <1>1, <1>2, <1>3, <1>4, <1>5, <1>6, <1>7 DEF OnlineStep

-----------------------------------------------------------------------------
(* The guest pays, and the first states *)

\* Sessions come into being and are paid; nothing else happens to one.
PaysOne(k) == session[k].status = "open" /\ session' = [session EXCEPT ![k].status = "paid"]

LEMMA Paid_Session ==
    ASSUME OnlineTypes, NEW k \in Refs, PaysOne(k)
    PROVE  /\ session' \in [Refs -> SessionRecord]
           /\ \A j \in Refs : j # k => session'[j] = session[j]
           /\ session'[k].status = "paid" /\ session'[k].bill = session[k].bill
           /\ session'[k].received = session[k].received /\ session'[k].tip = session[k].tip
<1>1. session \in [Refs -> SessionRecord] /\ session[k] \in SessionRecord
  BY DEF OnlineTypes, SessionsTyped
<1> DEFINE rec == [session[k] EXCEPT !.status = "paid"]
<1>2. session' = [session EXCEPT ![k] = rec]
  BY <1>1 DEF PaysOne
<1>3. /\ rec \in SessionRecord /\ rec.status = "paid" /\ rec.bill = session[k].bill
      /\ rec.received = session[k].received /\ rec.tip = session[k].tip
  BY <1>1 DEF SessionRecord
<1> HIDE DEF rec
<1> QED BY <1>1, <1>2, <1>3

LEMMA Bill_Stutter == BillTypes /\ UNCHANGED vars => BillTypes'
BY DEF BillTypes, TypeOK, RowIds, LiveCards, vars

LEMMA GuestPays_Types ==
    ASSUME OnlineTypes, NEW k \in Refs, GuestPays(k)
    PROVE  OnlineTypes'
<1>1. PaysOne(k) /\ UNCHANGED <<proc, pays, confirmed>> /\ UNCHANGED vars
  BY DEF GuestPays, PaysOne, vars
<1>2. session[k].status = "open"
  BY <1>1 DEF PaysOne
<1>3. /\ session' \in [Refs -> SessionRecord]
      /\ \A j \in Refs : j # k => session'[j] = session[j]
      /\ session'[k].status = "paid" /\ session'[k].bill = session[k].bill
      /\ session'[k].received = session[k].received /\ session'[k].tip = session[k].tip
  BY <1>1, Paid_Session
<1>4. BillTypes'
  BY <1>1, Bill_Stutter DEF OnlineTypes
<1>5. SessionsTyped'
  BY <1>2, <1>3 DEF OnlineTypes, SessionsTyped
<1>6. ASSUME NEW q \in Tills PROVE OnlineKnows(proc[q])'
  <2>1. OnlineKnows(proc[q]) /\ proc'[q] = proc[q]
    BY <1>1 DEF OnlineTypes
  <2>2. proc[q].at \in OnlinePlaces => proc[q].ref \in Refs
    BY <2>1 DEF OnlineKnows
  <2>3. "session" \in OnlinePlaces
    BY DEF OnlinePlaces
  <2>4. CASE proc[q].ref = k
    <3>1. proc[q].at # "session" /\ session[k].status = "paid"
      BY <1>2, <2>1, <2>4 DEF OnlineKnows
    <3> QED BY <1>2, <3>1
  <2>5. CASE proc[q].ref # k
    <3>1. proc[q].ref \in Refs => session'[proc[q].ref] = session[proc[q].ref]
      BY <1>3, <2>5
    <3> QED BY <2>1, <2>2, <2>3, <3>1 DEF OnlineKnows
  <2> QED BY <2>4, <2>5
<1>7. RowsPaid'
  <2>1. \A r \in pays : r.ref # k
    BY <1>2 DEF OnlineTypes, RowsPaid
  <2> QED BY <1>1, <1>3, <2>1 DEF OnlineTypes, RowsPaid
<1> QED BY <1>1, <1>4, <1>5, <1>6, <1>7 DEF OnlineTypes

NoSessions ==
    /\ session = [k \in Refs |-> [status |-> "none", bill |-> NoBill, received |-> 0, tip |-> 0]]
    /\ confirmed = {}

NoCharges ==
    /\ attempt = [k \in Refs |-> NoAttempt]
    /\ square = [k \in Refs |-> NotOnSquare]
    /\ heard = [p \in Tills |-> [status |-> "PENDING", of |-> NoRef]]

LEMMA Start_Online == Start /\ NoSessions => OnlineTypes
<1> SUFFICES ASSUME Start, NoSessions PROVE OnlineTypes
  OBVIOUS
<1>0. BillTypes /\ MaxTip \in Nat /\ NoRef \notin Refs
  BY Start_Types, PosBillAssumption
<1>1. SessionsTyped
  <2>1. 0 \in 0..MaxTip
    BY <1>0
  <2>2. [status |-> "none", bill |-> NoBill, received |-> 0, tip |-> 0] \in SessionRecord
    BY <2>1 DEF SessionRecord
  <2> QED BY <2>2 DEF NoSessions, SessionsTyped
<1>2. \A p \in Tills : OnlineKnows(proc[p]) /\ proc[p].at # "session"
  <2>1. OnlineKnows(Away)
    BY Idle_Online DEF Away
  <2>2. IdleProc.at # "session" /\ Away.at # "session"
    BY Away_Is DEF IdleProc
  <2> QED BY <2>1, <2>2, IdleProc_Online, Start_Procs
<1>3. RowsPaid /\ confirmed \subseteq Refs
  BY DEF Start, NoSessions, RowsPaid
<1> QED BY <1>0, <1>1, <1>2, <1>3 DEF OnlineTypes

LEMMA Start_Terminal == Start /\ NoCharges => TerminalTypes /\ TerminalInv
<1> SUFFICES ASSUME Start, NoCharges PROVE TerminalTypes /\ TerminalInv
  OBVIOUS
<1>0. BillTypes /\ NoRef \notin Refs
  BY Start_Types, PosBillAssumption
<1>1. NoAttempt.kind = "none" /\ NoAttempt.latch = "open" /\ NotOnSquare.kind = "none"
  BY DEF NoAttempt, NotOnSquare
<1>2. Knows(Away) /\ Knows(IdleProc)
  BY Idle_Knows, Away_Is DEF Knows, Starting, Asking, Away, IdleProc
<1>3. heard \in [Tills -> [status : Statuses, of : Refs \cup {NoRef}]]
  BY Attempt_Typed DEF NoCharges
<1>4. TerminalTypes
  BY <1>0, <1>1, <1>2, <1>3, Start_Procs, Attempt_Typed DEF TerminalTypes, NoCharges
<1>5. IdleProc.ref = NoRef /\ DOMAIN IdleProc = ProcFields
  BY DEF IdleProc, ProcFields
<1>6. \A p \in Tills : K(p) = NoRef /\ DOMAIN proc[p] = ProcFields
  BY <1>5, Away_Is, Start_Procs DEF K
<1>7. TerminalInv
  BY <1>0, <1>1, <1>6 DEF Start, NoCharges, TerminalInv, LatchInv, DoneInv, Shapes, Places, StartsAlone,
                          KnownToSquare, LatchHolds, OneRowEach
<1> QED BY <1>4, <1>7

-----------------------------------------------------------------------------
(* Online payments stand for money that came *)

LEMMA OnlineNext_Types ==
    ASSUME OnlineTypes,
           OnlineNext \/ (\E p \in Tills : Crash(p) /\ UNCHANGED onlineVars) \/ UNCHANGED onlineAllVars
    PROVE  OnlineTypes'
<1>1. CASE Step /\ UNCHANGED onlineVars
  BY <1>1, Online_Till DEF Step
<1>2. ASSUME NEW p \in Tills, OnlineStep(p) PROVE OnlineTypes'
  BY <1>2, OnlineStep_Types
<1>3. ASSUME NEW k \in Refs, GuestPays(k) PROVE OnlineTypes'
  BY <1>3, GuestPays_Types
<1>4. ASSUME NEW p \in Tills, Crash(p), UNCHANGED onlineVars PROVE OnlineTypes'
  BY <1>4, Online_Crash
<1>5. CASE UNCHANGED onlineAllVars
  <2>1. UNCHANGED vars /\ UNCHANGED <<session, confirmed, proc, pays>>
    BY <1>5 DEF onlineAllVars, onlineVars, vars
  <2>2. BillTypes' /\ SessionsTyped' /\ RowsPaid'
    BY <2>1, Bill_Stutter, Rows_As_Paid DEF OnlineTypes, SessionsTyped
  <2>3. \A p \in Tills : OnlineKnows(proc[p])'
    BY <2>1 DEF OnlineTypes, OnlineKnows
  <2> QED BY <2>1, <2>2, <2>3 DEF OnlineTypes
<1> QED BY <1>1, <1>2, <1>3, <1>4, <1>5 DEF OnlineNext

\* payConfirm's "verify the session with Stripe": however many guests, tills and
\* crashes there are, every online payment on a bill is of a session that was
\* paid, and bill and tip together are what was received.
THEOREM OnlineIsPaid == CrashingOnlineSpec => []OnlineMeansPaid
<1>1. OnlineInit => OnlineTypes
  <2>1. OnlineInit => Start /\ NoSessions
    <3> SUFFICES ASSUME OnlineInit PROVE Start /\ NoSessions
      OBVIOUS
    <3>1. proc = [p \in Tills |-> IF p \in {} THEN Away ELSE IdleProc]
      BY DEF OnlineInit, Init
    <3> QED BY <3>1 DEF OnlineInit, Init, Start, NoSessions
  <2> QED BY <2>1, Start_Online
<1>2. OnlineTypes /\ [OnlineNext \/ \E p \in Tills : Crash(p) /\ UNCHANGED onlineVars]_onlineAllVars
         => OnlineTypes'
  BY OnlineNext_Types
<1>3. OnlineTypes => OnlineMeansPaid
  BY DEF OnlineTypes, RowsPaid, OnlineMeansPaid
<1> QED BY <1>1, <1>2, <1>3, PTL DEF CrashingOnlineSpec

-----------------------------------------------------------------------------
(* Either tender *)

TendersInv ==
    \/ part = "terminal" /\ TerminalTypes /\ TerminalInv /\ NoSessions
    \/ part = "online" /\ OnlineTypes /\ NoCharges

LEMMA Tenders_Init == TendersInit => TendersInv
<1> SUFFICES ASSUME TendersInit PROVE TendersInv
  OBVIOUS
<1>1. PICK working \in (SUBSET Tills) \ {{}} : proc = [p \in Tills |-> IF p \in working THEN IdleProc ELSE Away]
  BY DEF TendersInit
<1>2. proc = [p \in Tills |-> IF p \in Tills \ working THEN Away ELSE IdleProc]
  BY <1>1
<1>3. Start /\ NoSessions /\ NoCharges
  BY <1>2 DEF TendersInit, Start, NoSessions, NoCharges
<1>4. part \in {"terminal", "online"}
  BY DEF TendersInit
<1> QED BY <1>3, <1>4, Start_Online, Start_Terminal DEF TendersInv

LEMMA Terminal_Stutter == TerminalTypes /\ TerminalInv /\ UNCHANGED allVars => TerminalTypes' /\ TerminalInv'
<1> SUFFICES ASSUME TerminalTypes, TerminalInv, UNCHANGED allVars PROVE TerminalTypes' /\ TerminalInv'
  OBVIOUS
<1>1. UNCHANGED vars /\ UNCHANGED <<attempt, square, heard, proc, pays>>
  BY DEF allVars, terminalVars, vars
<1>2. TerminalTypes'
  BY <1>1, Bill_Stutter DEF TerminalTypes, Knows
<1>3. TerminalInv'
  BY <1>1 DEF TerminalInv, LatchInv, DoneInv, Shapes, Places, StartsAlone, KnownToSquare, LatchHolds,
              OneRowEach, K
<1> QED BY <1>2, <1>3

LEMMA TerminalNext_Types ==
    ASSUME TerminalTypes, TerminalInv, TerminalNext
    PROVE  TerminalTypes' /\ TerminalInv'
<1>1. CASE TillStep
  BY <1>1, Step_Inv, Till_Types DEF TillStep, Step
<1>2. ASSUME NEW p \in Tills, TerminalRequest(p) PROVE TerminalTypes' /\ TerminalInv'
  BY <1>2, TerminalRequest_Inv, Request_Types
<1>3. ASSUME NEW p \in Tills, TerminalStep(p) PROVE TerminalTypes' /\ TerminalInv'
  BY <1>3, TerminalStep_Inv, TerminalStep_Types
<1>4. CASE Outside
  BY <1>4, Outside_Inv, Outside_Types
<1> QED BY <1>1, <1>2, <1>3, <1>4 DEF TerminalNext

LEMMA Tenders_Next == TendersInv /\ [TendersNext]_tenderVars => TendersInv'
<1> SUFFICES ASSUME TendersInv, [TendersNext]_tenderVars PROVE TendersInv'
  OBVIOUS
<1>1. CASE part = "terminal" /\ TerminalNext /\ UNCHANGED <<part, onlineVars>>
  <2>1. NoSessions'
    BY <1>1 DEF TendersInv, NoSessions, onlineVars
  <2> QED BY <1>1, <2>1, TerminalNext_Types DEF TendersInv
<1>2. CASE part = "online" /\ OnlineNext /\ UNCHANGED <<part, terminalVars>>
  <2>1. NoCharges'
    BY <1>2 DEF TendersInv, NoCharges, terminalVars
  <2> QED BY <1>2, <2>1, OnlineNext_Types DEF TendersInv
<1>3. CASE part = "online" /\ (\E p \in Tills : ~At(p, "away") /\ Crash(p))
           /\ UNCHANGED <<part, terminalVars, onlineVars>>
  <2>1. NoCharges'
    BY <1>3 DEF TendersInv, NoCharges, terminalVars
  <2> QED BY <1>3, <2>1, Online_Crash DEF TendersInv
<1>4. CASE UNCHANGED tenderVars
  <2>1. UNCHANGED allVars /\ UNCHANGED onlineAllVars /\ UNCHANGED <<part, terminalVars, onlineVars>>
    BY <1>4 DEF tenderVars, allVars, onlineAllVars
  <2>2. NoCharges => NoCharges'
    BY <2>1 DEF NoCharges, terminalVars
  <2>3. NoSessions => NoSessions'
    BY <2>1 DEF NoSessions, onlineVars
  <2> QED BY <2>1, <2>2, <2>3, OnlineNext_Types, Terminal_Stutter DEF TendersInv
<1> QED BY <1>1, <1>2, <1>3, <1>4 DEF TendersNext

\* The rows of the terminal, of Square and of the online sessions keep their
\* types, a charge is of one unit at least, and a session for an amount.
THEOREM TendersTyped == TendersSpec => []TendersTypeOK
<1>1. TendersInv => TendersTypeOK
  <2> SUFFICES ASSUME TendersInv PROVE TendersTypeOK
    OBVIOUS
  <2>0. 0 \in 0..MaxTip
    BY PosBillAssumption
  <2>1. CASE part = "terminal" /\ TerminalTypes /\ NoSessions
    <3>1. OnlineTypeOK
      <4>1. [status |-> "none", bill |-> NoBill, received |-> 0, tip |-> 0] \in SessionRecord
        BY <2>0 DEF SessionRecord
      <4> QED BY <2>1, <4>1 DEF NoSessions, OnlineTypeOK, TerminalTypes, BillTypes
    <3>2. TerminalTypeOK
      BY <2>1 DEF TerminalTypes, BillTypes, TerminalTypeOK
    <3> QED BY <3>1, <3>2 DEF TendersTypeOK
  <2>2. CASE part = "online" /\ OnlineTypes /\ NoCharges
    <3>1. OnlineTypeOK
      BY <2>2 DEF OnlineTypes, SessionsTyped, BillTypes, OnlineTypeOK
    <3>2. NoAttempt.kind = "none"
      BY DEF NoAttempt
    <3>3. TerminalTypeOK
      BY <2>2, <3>2, Attempt_Typed DEF OnlineTypes, BillTypes, NoCharges, TerminalTypeOK
    <3> QED BY <3>1, <3>3 DEF TendersTypeOK
  <2> QED BY <2>1, <2>2 DEF TendersInv
<1> QED BY <1>1, Tenders_Init, Tenders_Next, PTL DEF TendersSpec

-----------------------------------------------------------------------------
(* A session is recorded once *)

\* The row of a session is on the bill that the session is for, unless that bill
\* is void and everything on it has moved.
RowsAtHome ==
    \A r \in pays : r.ref \in Refs =>
        \/ r.bill = session[r.ref].bill
        \/ bill[session[r.ref].bill].status = "VOID" /\ Of(session[r.ref].bill) = {}

\* What a handler that is about to record a session has seen: no row of it, on
\* the bill at first, then anywhere.  A bill that is about to be open again had
\* a row, so that none of its rows has moved.
NotYet(q) ==
    /\ q.ref \in Refs /\ q.at = "confirm" => \A r \in Of(q.b) : r.ref # q.ref
    /\ q.ref \in Refs /\ q.at \in {"pay", "recRead", "recWrite", "payReread", "record"} =>
          \A r \in pays : r.ref # q.ref
    /\ q.at = "undoStatus" =>
          \A r \in pays : r.ref \in Refs /\ session[r.ref].bill = q.b => r.bill = q.b

OnceInv(p) ==
    /\ OnlineTypes
    /\ AloneInv(p)
    /\ RowsAtHome
    /\ OneRowEach
    /\ NotYet(proc[p])

LEMMA Home_Typed ==
    ASSUME OnlineTypes, NEW r \in pays, r.ref \in Refs
    PROVE  /\ session[r.ref].status = "paid" /\ session[r.ref].bill \in Bills /\ r.bill \in Bills
<1>1. session[r.ref].status = "paid" /\ r \in PaymentRecord
  BY DEF OnlineTypes, RowsPaid, BillTypes, TypeOK
<1> QED BY <1>1 DEF OnlineTypes, SessionsTyped, PaymentRecord

\* What a step of the one till leaves of a row's place.
LEMMA Steady_Home ==
    ASSUME NEW p \in Tills, OnceInv(p), Steady(p), UNCHANGED session
    PROVE  RowsAtHome'
<1> SUFFICES ASSUME NEW r \in pays, r.ref \in Refs
             PROVE  \/ r.bill = session[r.ref].bill
                    \/ bill'[session[r.ref].bill].status = "VOID" /\ Of(session[r.ref].bill)' = {}
  BY DEF RowsAtHome, Steady
<1>1. session[r.ref].bill \in Bills
  BY Home_Typed DEF OnceInv
<1>2. \/ r.bill = session[r.ref].bill
      \/ bill[session[r.ref].bill].status = "VOID" /\ Of(session[r.ref].bill) = {}
  BY DEF OnceInv, RowsAtHome
<1> QED BY <1>1, <1>2 DEF Steady, Of

LEMMA New_Home ==
    ASSUME NEW p \in Tills, OnceInv(p), NewHere(p), UNCHANGED session,
           proc[p].ref \in Refs => session[proc[p].ref].bill = proc[p].b
    PROVE  RowsAtHome'
<1>1. PICK x : NewRow(x) /\ x.bill = proc[p].b /\ x.ref = proc[p].ref
  BY DEF NewHere
<1> SUFFICES ASSUME NEW r \in pays \cup {x}, r.ref \in Refs
             PROVE  \/ r.bill = session[r.ref].bill
                    \/ bill[session[r.ref].bill].status = "VOID" /\ Of(session[r.ref].bill)' = {}
  BY <1>1 DEF RowsAtHome, NewHere, NewRow
<1>2. CASE r = x
  BY <1>1, <1>2
<1>3. CASE r \in pays
  <2>1. \/ r.bill = session[r.ref].bill
        \/ bill[session[r.ref].bill].status = "VOID" /\ Of(session[r.ref].bill) = {}
    BY <1>3 DEF OnceInv, RowsAtHome
  <2>2. bill[session[r.ref].bill].status = "VOID" => session[r.ref].bill # proc[p].b
    BY DEF NewHere
  <2> QED BY <1>1, <2>1, <2>2 DEF Of, NewRow
<1> QED BY <1>2, <1>3

LEMMA Fewer_Home ==
    ASSUME NEW p \in Tills, OnceInv(p), pays' \subseteq pays, UNCHANGED <<session, bill>>
    PROVE  RowsAtHome'
BY DEF OnceInv, RowsAtHome, Of

LEMMA Open_Home ==
    ASSUME NEW p \in Tills, OnceInv(p), NEW b \in Bills, OnlyBill(b), UNCHANGED <<session, pays>>,
           \A r \in pays : r.ref \in Refs /\ session[r.ref].bill = b => r.bill = b
    PROVE  RowsAtHome'
<1> SUFFICES ASSUME NEW r \in pays, r.ref \in Refs
             PROVE  \/ r.bill = session[r.ref].bill
                    \/ bill'[session[r.ref].bill].status = "VOID" /\ Of(session[r.ref].bill)' = {}
  BY DEF RowsAtHome
<1>1. session[r.ref].bill \in Bills
  BY Home_Typed DEF OnceInv
<1>2. \/ r.bill = session[r.ref].bill
      \/ bill[session[r.ref].bill].status = "VOID" /\ Of(session[r.ref].bill) = {}
  BY DEF OnceInv, RowsAtHome
<1> QED BY <1>1, <1>2 DEF OnlyBill, Of

LEMMA Merge_Home ==
    ASSUME NEW p \in Tills, OnceInv(p), MergeOrders(p), UNCHANGED session
    PROVE  RowsAtHome' /\ OneRowEach'
<1> DEFINE t == proc[p].b
           s == proc[p].other
<1>0. BillTypes /\ Stands(proc[p])
  BY DEF OnceInv, AloneInv
<1>1. /\ proc[p].at = "merge" /\ t \in Bills /\ s \in Bills /\ t # s /\ MovedRows(t, s)
      /\ \A c \in Bills \ {t, s} : bill'[c] = bill[c]
      /\ bill'[s].status = "VOID"
  BY <1>0, MergeOrders_Does DEF B
<1>2. bill[t].status = "OPEN" /\ bill[s].status = "OPEN"
  BY <1>0, <1>1 DEF Stands
<1> HIDE DEF t, s
<1>3. PICK h : /\ pays' = {h[r] : r \in pays}
               /\ \A r \in pays : h[r].ref = r.ref /\ h[r].bill = IF r.bill = s THEN t ELSE r.bill
  BY <1>0, <1>1, Merge_Map
<1>4. RowsAtHome'
  <2> SUFFICES ASSUME NEW x \in pays', x.ref \in Refs
               PROVE  \/ x.bill = session[x.ref].bill
                      \/ bill'[session[x.ref].bill].status = "VOID" /\ Of(session[x.ref].bill)' = {}
    BY DEF RowsAtHome
  <2>1. PICK r \in pays : x = h[r]
    BY <1>3
  <2>2. x.ref = r.ref /\ x.bill = IF r.bill = s THEN t ELSE r.bill
    BY <1>3, <2>1
  <2>3. PICK a \in Bills : a = session[x.ref].bill
    BY <2>2, Home_Typed DEF OnceInv
  <2>4. r.bill = a \/ (bill[a].status = "VOID" /\ Of(a) = {})
    BY <2>2, <2>3 DEF OnceInv, RowsAtHome
  <2>5. \A c \in Bills : c = s \/ (c # t /\ Of(c) = {}) => {y \in pays' : y.bill = c} = {}
    <3> SUFFICES ASSUME NEW c \in Bills, c = s \/ (c # t /\ Of(c) = {}), NEW y \in pays', y.bill = c
                 PROVE  FALSE
      OBVIOUS
    <3>1. PICK z \in pays : y = h[z]
      BY <1>3
    <3> QED BY <1>1, <1>3, <3>1 DEF Of
  <2>6. \A c \in Bills : c = s \/ (c # t /\ Of(c) = {}) => Of(c)' = {}
    BY <2>5 DEF Of
  <2>7. CASE a = s
    BY <1>1, <2>3, <2>6, <2>7
  <2>8. CASE a # s /\ r.bill = a
    BY <2>2, <2>3, <2>8
  <2>9. CASE a # s /\ bill[a].status = "VOID" /\ Of(a) = {}
    <3>1. a # t
      BY <1>2, <2>9
    <3>2. bill'[a] = bill[a] /\ Of(a)' = {}
      BY <1>1, <2>3, <2>6, <2>9, <3>1
    <3> QED BY <2>3, <2>9, <3>2
  <2> QED BY <2>4, <2>7, <2>8, <2>9
<1>5. OneRowEach'
  <2> SUFFICES ASSUME NEW x \in pays', NEW y \in pays', x.ref \in Refs, x.ref = y.ref PROVE x = y
    BY DEF OneRowEach
  <2>1. PICK r \in pays, u \in pays : x = h[r] /\ y = h[u]
    BY <1>3
  <2>2. r = u
    BY <1>3, <2>1 DEF OnceInv, OneRowEach
  <2> QED BY <2>1, <2>2
<1> QED BY <1>4, <1>5

\* The places where a handler has seen that a session has no row.
Seen == {"recRead", "recWrite", "payReread", "record"}

\* A step of the register keeps to what its handler is about.
LEMMA Step_Seen ==
    ASSUME NEW p \in Tills, OnceInv(p), StepOf(p)
    PROVE  proc'[p].ref \in Refs =>
              /\ proc'[p].ref = proc[p].ref /\ proc[p].at \in PayPath
              /\ proc'[p].at \notin {"session", "existing", "confirm", "pay"}
              /\ proc'[p].at \in Seen => proc[p].at \in Seen /\ proc[p].at # "record"
<1>0. /\ BillTypes /\ proc[p] \in ProcRecord /\ OnlineKnows(proc[p]) /\ NoRef \notin Refs
      /\ Own(p) /\ proc[p].back \in {"idle", "payReread", "splitNext"}
  BY PosBillAssumption, Here, Step_Own, ProcFields_Typed DEF OnceInv, OnlineTypes
<1> SUFFICES ASSUME proc'[p].ref \in Refs
             PROVE  /\ proc'[p].ref = proc[p].ref /\ proc[p].at \in PayPath
                    /\ proc'[p].at \notin {"session", "existing", "confirm", "pay"}
                    /\ proc'[p].at \in Seen => proc[p].at \in Seen /\ proc[p].at # "record"
  OBVIOUS
<1>1. proc'[p].ref = proc[p].ref /\ (Follows(proc[p], proc'[p]) \/ proc'[p] = proc[p])
  BY <1>0 DEF Own, Plain, Follows
<1>2. proc[p].at \notin OnlinePlaces
  <2>1. proc[p].at = "idle" \/ proc[p].at \in BillPlaces
    BY DEF StepOf, RingUp, SettleUp, LineStep, PayStep, ReverseStep, CreateOrder, SetLinesRead,
           AddGiftCardSaleRead, SplitRead, MergeRead, RemoveGiftCardSaleRead, PayOrder, RefundOrder,
           VoidRead, ReopenRead, UndoRead, SetLines, AddGiftCardSale, RemoveGiftCardSale, SyncRead,
           SyncClear, SyncCreate, RecomputeRead, RecomputeWrite, MergeOrders, SplitChild, SplitVoid,
           PayReread, Debit, Record, SetStatus, IssueList, IssueNext, IssueMark, UndoDelete, UndoStatus,
           VoidOrder, ReopenOrder, Refund, RefundCards, Idle, At, BillPlaces
  <2> QED BY <2>1, Online_Places
<1>3. /\ proc[p].then = "paid" /\ proc[p].catch = "idle" /\ proc[p].at \in PayPath /\ proc[p].at # "paid"
      /\ proc[p].at # "session" /\ proc[p].method = "ONLINE"
      /\ proc[p].at \in {"recRead", "recWrite"} => proc[p].back = "payReread"
  <2>1. proc[p].then = "paid" /\ proc[p].at # "session" /\ proc[p].at # "paid"
    BY <1>0, <1>1, <1>2 DEF OnlineKnows, OnlinePlaces
  <2> QED BY <1>0, <1>1, <2>1 DEF OnlineKnows
<1>4. proc[p].method \notin Wallets /\ proc'[p].at # "idle"
  <2>1. Follows(proc[p], proc'[p]) => proc'[p].at # "idle"
    BY DEF Follows, BillPlaces
  <2> QED BY <1>1, <1>3, <2>1 DEF PayPath, Wallets
<1>5. /\ proc'[p].at \in PayPath \cup {"paid"}
      /\ proc'[p].at = "record" => proc[p].at = "payReread"
      /\ proc'[p].at \in {"recRead", "recWrite", "payReread"} => proc[p].at \in {"recRead", "recWrite"}
  BY <1>0, <1>3, <1>4, Pay_Path
<1> QED BY <1>1, <1>3, <1>5 DEF PayPath, Seen

LEMMA Step_NotYet ==
    ASSUME NEW p \in Tills, OnceInv(p), StepOf(p), UNCHANGED session
    PROVE  NotYet(proc[p])'
<1>0. BillTypes /\ Stands(proc[p]) /\ NotYet(proc[p])
  BY DEF OnceInv, AloneInv
<1>1. Steady(p) \/ NewHere(p) \/ UndoDelete(p) \/ UndoStatus(p) \/ MergeOrders(p)
  BY <1>0, Step_Sorts
<1>2. proc'[p].ref \in Refs =>
         /\ proc'[p].ref = proc[p].ref /\ proc[p].at \in PayPath
         /\ proc'[p].at \notin {"confirm", "pay"}
         /\ proc'[p].at \in Seen => proc[p].at \in Seen /\ proc[p].at # "record"
  BY Step_Seen
<1>3. ASSUME proc'[p].ref \in Refs, proc'[p].at \in Seen
      PROVE  \A r \in pays' : r.ref # proc'[p].ref
  <2>1. \A r \in pays : r.ref # proc[p].ref
    BY <1>0, <1>2, <1>3 DEF NotYet, Seen
  <2>2. ~NewHere(p)
    BY <1>3 DEF NewHere, Seen
  <2>3. ~MergeOrders(p)
    BY <1>2, <1>3 DEF MergeOrders, At, PayPath
  <2>4. pays' \subseteq pays
    BY <1>1, <2>2, <2>3 DEF Steady, UndoDelete, UndoStatus
  <2> QED BY <1>2, <1>3, <2>1, <2>4
<1>4. ASSUME proc'[p].at = "undoStatus", NEW r \in pays', r.ref \in Refs, session[r.ref].bill = proc'[p].b
      PROVE  r.bill = proc'[p].b
  <2>1. ~Steady(p) /\ ~NewHere(p)
    BY <1>4 DEF Steady, NewHere
  <2>2. ~MergeOrders(p)
    BY <1>0, <1>4, MergeOrders_Does DEF GoesTo
  <2>3. ~UndoStatus(p)
    BY <1>0, <1>4, UndoStatus_Does, Ends_Places
  <2>4. UndoDelete(p)
    BY <1>1, <2>1, <2>2, <2>3
  <2>5. /\ proc[p].at = "undoDelete" /\ pays' \subseteq pays
        /\ GoesTo(p, "undoStatus") \/ Ends(p, proc[p].catch)
    BY <1>0, <2>4, UndoDelete_Does
  <2>6. proc'[p].b = proc[p].b
    BY <1>0, <1>4, <2>5, Ends_Places DEF GoesTo, Keeps
  <2>7. PICK x \in pays : x.bill = proc[p].b
    BY <1>0, <2>5 DEF Stands
  <2>8. r \in pays /\ Of(proc[p].b) # {}
    BY <2>5, <2>7 DEF Of
  <2> QED BY <1>4, <2>6, <2>8 DEF OnceInv, RowsAtHome
<1>5. proc'[p].ref \in Refs => proc'[p].at \notin {"confirm", "pay"}
  BY <1>2
<1> QED BY <1>3, <1>4, <1>5 DEF NotYet, Seen

LEMMA Step_Rows_Once ==
    ASSUME NEW p \in Tills, OnceInv(p), StepOf(p), UNCHANGED session
    PROVE  RowsAtHome' /\ OneRowEach'
<1>0. BillTypes /\ Stands(proc[p]) /\ NotYet(proc[p]) /\ OnlineKnows(proc[p]) /\ OneRowEach
  BY DEF OnceInv, AloneInv, OnlineTypes
<1>1. CASE Steady(p)
  BY <1>0, <1>1, Steady_Home DEF Steady, OneRowEach
<1>2. CASE NewHere(p)
  <2>0. proc[p].at \in {"record", "refund"}
    BY <1>2 DEF NewHere
  <2>1. proc[p].ref \in Refs => session[proc[p].ref].bill = proc[p].b /\ proc[p].at = "record"
    BY <1>0, <2>0 DEF OnlineKnows, OnlinePlaces, PayPath
  <2>2. RowsAtHome'
    BY <1>2, <2>1, New_Home
  <2>3. PICK x : NewRow(x) /\ x.ref = proc[p].ref
    BY <1>2 DEF NewHere
  <2>4. x.ref \in Refs => \A r \in pays : r.ref # x.ref
    BY <1>0, <2>1, <2>3 DEF NotYet
  <2> QED BY <1>0, <2>2, <2>3, <2>4 DEF NewRow, OneRowEach
<1>3. CASE UndoDelete(p)
  <2>1. pays' \subseteq pays /\ UNCHANGED bill
    BY <1>0, <1>3, UndoDelete_Does
  <2> QED BY <1>0, <2>1, Fewer_Home DEF OneRowEach
<1>4. CASE UndoStatus(p)
  <2>1. proc[p].at = "undoStatus" /\ proc[p].b \in Bills /\ OnlyBill(proc[p].b) /\ UNCHANGED pays
    BY <1>0, <1>4, UndoStatus_Does DEF B
  <2> QED BY <1>0, <2>1, Open_Home DEF NotYet, OneRowEach
<1>5. CASE MergeOrders(p)
  BY <1>5, Merge_Home
<1> QED BY <1>0, <1>1, <1>2, <1>3, <1>4, <1>5, Step_Sorts

LEMMA Step_Once ==
    ASSUME NEW p \in Tills, OnceInv(p), StepOf(p), UNCHANGED onlineVars
    PROVE  OnceInv(p)'
<1>1. UNCHANGED session /\ AloneInv(p) /\ OnlineTypes
  BY DEF onlineVars, OnceInv
<1>2. OnlineTypes' /\ BillTypes'
  BY <1>1, Online_Till DEF OnlineTypes
<1>3. Alone(p)' /\ Stands(proc[p])' /\ Unopened'
  BY <1>1, Step_Stands
<1>4. RowsAtHome' /\ OneRowEach' /\ NotYet(proc[p])'
  BY <1>1, Step_NotYet, Step_Rows_Once
<1> QED BY <1>2, <1>3, <1>4 DEF OnceInv, AloneInv

\* The handler moves; the register and the sessions that have rows stay.
LEMMA Quiet_Once ==
    ASSUME NEW p \in Tills, OnceInv(p), OnlineTypes', Others(p), UNCHANGED billVars,
           \A r \in pays : r.ref \in Refs => session'[r.ref].bill = session[r.ref].bill,
           Stands(proc[p])', NotYet(proc[p])'
    PROVE  OnceInv(p)'
<1>1. UNCHANGED <<bill, pays, sale>> /\ AloneInv(p) /\ Alone(p) /\ Unopened
  BY DEF billVars, OnceInv, AloneInv
<1>2. Alone(p)' /\ Unopened'
  BY <1>1, Alone_Keeps, Unopened_Same
<1>3. BillTypes'
  BY DEF OnlineTypes
<1>4. OneRowEach'
  BY <1>1 DEF OnceInv, OneRowEach
<1>5. RowsAtHome'
  <2> SUFFICES ASSUME NEW r \in pays, r.ref \in Refs
               PROVE  \/ r.bill = session'[r.ref].bill
                      \/ bill[session'[r.ref].bill].status = "VOID" /\ Of(session[r.ref].bill)' = {}
    BY <1>1 DEF RowsAtHome
  <2>1. session'[r.ref].bill = session[r.ref].bill
    OBVIOUS
  <2>2. \/ r.bill = session[r.ref].bill
        \/ bill[session[r.ref].bill].status = "VOID" /\ Of(session[r.ref].bill) = {}
    BY DEF OnceInv, RowsAtHome
  <2> QED BY <1>1, <2>1, <2>2 DEF Of
<1> QED BY <1>2, <1>3, <1>4, <1>5 DEF OnceInv, AloneInv

LEMMA Rests_NotYet ==
    ASSUME NEW p \in Tills, proc'[p] = IdleProc
    PROVE  NotYet(proc[p])'
<1>1. proc'[p].at = "idle"
  BY Idle_Fields
<1> QED BY <1>1 DEF NotYet

LEMMA OnlineStep_Once ==
    ASSUME NEW p \in Tills, OnceInv(p), OnlineStep(p)
    PROVE  OnceInv(p)'
<1>0. /\ OnlineTypes /\ OnlineTypes' /\ BillTypes /\ proc \in [Tills -> ProcRecord] /\ proc[p] \in ProcRecord
      /\ OnlineKnows(proc[p]) /\ NotYet(proc[p]) /\ SessionsTyped /\ RowsPaid
  BY OnlineStep_Types, Here DEF OnceInv, OnlineTypes
<1>1. ASSUME NEW k \in Refs, NEW b \in Bills, NEW tip \in 0..MaxTip, PayIntent(p, b, k, tip)
      PROVE  OnceInv(p)'
  <2> DEFINE n == Balance(b)
             rec == [IdleProc EXCEPT !.at = "session", !.b = b, !.ref = k, !.want = n, !.tip = tip]
  <2>1. proc' = [proc EXCEPT ![p] = rec] /\ UNCHANGED <<billVars, session>>
    BY <1>1 DEF PayIntent, onlineVars
  <2>2. rec.at = "session" /\ rec.back = "idle"
    BY DEF IdleProc
  <2> HIDE DEF rec
  <2>3. Others(p) /\ proc'[p] = rec
    BY <1>0, <2>1, Set_Does
  <2>4. Stands(proc[p])' /\ NotYet(proc[p])'
    BY <2>2, <2>3 DEF Stands, Backs, BillPlaces, NotYet
  <2> QED BY <1>0, <2>1, <2>3, <2>4, Quiet_Once
<1>2. ASSUME NEW k \in Refs, PayConfirm(p, k) PROVE OnceInv(p)'
  <2> DEFINE b == session[k].bill
             rec == [IdleProc EXCEPT !.at = "existing", !.b = b, !.ref = k, !.method = "ONLINE"]
  <2>1. proc' = [proc EXCEPT ![p] = rec] /\ UNCHANGED <<billVars, session>>
    BY <1>2 DEF PayConfirm, onlineVars
  <2>2. rec.at = "existing" /\ rec.back = "idle"
    BY DEF IdleProc
  <2> HIDE DEF rec
  <2>3. Others(p) /\ proc'[p] = rec
    BY <1>0, <2>1, Set_Does
  <2>4. Stands(proc[p])' /\ NotYet(proc[p])'
    BY <2>2, <2>3 DEF Stands, Backs, BillPlaces, NotYet
  <2> QED BY <1>0, <2>1, <2>3, <2>4, Quiet_Once
<1>3. CASE CreateSession(p)
  <2>1. /\ proc[p].at = "session" /\ Return(p) /\ UNCHANGED billVars
        /\ \A k \in Refs : k # proc[p].ref => session'[k] = session[k]
    BY <1>0, <1>3 DEF CreateSession, At, SessionsTyped
  <2>2. proc[p].then = "idle" /\ session[proc[p].ref].status = "none"
    BY <1>0, <2>1 DEF OnlineKnows, OnlinePlaces
  <2>3. Others(p) /\ proc'[p] = IdleProc
    BY <1>0, <2>1, <2>2, GoOrIdle_Does DEF Return, Ends, Rests
  <2>4. \A r \in pays : r.ref \in Refs => r.ref # proc[p].ref
    BY <1>0, <2>2 DEF RowsPaid
  <2> QED BY <1>0, <2>1, <2>3, <2>4, Quiet_Once, Rests_Stands, Rests_NotYet
<1>4. CASE LookForExisting(p)
  <2>1. /\ proc[p].at = "existing" /\ UNCHANGED <<billVars, session>> /\ B(p) = proc[p].b
        /\ Return(p) \/ (Goto(p, "confirm") /\ \A r \in Of(proc[p].b) : r.ref # proc[p].ref)
    BY <1>4 DEF LookForExisting, At, B
  <2>2. proc[p].then = "idle" /\ proc[p].back = "idle"
    BY <1>0, <2>1 DEF OnlineKnows, OnlinePlaces
  <2>3. CASE Return(p)
    <3>1. Others(p) /\ proc'[p] = IdleProc
      BY <1>0, <2>2, <2>3, GoOrIdle_Does DEF Return, Ends, Rests
    <3> QED BY <1>0, <2>1, <3>1, Quiet_Once, Rests_Stands, Rests_NotYet
  <2>4. CASE Goto(p, "confirm") /\ \A r \in Of(proc[p].b) : r.ref # proc[p].ref
    <3>1. GoesTo(p, "confirm")
      BY <1>0, <2>4, Goto_Does
    <3>2. /\ Others(p) /\ proc'[p].at = "confirm" /\ proc'[p].b = proc[p].b
          /\ proc'[p].ref = proc[p].ref /\ proc'[p].back = "idle" /\ pays' = pays
      BY <2>1, <2>2, <3>1 DEF GoesTo, Keeps, billVars
    <3>3. NotYet(proc[p])'
      BY <2>4, <3>2 DEF NotYet, Of
    <3>4. Stands(proc[p])'
      BY <3>2 DEF Stands, Backs, BillPlaces
    <3> QED BY <1>0, <2>1, <3>2, <3>3, <3>4, Quiet_Once
  <2> QED BY <2>1, <2>3, <2>4
<1>5. CASE Decided(p)
  <2> DEFINE s == session[proc[p].ref]
             n == AmountOf(Balance(B(p)), s.received, s.tip)
             m == s.received - n
             rec == [proc[p] EXCEPT !.at = "pay", !.want = n, !.tip = m]
  <2>1. /\ proc[p].at = "confirm" /\ UNCHANGED <<billVars, session>> /\ B(p) = proc[p].b
        /\ \/ Return(p)
           \/ bill[proc[p].b].status = "OPEN" /\ proc' = [proc EXCEPT ![p] = rec]
    BY <1>0, <1>5 DEF Decided, At, B
  <2>2. /\ proc[p].then = "idle" /\ proc[p].back = "idle" /\ proc[p].ref \in Refs
        /\ session[proc[p].ref].bill = proc[p].b
    BY <1>0, <2>1 DEF OnlineKnows, OnlinePlaces
  <2>3. CASE Return(p)
    <3>1. Others(p) /\ proc'[p] = IdleProc
      BY <1>0, <2>2, <2>3, GoOrIdle_Does DEF Return, Ends, Rests
    <3> QED BY <1>0, <2>1, <3>1, Quiet_Once, Rests_Stands, Rests_NotYet
  <2>4. CASE bill[proc[p].b].status = "OPEN" /\ proc' = [proc EXCEPT ![p] = rec]
    <3>1. rec.at = "pay" /\ rec.ref = proc[p].ref /\ rec.back = proc[p].back
      BY <1>0 DEF ProcRecord
    <3> HIDE DEF rec
    <3>2. Others(p) /\ proc'[p] = rec
      BY <1>0, <2>4, Set_Does
    <3>3. \A r \in pays : r.ref # proc[p].ref
      BY <1>0, <2>1, <2>2, <2>4 DEF NotYet, OnceInv, RowsAtHome, Of
    <3>4. NotYet(proc[p])'
      BY <2>1, <3>1, <3>2, <3>3 DEF NotYet, billVars
    <3>5. Stands(proc[p])'
      BY <2>2, <3>1, <3>2 DEF Stands, Backs, BillPlaces
    <3> QED BY <1>0, <2>1, <3>2, <3>4, <3>5, Quiet_Once
  <2> QED BY <2>1, <2>3, <2>4
<1>6. CASE Pay(p)
  <2> DEFINE q == [proc[p] EXCEPT !.then = "paid"]
  <2>1. proc[p].at = "pay" /\ proc' = [proc EXCEPT ![p] = TakePayment(q)] /\ UNCHANGED <<billVars, session>>
    BY <1>0, <1>6 DEF Pay, At, onlineVars
  <2>2. /\ proc[p].back = "idle" /\ proc[p].ref \in Refs /\ proc[p].catch = "idle"
    BY <1>0, <2>1 DEF OnlineKnows, OnlinePlaces
  <2>3. q \in ProcRecord /\ q.b = proc[p].b /\ q.back = "idle" /\ q.catch = "idle" /\ q.ref = proc[p].ref
    BY <1>0, <2>2 DEF ProcRecord
  <2>4. q.b \in Bills
    BY <1>0, <2>1, <2>3, Here DEF Fit
  <2> HIDE DEF q
  <2>5. \/ proc'[p] = IdleProc
        \/ SameRequest(q, proc'[p]) /\ Paying(p, q.b)
    BY <1>0, <2>1, <2>3, <2>4, Taking_Does
  <2>6. Others(p)
    BY <1>0, <2>1, <2>3, <2>4, Set_Does
  <2>7. CASE proc'[p] = IdleProc
    BY <1>0, <2>1, <2>6, <2>7, Quiet_Once, Rests_Stands, Rests_NotYet
  <2>8. CASE SameRequest(q, proc'[p]) /\ Paying(p, q.b)
    <3>1. Stands(proc[p])'
      BY <1>0, <2>1, <2>4, <2>8, Paying_Stands DEF billVars
    <3>2. proc'[p].ref = proc[p].ref /\ proc'[p].at \in {"recRead", "debit", "record"}
      BY <2>3, <2>8 DEF SameRequest, Paying, DecidedOn
    <3>3. \A r \in pays : r.ref # proc[p].ref
      BY <1>0, <2>1, <2>2 DEF NotYet
    <3>4. NotYet(proc[p])'
      BY <2>1, <3>2, <3>3 DEF NotYet, billVars
    <3> QED BY <1>0, <2>1, <2>6, <3>1, <3>4, Quiet_Once
  <2> QED BY <2>5, <2>7, <2>8
<1>7. CASE PaidOk(p)
  <2>1. proc' = [proc EXCEPT ![p] = IdleProc] /\ UNCHANGED <<billVars, session>>
    BY <1>7 DEF PaidOk
  <2>2. Others(p) /\ proc'[p] = IdleProc
    BY <1>0, <2>1, Set_Does
  <2> QED BY <1>0, <2>1, <2>2, Quiet_Once, Rests_Stands, Rests_NotYet
<1> QED BY <1>1, <1>2, <1>3, <1>4, <1>5, <1>6, <1>7 DEF OnlineStep

-----------------------------------------------------------------------------
(* The terminal's own steps, field by field *)

\* A handler that books what Square is done with.
BookedAs(p) ==
    /\ Others(p) /\ proc'[p].ref = proc[p].ref /\ proc'[p].method = proc[p].method
    /\ proc'[p].then = "booked" /\ proc'[p].catch = "notBooked"
    /\ proc'[p].at \in {"notBooked", "recRead", "record", "refund"}
    /\ proc'[p].back = IF proc'[p].at = "recRead" THEN "payReread" ELSE "idle"

LEMMA Book_Does ==
    ASSUME TerminalTypes, TerminalInv, NEW p \in Tills, Book(p)
    PROVE  BookedAs(p) /\ proc[p].at = "book" /\ UNCHANGED <<billVars, attempt, square>>
<1>0. /\ BillTypes /\ proc[p] \in ProcRecord /\ Knows(proc[p])
      /\ attempt \in [Refs -> AttemptRecord] /\ square \in [Refs -> SquareRecord]
  BY Here DEF TerminalTypes
<1> DEFINE q == [IdleProc EXCEPT !.b = attempt[K(p)].bill, !.ref = K(p), !.method = proc[p].method,
                                 !.want = attempt[K(p)].amt, !.then = "booked", !.catch = "notBooked"]
<1>1. proc[p].at = "book" /\ UNCHANGED <<billVars, attempt, square>>
  BY DEF Book, At, terminalVars
<1>2. PICK tip \in TipsOf(K(p)) :
         proc' = [proc EXCEPT ![p] =
            IF attempt[K(p)].kind = "refund" THEN TakeRefund(q) ELSE TakePayment([q EXCEPT !.tip = tip])]
  BY DEF Book
<1>3. K(p) \in Refs /\ proc[p].method \in {"SQUARE_TERMINAL", "REFUND"} /\ attempt[K(p)].kind # "none"
  BY <1>0, <1>1 DEF Knows, K, TerminalInv, LatchInv, StartsAlone, Starting
<1>4. attempt[K(p)].bill \in Bills /\ attempt[K(p)].amt \in Nat /\ tip \in Nat
  <2>1. attempt[K(p)] \in AttemptRecord /\ square[K(p)] \in SquareRecord
    BY <1>0, <1>3
  <2> QED BY <1>2, <1>3, <2>1 DEF AttemptRecord, SquareRecord, TipsOf, TerminalTypes
<1>5. /\ q \in ProcRecord /\ q.b \in Bills /\ q.back = "idle" /\ q.doing = {} /\ q.kids = {}
      /\ q.ref = proc[p].ref /\ q.method = proc[p].method /\ q.then = "booked" /\ q.catch = "notBooked"
  BY <1>0, <1>3, <1>4, Idle_Typed DEF ProcRecord, IdleProc, K
<1> HIDE DEF q
<1> DEFINE t == [q EXCEPT !.tip = tip]
<1>6. /\ t \in ProcRecord /\ t.b \in Bills /\ t.back = "idle"
      /\ t.ref = proc[p].ref /\ t.method = proc[p].method /\ t.then = "booked" /\ t.catch = "notBooked"
  BY <1>4, <1>5 DEF ProcRecord
<1> HIDE DEF t
<1>7. proc[p].method \notin Wallets
  BY <1>3 DEF Wallets
<1>8. CASE proc' = [proc EXCEPT ![p] = TakeRefund(q)]
  <2>1. /\ Others(p) /\ SameRequest(q, proc'[p]) /\ proc'[p].back = "idle"
        /\ proc'[p].at \in {"notBooked", "refund"}
    BY <1>0, <1>5, <1>8, Refunding_Does
  <2> QED BY <1>1, <1>5, <2>1 DEF SameRequest, BookedAs
<1>9. CASE proc' = [proc EXCEPT ![p] = TakePayment(t)]
  <2>1. /\ Others(p) /\ SameRequest(t, proc'[p])
        /\ (proc'[p].at = "notBooked" /\ proc'[p].back = "idle") \/ Paying(p, t.b)
    BY <1>0, <1>6, <1>9, Taking_Does
  <2>2. proc'[p].method = proc[p].method
    BY <1>6, <2>1 DEF SameRequest
  <2> QED BY <1>1, <1>6, <1>7, <2>1, <2>2 DEF SameRequest, BookedAs, Paying, DecidedOn
<1> QED BY <1>2, <1>8, <1>9 DEF t

\* What the handler moves on with; every step but Book.
Goes(p) ==
    /\ Others(p)
    /\ \/ proc'[p] = IdleProc
       \/ Keeps(proc[p], proc'[p])

LEMMA Goto_Goes ==
    ASSUME BillTypes, NEW p \in Tills, NEW w, Goto(p, w)
    PROVE  Goes(p) /\ proc'[p].at = w /\ Keeps(proc[p], proc'[p])
BY Goto_Does DEF Goes, GoesTo

LEMMA GoOrIdle_Goes ==
    ASSUME BillTypes, NEW p \in Tills, NEW w, GoOrIdle(p, w)
    PROVE  Goes(p) /\ IF w = "idle" THEN proc'[p] = IdleProc ELSE proc'[p].at = w
BY GoOrIdle_Does DEF Goes, Ends, Rests, GoesTo

LEMMA TerminalStep_Goes ==
    ASSUME TerminalTypes, TerminalInv, NEW p \in Tills, TerminalStep(p)
    PROVE  Goes(p) \/ Book(p)
<1>0. BillTypes
  BY DEF TerminalTypes
<1>1. CASE Return(p) \/ Throw(p)
  BY <1>0, <1>1, GoOrIdle_Goes DEF Return, Throw
<1>2. CASE \E w \in Stops : Goto(p, w)
  BY <1>0, <1>2, Goto_Goes
<1>3. CASE proc' = [proc EXCEPT ![p] = IdleProc]
  BY <1>0, <1>3, Set_Does DEF Goes
<1>4. {"toSquare", "row", "claim", "writeStatus", "book", "ask"} \subseteq Stops
  BY Places_Known
<1> QED BY <1>1, <1>2, <1>3, <1>4 DEF TerminalStep, LookInFlight, ToSquare, WriteRow, AskSquare, WriteStatus,
                                      Claim, Booked, NotBooked, CancelOnSquare

LEMMA Request_Goes ==
    ASSUME TerminalTypes, NEW p \in Tills, TerminalRequest(p)
    PROVE  /\ Others(p) /\ proc[p].at = "idle" /\ UNCHANGED <<billVars, attempt>>
           /\ proc'[p].method \in {"SQUARE_TERMINAL", "REFUND"} /\ proc'[p].at \in {"inFlight", "ask", "cancel"}
<1>0. BillTypes
  BY DEF TerminalTypes
<1>1. ASSUME NEW k \in Refs, NEW b \in Bills, NEW want \in 0..MaxGoods, NEW tip \in 0..MaxTip,
             StartCheckout(p, b, k, want, tip)
      PROVE  /\ Others(p) /\ proc[p].at = "idle" /\ UNCHANGED <<billVars, attempt>>
             /\ proc'[p].method \in {"SQUARE_TERMINAL", "REFUND"} /\ proc'[p].at \in {"inFlight", "ask", "cancel"}
  <2> DEFINE balance == bill[b].total - Paid(Of(b))
             amount == IF want = 0 THEN balance ELSE want
             rec == [IdleProc EXCEPT !.at = "inFlight", !.b = b, !.ref = k, !.method = "SQUARE_TERMINAL",
                                     !.amt = amount, !.tip = tip]
  <2>1. rec.method = "SQUARE_TERMINAL" /\ rec.at = "inFlight"
    BY DEF IdleProc
  <2>2. proc' = [proc EXCEPT ![p] = rec] /\ proc[p].at = "idle" /\ UNCHANGED <<billVars, attempt>>
    BY <1>1 DEF StartCheckout, Idle, At, terminalVars
  <2> HIDE DEF rec
  <2> QED BY <1>0, <2>1, <2>2, Set_Does
<1>2. ASSUME NEW k \in Refs, NEW b \in Bills, NEW want \in 0..MaxGoods, NEW of \in Refs,
             StartRefund(p, b, k, of, want)
      PROVE  /\ Others(p) /\ proc[p].at = "idle" /\ UNCHANGED <<billVars, attempt>>
             /\ proc'[p].method \in {"SQUARE_TERMINAL", "REFUND"} /\ proc'[p].at \in {"inFlight", "ask", "cancel"}
  <2> DEFINE amount == IF want = 0 THEN Refundable(b, of) ELSE want
             rec == [IdleProc EXCEPT !.at = "inFlight", !.b = b, !.ref = k, !.method = "REFUND",
                                     !.amt = amount]
  <2>1. rec.method = "REFUND" /\ rec.at = "inFlight"
    BY DEF IdleProc
  <2>2. proc' = [proc EXCEPT ![p] = rec] /\ proc[p].at = "idle" /\ UNCHANGED <<billVars, attempt>>
    BY <1>2 DEF StartRefund, Idle, At
  <2> HIDE DEF rec
  <2> QED BY <1>0, <2>1, <2>2, Set_Does
<1>3. ASSUME NEW k \in Refs, Poll(p, k) \/ CancelCheckout(p, k)
      PROVE  /\ Others(p) /\ proc[p].at = "idle" /\ UNCHANGED <<billVars, attempt>>
             /\ proc'[p].method \in {"SQUARE_TERMINAL", "REFUND"} /\ proc'[p].at \in {"inFlight", "ask", "cancel"}
  <2> DEFINE rec == PollOf(k)
             c == [PollOf(k) EXCEPT !.at = "cancel"]
  <2>1. /\ rec.method \in {"SQUARE_TERMINAL", "REFUND"} /\ c.method \in {"SQUARE_TERMINAL", "REFUND"}
        /\ rec.at = "ask" /\ c.at = "cancel"
    BY DEF IdleProc, PollOf
  <2>2. /\ proc' = [proc EXCEPT ![p] = rec] \/ proc' = [proc EXCEPT ![p] = c]
        /\ proc[p].at = "idle" /\ UNCHANGED <<billVars, attempt>>
    BY <1>3 DEF Poll, CancelCheckout, Idle, At, terminalVars
  <2> HIDE DEF rec, c
  <2> QED BY <1>0, <2>1, <2>2, Set_Does
<1> QED BY <1>1, <1>2, <1>3 DEF TerminalRequest

-----------------------------------------------------------------------------
(* Nothing is paid on the phone where only the terminal is used *)

Offline == (\A p \in Tills : proc[p].method # "ONLINE") /\ (\A r \in pays : r.method # "ONLINE")

LEMMA Moves_Offline ==
    ASSUME Offline, NEW p \in Tills, Others(p), proc'[p].method # "ONLINE", UNCHANGED pays
    PROVE  Offline'
BY DEF Offline, Others

LEMMA Till_Offline ==
    ASSUME BillTypes, Offline, NEW p \in Tills, StepOf(p)
    PROVE  Offline'
<1>1. Own(p) /\ RowsFrom(p)
  BY Step_Own, Step_Rows
<1>2. proc'[p].method # "ONLINE"
  BY <1>1 DEF Own, Plain, Follows, Offline
<1>3. \A r \in pays' : r.method # "ONLINE"
  BY <1>1 DEF RowsFrom, SameMoney, WritesRow, Offline
<1> QED BY <1>1, <1>2, <1>3 DEF Own, Offline

LEMMA Terminal_Offline ==
    ASSUME TerminalTypes, TerminalInv, Offline, TerminalNext
    PROVE  Offline'
<1>0. BillTypes
  BY DEF TerminalTypes
<1>1. CASE TillStep
  BY <1>0, <1>1, Till_Offline DEF TillStep, Step
<1>2. ASSUME NEW p \in Tills, TerminalRequest(p) PROVE Offline'
  BY <1>2, Request_Goes, Moves_Offline DEF billVars
<1>3. ASSUME NEW p \in Tills, TerminalStep(p) PROVE Offline'
  <2>0. UNCHANGED pays
    BY <1>3 DEF TerminalStep, LookInFlight, ToSquare, WriteRow, AskSquare, WriteStatus, Claim, Book, Booked,
                NotBooked, CancelOnSquare, billVars
  <2>1. CASE Goes(p)
    <3>1. proc'[p].method # "ONLINE"
      BY <2>1, Idle_Fields DEF Goes, Keeps, Offline
    <3> QED BY <2>0, <2>1, <3>1, Moves_Offline DEF Goes
  <2>2. CASE Book(p)
    BY <2>0, <2>2, Book_Does, Moves_Offline DEF BookedAs, Offline
  <2> QED BY <1>3, <2>1, <2>2, TerminalStep_Goes
<1>4. CASE Outside
  BY <1>4 DEF Outside, CardPresented, Completes, IsCanceled, vars, Offline
<1> QED BY <1>1, <1>2, <1>3, <1>4 DEF TerminalNext

-----------------------------------------------------------------------------
(* A till on its own that is paid on the phone *)

LEMMA Online_Not_Away ==
    ASSUME NEW p \in Tills, OnlineStep(p)
    PROVE  proc[p].at # "away"
BY DEF OnlineStep, PayIntent, PayConfirm, CreateSession, LookForExisting, Decided, Pay, PaidOk, Idle, At

LEMMA Guest_Once ==
    ASSUME NEW p \in Tills, OnceInv(p), NEW k \in Refs, GuestPays(k)
    PROVE  OnceInv(p)'
<1>0. OnlineTypes /\ OnlineTypes' /\ UNCHANGED vars
  BY GuestPays_Types DEF OnceInv, GuestPays
<1>1. \A j \in Refs : session'[j].bill = session[j].bill
  BY <1>0 DEF GuestPays, OnlineTypes, SessionsTyped, SessionRecord
<1>2. UNCHANGED <<billVars, bill, pays, sale, proc>> /\ Others(p)
  BY <1>0 DEF vars, billVars, Others
<1>3. Stands(proc[p])'
  BY <1>2 DEF OnceInv, AloneInv, Stands, Backs, Of, SalesOn
<1>4. NotYet(proc[p])'
  <2>1. \A r \in pays : r.ref \in Refs => session'[r.ref].bill = session[r.ref].bill
    BY <1>1
  <2> QED BY <1>2, <2>1 DEF OnceInv, NotYet, Of
<1> QED BY <1>0, <1>1, <1>2, <1>3, <1>4, Quiet_Once

LEMMA OnlineNext_Once ==
    ASSUME NEW p \in Tills, OnceInv(p),
           \/ OnlineNext
           \/ \E q \in Tills : ~At(q, "away") /\ Crash(q) /\ UNCHANGED onlineVars
    PROVE  OnceInv(p)'
<1>0. \A q \in Tills : proc[q].at # "away" => q = p
  BY DEF OnceInv, AloneInv, Alone
<1>1. CASE Step /\ UNCHANGED onlineVars
  BY <1>0, <1>1, Away_Rests, Step_Once DEF Step
<1>2. ASSUME NEW q \in Tills, OnlineStep(q) PROVE OnceInv(p)'
  BY <1>0, <1>2, Online_Not_Away, OnlineStep_Once
<1>3. ASSUME NEW k \in Refs, GuestPays(k) PROVE OnceInv(p)'
  BY <1>3, Guest_Once
<1>4. ASSUME NEW q \in Tills, ~At(q, "away"), Crash(q), UNCHANGED onlineVars PROVE OnceInv(p)'
  <2>1. q = p /\ OnlineTypes /\ OnlineTypes' /\ BillTypes
    BY <1>0, <1>4, Online_Crash DEF At, OnceInv, OnlineTypes
  <2>2. UNCHANGED <<billVars, session>> /\ Others(p) /\ proc'[p] = IdleProc
    BY <1>4, <2>1, Set_Does DEF Crash, onlineVars
  <2> QED BY <2>1, <2>2, Quiet_Once, Rests_Stands, Rests_NotYet
<1> QED BY <1>1, <1>2, <1>3, <1>4 DEF OnlineNext

LEMMA Start_Once ==
    ASSUME Start, NoSessions, NEW p \in Tills, Alone(p), proc[p] = IdleProc
    PROVE  OnceInv(p)
<1>1. OnlineTypes /\ BillTypes
  BY Start_Online DEF OnlineTypes
<1>2. NoBillYet.goods = 0 /\ NoBillYet.gifts = 0 /\ NoBillYet.total = 0 /\ NoSaleYet.on = NoBill
  BY DEF NoBillYet, NoSaleYet
<1>3. Unopened
  BY <1>2, PosBillAssumption DEF Start, Unopened, Of, SalesOn
<1>4. Stands(proc[p]) /\ NotYet(proc[p])
  BY Idle_Fields DEF Stands, Backs, BillPlaces, NotYet
<1>5. RowsAtHome /\ OneRowEach
  BY DEF Start, RowsAtHome, OneRowEach
<1> QED BY <1>1, <1>3, <1>4, <1>5 DEF OnceInv, AloneInv

TendersOnceInv ==
    \/ part = "terminal" /\ TerminalTypes /\ TerminalInv /\ Offline
    \/ part = "online" /\ \E p \in Tills : OnceInv(p)

LEMMA TendersOnce_Init == TendersInit => TendersOnceInv
<1> SUFFICES ASSUME TendersInit PROVE TendersOnceInv
  OBVIOUS
<1>1. PICK working \in (SUBSET Tills) \ {{}} :
         /\ proc = [p \in Tills |-> IF p \in working THEN IdleProc ELSE Away]
         /\ part = IF \E p \in Tills : working = {p} THEN "online" ELSE "terminal"
  BY DEF TendersInit
<1>2. proc = [p \in Tills |-> IF p \in Tills \ working THEN Away ELSE IdleProc]
  BY <1>1
<1>3. Start /\ NoSessions /\ NoCharges
  BY <1>2 DEF TendersInit, Start, NoSessions, NoCharges
<1>4. CASE \E p \in Tills : working = {p}
  <2>1. PICK p \in Tills : working = {p}
    BY <1>4
  <2>2. proc[p] = IdleProc /\ Alone(p)
    BY <1>1, <2>1, Away_Is DEF Alone
  <2> QED BY <1>1, <1>3, <1>4, <2>2, Start_Once DEF TendersOnceInv
<1>5. CASE ~\E p \in Tills : working = {p}
  <2>1. Offline
    BY <1>1, <1>3, Idle_Fields DEF Start, Offline, Away, IdleProc
  <2> QED BY <1>1, <1>3, <1>5, <2>1, Start_Terminal DEF TendersOnceInv
<1> QED BY <1>4, <1>5

LEMMA TendersOnce_Next == TendersOnceInv /\ [TendersNext]_tenderVars => TendersOnceInv'
<1> SUFFICES ASSUME TendersOnceInv, [TendersNext]_tenderVars PROVE TendersOnceInv'
  OBVIOUS
<1>1. CASE part = "terminal" /\ TerminalNext /\ UNCHANGED <<part, onlineVars>>
  BY <1>1, TerminalNext_Types, Terminal_Offline DEF TendersOnceInv
<1>2. CASE part = "online" /\ OnlineNext /\ UNCHANGED <<part, terminalVars>>
  <2>1. PICK p \in Tills : OnceInv(p)
    BY <1>2 DEF TendersOnceInv
  <2>2. OnceInv(p)'
    BY <1>2, <2>1, OnlineNext_Once
  <2> QED BY <1>2, <2>2 DEF TendersOnceInv
<1>3. CASE part = "online" /\ (\E p \in Tills : ~At(p, "away") /\ Crash(p))
           /\ UNCHANGED <<part, terminalVars, onlineVars>>
  <2>1. PICK p \in Tills : OnceInv(p)
    BY <1>3 DEF TendersOnceInv
  <2>2. OnceInv(p)'
    BY <1>3, <2>1, OnlineNext_Once
  <2> QED BY <1>3, <2>2 DEF TendersOnceInv
<1>4. CASE UNCHANGED tenderVars
  <2>1. UNCHANGED <<part, allVars, onlineAllVars, session, bill, sale, proc, pays, vars, billVars>>
    BY <1>4 DEF tenderVars, allVars, onlineAllVars, onlineVars, vars, billVars
  <2>2. CASE part = "terminal" /\ TerminalTypes /\ TerminalInv /\ Offline
    <3>1. Offline'
      BY <2>1, <2>2 DEF Offline
    <3> QED BY <2>1, <2>2, <3>1, Terminal_Stutter DEF TendersOnceInv
  <2>3. CASE part = "online" /\ \E p \in Tills : OnceInv(p)
    <3>1. PICK p \in Tills : OnceInv(p)
      BY <2>3
    <3>2. OnlineTypes' /\ Others(p)
      BY <2>1, <3>1, OnlineNext_Types DEF OnceInv, Others
    <3>3. Stands(proc[p])' /\ NotYet(proc[p])'
      BY <2>1, <3>1 DEF OnceInv, AloneInv, Stands, Backs, Of, SalesOn, NotYet
    <3>4. OnceInv(p)'
      BY <2>1, <3>1, <3>2, <3>3, Quiet_Once
    <3> QED BY <2>1, <2>3, <3>4 DEF TendersOnceInv
  <2> QED BY <2>2, <2>3 DEF TendersOnceInv
<1> QED BY <1>1, <1>2, <1>3, <1>4 DEF TendersNext

LEMMA One_Row_Each ==
    ASSUME OneRowEach
    PROVE  RecordedOnce
<1> SUFFICES ASSUME NEW k \in Refs PROVE Cardinality({r \in pays : r.ref = k}) <= 1
  BY DEF RecordedOnce
<1> DEFINE rows == {r \in pays : r.ref = k}
<1>1. rows = {} \/ \E r : rows = {r}
  BY DEF OneRowEach
<1> HIDE DEF rows
<1>2. Cardinality(rows) <= 1
  <2>1. CASE rows = {}
    BY <2>1, FS_EmptySet
  <2>2. ASSUME NEW r, rows = {r} PROVE Cardinality(rows) <= 1
    <3>1. Cardinality({r}) = 1
      BY FS_Singleton
    <3> QED BY <2>2, <3>1
  <2> QED BY <1>1, <2>1, <2>2
<1> QED BY <1>2 DEF rows

\* payConfirm's "record the payment. Idempotent on the payment-intent id", for
\* one request at a time and however often the page is loaded, bills are merged,
\* payments undone and requests cut off: what a guest paid on the phone is on the
\* books once, as much as was received.  On the terminal the same holds for every
\* charge and refund, whatever tills there are.
THEOREM RecordsOnce == TendersSpec => []RecordedAsPaid
<1>1. TendersOnceInv => RecordedAsPaid
  <2> SUFFICES ASSUME TendersOnceInv PROVE RecordedAsPaid
    OBVIOUS
  <2>1. CASE TerminalInv /\ Offline
    BY <2>1, One_Row_Each DEF TerminalInv, LatchInv, Offline, OnlineMeansPaid, RecordedAsPaid
  <2>2. ASSUME NEW p \in Tills, OnceInv(p) PROVE RecordedAsPaid
    BY <2>2, One_Row_Each DEF OnceInv, OnlineTypes, RowsPaid, OnlineMeansPaid, RecordedAsPaid
  <2> QED BY <2>1, <2>2 DEF TendersOnceInv
<1> QED BY <1>1, TendersOnce_Init, TendersOnce_Next, PTL DEF TendersSpec

-----------------------------------------------------------------------------
(* A latch that was shut is answered for *)

\* Handlers that have shut a latch and not yet written a row or a reason.
Answering == Booking \cup {"notBooked"}

Answered(k) ==
    attempt[k].latch # "open" =>
        \/ RowsFor(k) # {}
        \/ attempt[k].failed
        \/ \E p \in Tills : K(p) = k /\ proc[p].at \in Answering

\* Nobody is about to undo the row of k.
Stays(k) == \A p \in Tills : At(p, "undoDelete") => \A r \in RowsFor(k) : r.id # proc[p].pay

\* Rows stay unless they are undone.
LEMMA Rows_Remain ==
    ASSUME BillTypes, NEW p \in Tills, StepOf(p), NEW k \in Refs, Stays(k), NEW s \in pays, s.ref = k
    PROVE  \E r \in pays' : r.ref = k
<1>0. s \in pays /\ s.ref = k
  OBVIOUS
<1>1. CASE Debit(p)
  BY <1>0, <1>1, Debit_Does
<1>2. CASE Record(p)
  <2>1. s \in pays'
    BY <1>2, Record_Does DEF NewRow
  <2> QED BY <1>0, <2>1
<1>3. CASE Refund(p)
  <2>1. s \in pays'
    BY <1>3, Refund_Does DEF NewRow
  <2> QED BY <1>0, <2>1
<1>4. CASE UndoDelete(p)
  <2>1. proc[p].at = "undoDelete" /\ pays' = pays \ {r \in pays : r.id = proc[p].pay}
    BY <1>4, UndoDelete_Does
  <2>2. s.id # proc[p].pay
    BY <1>0, <2>1 DEF Stays, At, RowsFor
  <2>3. s \in pays'
    BY <2>1, <2>2
  <2> QED BY <1>0, <2>3
<1>5. CASE MergeOrders(p)
  <2>1. B(p) \in Bills /\ MovedRows(B(p), proc[p].other)
    BY <1>5, MergeOrders_Does
  <2>2. PICK h : /\ pays' = {h[r] : r \in pays}
                 /\ \A r \in pays : h[r].ref = r.ref
    BY <2>1, Merge_Map
  <2>3. h[s] \in pays' /\ h[s].ref = k
    BY <1>0, <2>2
  <2> QED BY <2>3
<1>6. CASE Quiet(p)
  BY <1>0, <1>6 DEF Quiet
<1> QED
  BY <1>1, <1>2, <1>3, <1>4, <1>5, <1>6, RingUp_Quiet, SettleUp_Quiet, LineStep_Quiet, PayStep_Quiet,
     ReverseStep_Quiet DEF StepOf

\* Whoever books goes on with it until there is a row or a reason.
LEMMA Booking_Goes ==
    ASSUME TerminalTypes, TerminalInv, NEW p \in Tills, StepOf(p), NEW k \in Refs, K(p) = k,
           proc[p].at \in Answering
    PROVE  \/ RowsFor(k)' # {}
           \/ proc'[p].ref = k /\ proc'[p].at \in Answering
<1>0. BillTypes
  BY DEF TerminalTypes
<1>1. /\ proc[p].at \notin {"book", "notBooked"} => proc[p].then = "booked" /\ proc[p].catch = "notBooked"
      /\ proc[p].at \in {"recRead", "recWrite"} => proc[p].back = "payReread"
      /\ K(p) = proc[p].ref
  BY DEF TerminalInv, LatchInv, Places, Answering, Booking, Finishing, K
<1>2. CASE RecomputeRead(p)
  BY <1>0, <1>1, <1>2, RecomputeRead_Does DEF KeepsBut, Answering, Booking
<1>3. CASE RecomputeWrite(p)
  <2>1. proc[p].at = "recWrite" /\ Ends(p, proc[p].back)
    BY <1>0, <1>3, RecomputeWrite_Does
  <2> QED BY <1>1, <2>1 DEF Ends, GoesTo, Keeps, Answering, Booking
<1>4. CASE PayReread(p)
  <2>1. /\ proc[p].at = "payReread"
        /\ \/ proc[p].catch = "idle"
           \/ /\ SameRequest(proc[p], proc'[p])
              /\ proc'[p].at = proc[p].catch \/ DecidedOn(p, B(p))
    BY <1>0, <1>4, PayReread_Does
  <2> QED BY <1>1, <2>1 DEF SameRequest, DecidedOn, Answering, Booking
<1>5. CASE Debit(p)
  <2>1. proc[p].at = "debit" /\ (GoesTo(p, "record") \/ Ends(p, proc[p].catch))
    BY <1>0, <1>5, Debit_Does
  <2> QED BY <1>1, <2>1 DEF Ends, GoesTo, Keeps, Answering, Booking
<1>6. CASE Record(p)
  <2>1. PICK r : r.ref = proc[p].ref /\ pays' = pays \cup {r}
    BY <1>0, <1>6, Record_Does DEF NewRow
  <2> QED BY <1>1, <2>1 DEF RowsFor
<1>7. CASE Refund(p)
  <2>1. PICK r : r.ref = proc[p].ref /\ pays' = pays \cup {r}
    BY <1>0, <1>7, Refund_Does DEF NewRow
  <2> QED BY <1>1, <2>1 DEF RowsFor
<1>8. proc[p].at \in {"book", "recRead", "recWrite", "payReread", "debit", "record", "refund", "notBooked"}
  BY DEF Answering, Booking
<1>9. ~RingUp(p) /\ ~SettleUp(p)
  BY <1>8 DEF RingUp, CreateOrder, SetLinesRead, AddGiftCardSaleRead, SplitRead, MergeRead,
              RemoveGiftCardSaleRead, SettleUp, PayOrder, RefundOrder, VoidRead, ReopenRead, UndoRead, Idle, At
<1>10. LineStep(p) => RecomputeRead(p) \/ RecomputeWrite(p)
  BY <1>8 DEF LineStep, SetLines, AddGiftCardSale, RemoveGiftCardSale, SyncRead, SyncClear, SyncCreate,
              MergeOrders, SplitChild, SplitVoid, At
<1>11. PayStep(p) => PayReread(p) \/ Debit(p) \/ Record(p)
  BY <1>8 DEF PayStep, SetStatus, IssueList, IssueNext, IssueMark, At
<1>12. ReverseStep(p) => Refund(p)
  BY <1>8 DEF ReverseStep, UndoDelete, UndoStatus, VoidOrder, ReopenOrder, RefundCards, At
<1> QED BY <1>2, <1>3, <1>4, <1>5, <1>6, <1>7, <1>9, <1>10, <1>11, <1>12 DEF StepOf

LEMMA Till_Answered ==
    ASSUME TerminalTypes, TerminalInv, NEW p \in Tills, StepOf(p), UNCHANGED terminalVars,
           NEW k \in Refs, Stays(k), Answered(k)
    PROVE  Answered(k)'
<1>0. BillTypes /\ UNCHANGED attempt
  BY DEF TerminalTypes, terminalVars
<1>1. CASE attempt[k].latch = "open" \/ attempt[k].failed
  BY <1>0, <1>1 DEF Answered
<1>2. CASE RowsFor(k) # {}
  <2>1. PICK s \in pays : s.ref = k
    BY <1>2 DEF RowsFor
  <2>2. \E r \in pays' : r.ref = k
    BY <1>0, <2>1, Rows_Remain
  <2> QED BY <2>2 DEF Answered, RowsFor
<1>3. ASSUME NEW q \in Tills, K(q) = k, proc[q].at \in Answering PROVE Answered(k)'
  <2>1. CASE q = p
    <3>1. RowsFor(k)' # {} \/ (proc'[p].ref = k /\ proc'[p].at \in Answering)
      BY <1>3, <2>1, Booking_Goes
    <3> QED BY <3>1 DEF Answered, K
  <2>2. CASE q # p
    BY <1>0, <1>3, <2>2, Step_Own DEF Own, Answered, K
  <2> QED BY <2>1, <2>2
<1> QED BY <1>1, <1>2, <1>3 DEF Answered

\* A handler that answers for no latch moves.
LEMMA Untouched_Answered ==
    ASSUME NEW p \in Tills, Others(p), proc[p].at \notin Answering, UNCHANGED pays, NEW k \in Refs, Answered(k),
           attempt[k].failed => attempt'[k].failed, attempt'[k].latch # "open" => attempt[k].latch # "open"
    PROVE  Answered(k)'
BY DEF Answered, RowsFor, Others, K

LEMMA Terminal_Answered ==
    ASSUME TerminalTypes, TerminalInv, NEW p \in Tills, TerminalStep(p), NEW k \in Refs, Answered(k)
    PROVE  Answered(k)'
<1>0. /\ BillTypes /\ Knows(proc[p]) /\ K(p) = proc[p].ref /\ attempt \in [Refs -> AttemptRecord]
      /\ UNCHANGED pays
  BY DEF TerminalTypes, K, TerminalStep, LookInFlight, ToSquare, WriteRow, AskSquare, WriteStatus, Claim, Book,
         Booked, NotBooked, CancelOnSquare, billVars
<1>1. Others(p)
  BY TerminalStep_Goes, Book_Does DEF Goes, BookedAs
<1>2. CASE LookInFlight(p) \/ ToSquare(p) \/ AskSquare(p) \/ CancelOnSquare(p)
  <2>1. UNCHANGED attempt /\ proc[p].at \in {"inFlight", "toSquare", "ask", "cancel"}
    BY <1>2 DEF LookInFlight, ToSquare, AskSquare, CancelOnSquare, At, terminalVars
  <2>2. proc[p].at \notin Answering
    BY <2>1 DEF Answering, Booking
  <2> QED BY <1>0, <1>1, <2>1, <2>2, Untouched_Answered
<1>3. CASE WriteRow(p)
  <2> DEFINE rec == [NoAttempt EXCEPT !.kind = KindOf(p), !.bill = B(p), !.amt = proc[p].amt,
                            !.tip = proc[p].tip, !.of = square[K(p)].of]
  <2>1. attempt' = [attempt EXCEPT ![K(p)] = rec] /\ proc[p].at = "row"
    BY <1>3 DEF WriteRow, At
  <2>2. rec.latch = "open"
    BY DEF NoAttempt
  <2> HIDE DEF rec
  <2>3. attempt'[k] = attempt[k] \/ attempt'[k].latch = "open"
    BY <1>0, <2>1, <2>2
  <2>4. proc[p].at \notin Answering
    BY <2>1 DEF Answering, Booking
  <2>5. CASE attempt'[k] = attempt[k]
    BY <1>0, <1>1, <2>4, <2>5, Untouched_Answered
  <2>6. CASE attempt'[k].latch = "open"
    BY <2>6 DEF Answered
  <2> QED BY <2>3, <2>5, <2>6
<1>4. CASE WriteStatus(p)
  <2>1. attempt' = [attempt EXCEPT ![K(p)].status = heard[p].status] /\ proc[p].at = "writeStatus"
    BY <1>4 DEF WriteStatus, At
  <2>2. attempt'[k].latch = attempt[k].latch /\ attempt'[k].failed = attempt[k].failed
    BY <1>0, <2>1 DEF AttemptRecord
  <2>3. proc[p].at \notin Answering
    BY <2>1 DEF Answering, Booking
  <2> QED BY <1>0, <1>1, <2>2, <2>3, Untouched_Answered
<1>5. CASE Claim(p)
  <2>1. proc[p].at = "claim" /\ proc[p].at \notin Answering
    BY <1>5 DEF Claim, At, Answering, Booking
  <2>2. CASE UNCHANGED attempt
    BY <1>0, <1>1, <2>1, <2>2, Untouched_Answered
  <2>3. CASE /\ attempt' = [attempt EXCEPT ![K(p)].status = "COMPLETED", ![K(p)].latch = "claimed"]
             /\ Goto(p, "book")
    <3>1. CASE k = K(p)
      <4>1. proc'[p].at = "book" /\ proc'[p].ref = k
        BY <1>0, <2>3, <3>1, Goto_Does DEF GoesTo, Keeps
      <4>2. proc'[p].at \in Answering
        BY <4>1 DEF Answering, Booking
      <4> QED BY <4>1, <4>2 DEF Answered, K
    <3>2. CASE k # K(p)
      <4>1. attempt'[k] = attempt[k]
        BY <1>0, <2>3, <3>2
      <4> QED BY <1>0, <1>1, <2>1, <4>1, Untouched_Answered
    <3> QED BY <3>1, <3>2
  <2> QED BY <1>5, <2>2, <2>3 DEF Claim
<1>6. CASE Book(p)
  <2>1. BookedAs(p) /\ proc[p].at = "book" /\ UNCHANGED attempt
    BY <1>6, Book_Does
  <2>2. proc'[p].ref = proc[p].ref /\ proc'[p].at \in Answering
    BY <2>1 DEF BookedAs, Answering, Booking
  <2> QED BY <1>0, <1>1, <2>1, <2>2 DEF Answered, Others, K, RowsFor
<1>7. CASE Booked(p)
  <2>1. /\ attempt' = [attempt EXCEPT ![K(p)].latch = "paid", ![K(p)].tip = proc[p].tip]
        /\ proc[p].at = "booked"
    BY <1>7 DEF Booked, At
  <2>2. K(p) \in Refs /\ attempt[K(p)].latch # "open"
    BY <1>0, <2>1 DEF Knows, TerminalInv, LatchInv, LatchHolds, Finishing
  <2>3. /\ attempt'[k].failed = attempt[k].failed
        /\ attempt'[k].latch = "open" <=> attempt[k].latch = "open"
    BY <1>0, <2>1, <2>2 DEF AttemptRecord
  <2>4. proc[p].at \notin Answering
    BY <2>1 DEF Answering, Booking
  <2> QED BY <1>0, <1>1, <2>3, <2>4, Untouched_Answered
<1>8. CASE NotBooked(p)
  <2>1. attempt' = [attempt EXCEPT ![K(p)].failed = TRUE] /\ proc[p].at = "notBooked"
    BY <1>8 DEF NotBooked, At
  <2>2. CASE k = K(p)
    <3>1. attempt'[k].failed
      BY <1>0, <2>1, <2>2 DEF AttemptRecord
    <3> QED BY <3>1 DEF Answered
  <2>3. CASE k # K(p)
    <3>1. attempt'[k] = attempt[k]
      BY <1>0, <2>1, <2>3
    <3> QED BY <1>0, <1>1, <2>3, <3>1 DEF Answered, Others, K, RowsFor
  <2> QED BY <2>2, <2>3
<1> QED BY <1>2, <1>3, <1>4, <1>5, <1>6, <1>7, <1>8 DEF TerminalStep

LEMMA TerminalNext_Answered ==
    ASSUME TerminalTypes, TerminalInv, TerminalNext, NEW k \in Refs, Stays(k), Answered(k)
    PROVE  Answered(k)'
<1>1. CASE TillStep
  BY <1>1, Till_Answered DEF TillStep, Step
<1>2. ASSUME NEW p \in Tills, TerminalRequest(p) PROVE Answered(k)'
  <2>1. Others(p) /\ proc[p].at = "idle" /\ UNCHANGED <<billVars, attempt>>
    BY <1>2, Request_Goes
  <2>2. proc[p].at \notin Answering
    BY <2>1 DEF Answering, Booking
  <2> QED BY <2>1, <2>2, Untouched_Answered DEF billVars
<1>3. ASSUME NEW p \in Tills, TerminalStep(p) PROVE Answered(k)'
  BY <1>3, Terminal_Answered
<1>4. CASE Outside
  BY <1>4 DEF Outside, CardPresented, Completes, IsCanceled, vars, Answered, RowsFor, K
<1> QED BY <1>1, <1>2, <1>3, <1>4 DEF TerminalNext

-----------------------------------------------------------------------------
(* Charges are not undone *)

ChargesAreCharges ==
    /\ \A p \in Tills : K(p) \in Refs /\ attempt[K(p)].kind = "charge" => proc[p].method = "SQUARE_TERMINAL"
    /\ \A r \in pays : r.ref \in Refs /\ attempt[r.ref].kind = "charge" => r.method = "SQUARE_TERMINAL"

LEMMA Charges_Stay ==
    ASSUME Undos, ChargesAreCharges, NEW k \in Refs, attempt[k].kind = "charge"
    PROVE  Stays(k)
BY DEF Undos, MayUndo, ChargesAreCharges, Stays, At, RowsFor, NotUndone

\* Rows, kinds and whoever else is at work stay as they are.
LEMMA Moves_Charges ==
    ASSUME ChargesAreCharges, NEW p \in Tills, Others(p), UNCHANGED pays,
           \A k \in Refs : attempt'[k].kind = attempt[k].kind,
           proc'[p].ref \in Refs /\ attempt[proc'[p].ref].kind = "charge" => proc'[p].method = "SQUARE_TERMINAL"
    PROVE  ChargesAreCharges'
BY DEF ChargesAreCharges, Others, K

LEMMA Till_Charges ==
    ASSUME BillTypes, ChargesAreCharges, NEW p \in Tills, StepOf(p), UNCHANGED terminalVars
    PROVE  ChargesAreCharges'
<1>1. Own(p) /\ RowsFrom(p) /\ UNCHANGED attempt
  BY Step_Own, Step_Rows DEF terminalVars
<1>2. ASSUME NEW q \in Tills, proc'[q].ref \in Refs, attempt[proc'[q].ref].kind = "charge"
      PROVE  proc'[q].method = "SQUARE_TERMINAL"
  BY <1>1, <1>2, PosBillAssumption DEF Own, Plain, Follows, ChargesAreCharges, K
<1>3. ASSUME NEW r \in pays', r.ref \in Refs, attempt[r.ref].kind = "charge"
      PROVE  r.method = "SQUARE_TERMINAL"
  BY <1>1, <1>3 DEF RowsFrom, SameMoney, WritesRow, ChargesAreCharges, K
<1> QED BY <1>1, <1>2, <1>3 DEF ChargesAreCharges, K

LEMMA Request_Charges ==
    ASSUME TerminalTypes, TerminalInv, ChargesAreCharges, NEW p \in Tills, TerminalRequest(p)
    PROVE  ChargesAreCharges'
<1>0. BillTypes /\ Others(p) /\ UNCHANGED <<pays, attempt>>
  BY Request_Goes DEF TerminalTypes, billVars
<1>1. ASSUME NEW k \in Refs, Fresh(k), proc'[p].ref = k PROVE ChargesAreCharges'
  <2>1. attempt[k].kind = "none"
    BY <1>1 DEF Fresh, TerminalInv, LatchInv, KnownToSquare
  <2> QED BY <1>0, <1>1, <2>1, Moves_Charges
<1>2. ASSUME NEW k \in Refs, NEW b \in Bills, NEW want \in 0..MaxGoods, NEW tip \in 0..MaxTip,
             StartCheckout(p, b, k, want, tip)
      PROVE  ChargesAreCharges'
  <2> DEFINE balance == bill[b].total - Paid(Of(b))
             amount == IF want = 0 THEN balance ELSE want
             rec == [IdleProc EXCEPT !.at = "inFlight", !.b = b, !.ref = k, !.method = "SQUARE_TERMINAL",
                                     !.amt = amount, !.tip = tip]
  <2>1. rec.ref = k
    BY DEF IdleProc
  <2>2. proc' = [proc EXCEPT ![p] = rec] /\ Fresh(k)
    BY <1>2 DEF StartCheckout
  <2> HIDE DEF rec
  <2> QED BY <1>0, <1>1, <2>1, <2>2, Set_Does
<1>3. ASSUME NEW k \in Refs, NEW b \in Bills, NEW want \in 0..MaxGoods, NEW of \in Refs,
             StartRefund(p, b, k, of, want)
      PROVE  ChargesAreCharges'
  <2> DEFINE amount == IF want = 0 THEN Refundable(b, of) ELSE want
             rec == [IdleProc EXCEPT !.at = "inFlight", !.b = b, !.ref = k, !.method = "REFUND",
                                     !.amt = amount]
  <2>1. rec.ref = k
    BY DEF IdleProc
  <2>2. proc' = [proc EXCEPT ![p] = rec] /\ Fresh(k)
    BY <1>3 DEF StartRefund
  <2> HIDE DEF rec
  <2> QED BY <1>0, <1>1, <2>1, <2>2, Set_Does
<1>4. ASSUME NEW k \in Refs, Poll(p, k) \/ CancelCheckout(p, k) PROVE ChargesAreCharges'
  <2> DEFINE rec == PollOf(k)
             c == [PollOf(k) EXCEPT !.at = "cancel"]
  <2>1. /\ rec.ref = k /\ c.ref = k
        /\ attempt[k].kind = "charge" => rec.method = "SQUARE_TERMINAL" /\ c.method = "SQUARE_TERMINAL"
    BY DEF IdleProc, PollOf
  <2>2. proc' = [proc EXCEPT ![p] = rec] \/ proc' = [proc EXCEPT ![p] = c]
    BY <1>4 DEF Poll, CancelCheckout
  <2> HIDE DEF rec, c
  <2>3. proc'[p] = rec \/ proc'[p] = c
    BY <1>0, <2>2, Set_Does
  <2> QED BY <1>0, <2>1, <2>3, Moves_Charges
<1> QED BY <1>2, <1>3, <1>4 DEF TerminalRequest

LEMMA Kinds_Stay ==
    ASSUME attempt \in [Refs -> AttemptRecord], NEW p \in Tills, TerminalStep(p), ~WriteRow(p)
    PROVE  \A k \in Refs : attempt'[k].kind = attempt[k].kind
<1>1. CASE UNCHANGED attempt
  BY <1>1
<1>2. CASE \E v : attempt' = [attempt EXCEPT ![K(p)].status = v]
  BY <1>2 DEF AttemptRecord
<1>3. CASE \E v, w : attempt' = [attempt EXCEPT ![K(p)].status = v, ![K(p)].latch = w]
  BY <1>3 DEF AttemptRecord
<1>4. CASE \E v, w : attempt' = [attempt EXCEPT ![K(p)].latch = v, ![K(p)].tip = w]
  BY <1>4 DEF AttemptRecord
<1>5. CASE \E v : attempt' = [attempt EXCEPT ![K(p)].failed = v]
  BY <1>5 DEF AttemptRecord
<1> QED
  BY <1>1, <1>2, <1>3, <1>4, <1>5
     DEF TerminalStep, LookInFlight, ToSquare, AskSquare, WriteStatus, Claim, Book, Booked, NotBooked,
         CancelOnSquare, terminalVars

\* A row is new when its kind is.
LEMMA New_Charge_Open ==
    ASSUME TerminalTypes, TerminalNext, NEW k \in Refs, attempt'[k].kind # attempt[k].kind
    PROVE  attempt'[k].latch = "open"
<1>0. attempt \in [Refs -> AttemptRecord]
  BY DEF TerminalTypes
<1>1. PICK p \in Tills : WriteRow(p)
  <2>1. CASE TillStep
    BY <2>1 DEF TillStep, terminalVars
  <2>2. CASE \E p \in Tills : TerminalRequest(p)
    BY <2>2, Request_Goes
  <2>3. CASE \E p \in Tills : TerminalStep(p)
    BY <1>0, <2>3, Kinds_Stay
  <2>4. CASE Outside
    BY <2>4 DEF Outside, CardPresented, Completes, IsCanceled
  <2> QED BY <2>1, <2>2, <2>3, <2>4 DEF TerminalNext
<1> DEFINE rec == [NoAttempt EXCEPT !.kind = KindOf(p), !.bill = B(p), !.amt = proc[p].amt,
                            !.tip = proc[p].tip, !.of = square[K(p)].of]
<1>2. attempt' = [attempt EXCEPT ![K(p)] = rec]
  BY <1>1 DEF WriteRow
<1>3. rec.latch = "open"
  BY DEF NoAttempt
<1> HIDE DEF rec
<1> QED BY <1>0, <1>2, <1>3

LEMMA Terminal_Charges ==
    ASSUME TerminalTypes, TerminalInv, ChargesAreCharges, NEW p \in Tills, TerminalStep(p)
    PROVE  ChargesAreCharges'
<1>0. /\ BillTypes /\ Knows(proc[p]) /\ K(p) = proc[p].ref /\ attempt \in [Refs -> AttemptRecord]
      /\ UNCHANGED pays
  BY DEF TerminalTypes, K, TerminalStep, LookInFlight, ToSquare, WriteRow, AskSquare, WriteStatus, Claim, Book,
         Booked, NotBooked, CancelOnSquare, billVars
<1>1. Others(p) /\ (proc'[p] = IdleProc \/ (proc'[p].ref = proc[p].ref /\ proc'[p].method = proc[p].method))
  BY TerminalStep_Goes, Book_Does DEF Goes, Keeps, BookedAs
<1>2. proc'[p].ref \in Refs /\ attempt[proc'[p].ref].kind = "charge" => proc'[p].method = "SQUARE_TERMINAL"
  BY <1>0, <1>1, Idle_Fields, PosBillAssumption DEF ChargesAreCharges
<1>3. CASE ~WriteRow(p)
  <2>1. \A k \in Refs : attempt'[k].kind = attempt[k].kind
    BY <1>0, <1>3, Kinds_Stay
  <2> QED BY <1>0, <1>1, <1>2, <2>1, Moves_Charges
<1>4. CASE WriteRow(p)
  <2> DEFINE rec == [NoAttempt EXCEPT !.kind = KindOf(p), !.bill = B(p), !.amt = proc[p].amt,
                            !.tip = proc[p].tip, !.of = square[K(p)].of]
  <2>1. attempt' = [attempt EXCEPT ![K(p)] = rec] /\ proc[p].at = "row" /\ Return(p)
    BY <1>4 DEF WriteRow, At
  <2>2. K(p) \in Refs /\ attempt[K(p)].kind = "none" /\ \A q \in Tills : q # p => K(q) # K(p)
    BY <1>0, <2>1 DEF Knows, Starting, TerminalInv, LatchInv, StartsAlone
  <2>3. \A r \in pays : r.ref # K(p)
    BY <2>2 DEF TerminalInv, LatchInv, LatchHolds
  <2>4. proc[p].then = "idle"
    BY <2>1, <2>2 DEF TerminalInv, LatchInv, Places, Starting
  <2>5. proc'[p] = IdleProc
    BY <1>0, <2>1, <2>4, GoOrIdle_Does DEF Return, Ends, Rests
  <2> HIDE DEF rec
  <2>6. \A k \in Refs : k # K(p) => attempt'[k] = attempt[k]
    BY <1>0, <2>1
  <2>7. ASSUME NEW q \in Tills, proc'[q].ref \in Refs, attempt'[proc'[q].ref].kind = "charge"
        PROVE  proc'[q].method = "SQUARE_TERMINAL"
    <3>1. q # p
      BY <2>5, <2>7, Idle_Fields, PosBillAssumption
    <3>2. proc'[q] = proc[q] /\ proc[q].ref # K(p)
      BY <1>1, <2>2, <3>1 DEF Others, K
    <3> QED BY <2>6, <2>7, <3>2 DEF ChargesAreCharges, K
  <2>8. ASSUME NEW r \in pays', r.ref \in Refs, attempt'[r.ref].kind = "charge"
        PROVE  r.method = "SQUARE_TERMINAL"
    BY <1>0, <2>3, <2>6, <2>8 DEF ChargesAreCharges
  <2> QED BY <2>7, <2>8 DEF ChargesAreCharges, K
<1> QED BY <1>3, <1>4

LEMMA TerminalNext_Charges ==
    ASSUME TerminalTypes, TerminalInv, Undos, ChargesAreCharges, TerminalNext
    PROVE  ChargesAreCharges' /\ Undos'
<1>0. BillTypes /\ BillTypes'
  BY TerminalNext_Types DEF TerminalTypes
<1>1. CASE TillStep
  BY <1>0, <1>1, Till_Charges, Step_Money DEF TillStep, Step
<1>2. ASSUME NEW p \in Tills, Others(p), UNCHANGED billVars, proc'[p].at # "undoDelete" PROVE Undos'
  BY <1>2 DEF Others, Undos, MayUndo, billVars
<1>3. ASSUME NEW p \in Tills, TerminalRequest(p) PROVE ChargesAreCharges' /\ Undos'
  <2>1. Others(p) /\ UNCHANGED billVars
    BY <1>3, Request_Goes
  <2>2. proc'[p].at # "undoDelete"
    BY <1>3, Request_Goes
  <2> QED BY <1>2, <1>3, <2>1, <2>2, Request_Charges
<1>4. ASSUME NEW p \in Tills, TerminalStep(p) PROVE ChargesAreCharges' /\ Undos'
  <2>1. UNCHANGED billVars
    BY <1>4 DEF TerminalStep, LookInFlight, ToSquare, WriteRow, AskSquare, WriteStatus, Claim, Book,
         Booked, NotBooked, CancelOnSquare
  <2>2. Others(p)
    BY <1>4, TerminalStep_Goes, Book_Does DEF Goes, BookedAs
  <2>3. proc'[p].at # "undoDelete"
    <3>1. TerminalTypes'
      BY <1>4, TerminalStep_Types
    <3>2. proc[p].ref \in Refs
      <4>1. proc[p].at \in Starting \cup Asking \cup {"book", "booked", "notBooked"}
        BY <1>4 DEF TerminalStep, LookInFlight, ToSquare, WriteRow, AskSquare, WriteStatus, Claim, Book,
                    Booked, NotBooked, CancelOnSquare, At, Starting, Asking
      <4> QED BY <4>1 DEF TerminalTypes, Knows
    <3>3. proc'[p] = IdleProc \/ proc'[p].ref = proc[p].ref
      BY <1>4, TerminalStep_Goes, Book_Does DEF Goes, Keeps, BookedAs
    <3>4. TerminalInv'
      BY <1>4, TerminalStep_Inv
    <3>5. proc'[p].ref \in Refs => proc'[p].at \in Starting \cup Asking \cup Booking \cup Finishing
      BY <3>4 DEF TerminalInv, LatchInv, Places, K
    <3> QED BY <3>2, <3>3, <3>5, Idle_Fields DEF Starting, Asking, Booking, Finishing
  <2> QED BY <1>2, <1>4, <2>1, <2>2, <2>3, Terminal_Charges
<1>5. CASE Outside
  BY <1>5 DEF Outside, CardPresented, Completes, IsCanceled, vars, ChargesAreCharges, Undos, MayUndo, K
<1> QED BY <1>1, <1>3, <1>4, <1>5 DEF TerminalNext

-----------------------------------------------------------------------------

ChargesInv ==
    /\ TerminalTypes /\ TerminalInv /\ Undos /\ ChargesAreCharges
    /\ \A k \in Refs : attempt[k].kind = "charge" => Answered(k)

ChargesLoud ==
    AllIdle => \A k \in Refs :
        attempt[k].kind = "charge" /\ attempt[k].latch # "open" => RowsFor(k) # {} \/ attempt[k].failed

LEMMA Answered_Init ==
    ASSUME TerminalInit
    PROVE  TerminalTypes /\ TerminalInv /\ Undos /\ ChargesAreCharges /\ \A k \in Refs : Answered(k)
<1>1. TerminalTypes /\ TerminalInv
  <2>1. {} \in SUBSET Tills /\ proc = [p \in Tills |-> IF p \in {} THEN Away ELSE IdleProc]
    BY DEF TerminalInit, Init
  <2>2. DOMAIN proc = Tills
    BY DEF TerminalInit, Init
  <2>3. Start /\ NoCharges
    BY <2>1, <2>2 DEF TerminalInit, Init, Start, NoCharges
  <2> QED BY <2>3, Start_Terminal
<1>2. /\ \A p \in Tills : proc[p] = IdleProc
      /\ \A k \in Refs : attempt[k] = NoAttempt
      /\ pays = {}
  BY DEF TerminalInit, Init
<1>3. NoAttempt.latch = "open" /\ NoAttempt.kind = "none"
  BY DEF NoAttempt
<1> QED BY <1>1, <1>2, <1>3, Idle_Fields DEF Undos, MayUndo, ChargesAreCharges, Answered, K

LEMMA Charges_Next == ChargesInv /\ [TerminalNext]_allVars => ChargesInv'
<1> SUFFICES ASSUME ChargesInv, [TerminalNext]_allVars PROVE ChargesInv'
  OBVIOUS
<1>1. CASE TerminalNext
  <2>1. TerminalTypes' /\ TerminalInv'
    BY <1>1, TerminalNext_Types DEF ChargesInv
  <2>2. Undos' /\ ChargesAreCharges'
    BY <1>1, TerminalNext_Charges DEF ChargesInv
  <2>3. ASSUME NEW k \in Refs, attempt'[k].kind = "charge" PROVE Answered(k)'
    <3>1. CASE attempt[k].kind = "charge"
      BY <1>1, <3>1, Charges_Stay, TerminalNext_Answered DEF ChargesInv
    <3>2. CASE attempt[k].kind # "charge"
      <4>1. attempt'[k].latch = "open"
        BY <1>1, <2>3, <3>2, New_Charge_Open DEF ChargesInv
      <4> QED BY <4>1 DEF Answered
    <3> QED BY <3>1, <3>2
  <2> QED BY <2>1, <2>2, <2>3 DEF ChargesInv
<1>2. CASE UNCHANGED allVars
  <2>1. TerminalTypes' /\ TerminalInv'
    BY <1>2, Terminal_Stutter DEF ChargesInv
  <2> QED BY <1>2, <2>1 DEF allVars, vars, terminalVars, ChargesInv, Undos, MayUndo, ChargesAreCharges,
                            Answered, RowsFor, K
<1> QED BY <1>1, <1>2

\* pollCheckout's "this needs a human, not a retry": once a charge has been
\* claimed there is a payment for it or a reason why not, with any number of
\* polls, tills and terminals, as long as requests finish.
THEOREM ChargesStayLoud == TerminalSpec => []ChargesLoud
<1>1. TerminalInit => ChargesInv
  BY Answered_Init DEF ChargesInv
<1>2. ChargesInv => ChargesLoud
  <2> SUFFICES ASSUME ChargesInv, AllIdle, NEW k \in Refs, attempt[k].kind = "charge", attempt[k].latch # "open"
               PROVE  RowsFor(k) # {} \/ attempt[k].failed
    BY DEF ChargesLoud
  <2>1. \A p \in Tills : proc[p].at \notin Answering
    BY DEF AllIdle, Idle, At, Answering, Booking
  <2> QED BY <2>1 DEF ChargesInv, Answered
<1> QED BY <1>1, <1>2, Charges_Next, PTL DEF TerminalSpec

\* Nobody is about to undo what a terminal led to.
RefundsStand == \A k \in Refs : Stays(k)

AnsweredInv == TerminalTypes /\ TerminalInv /\ (\A k \in Refs : Answered(k))

\* The same for refunds, while the register does not undo the rows they led to.
THEOREM AttemptsStayLoud == TerminalSpec /\ []RefundsStand => []ChargeIsLoud
<1>1. TerminalInit => AnsweredInv
  BY Answered_Init DEF AnsweredInv
<1>2. AnsweredInv /\ RefundsStand /\ [TerminalNext]_allVars => AnsweredInv'
  <2> SUFFICES ASSUME AnsweredInv, RefundsStand, [TerminalNext]_allVars PROVE AnsweredInv'
    OBVIOUS
  <2>1. CASE TerminalNext
    BY <2>1, TerminalNext_Types, TerminalNext_Answered DEF AnsweredInv, RefundsStand
  <2>2. CASE UNCHANGED allVars
    <3>1. TerminalTypes' /\ TerminalInv'
      BY <2>2, Terminal_Stutter DEF AnsweredInv
    <3> QED BY <2>2, <3>1 DEF allVars, vars, terminalVars, AnsweredInv, Answered, RowsFor, K
  <2> QED BY <2>1, <2>2
<1>3. AnsweredInv => ChargeIsLoud
  <2> SUFFICES ASSUME AnsweredInv, AllIdle, NEW k \in Refs, attempt[k].latch # "open"
               PROVE  RowsFor(k) # {} \/ attempt[k].failed
    BY DEF ChargeIsLoud
  <2>1. \A p \in Tills : proc[p].at \notin Answering
    BY DEF AllIdle, Idle, At, Answering, Booking
  <2> QED BY <2>1 DEF AnsweredInv, Answered
<1> QED BY <1>1, <1>2, <1>3, PTL DEF TerminalSpec
=============================================================================
