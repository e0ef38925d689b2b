---------------------------- MODULE PosBillProofs ----------------------------
(***************************************************************************)
(* Theorems about the bills of PosBill, alone and as the runs of           *)
(* MCPosTills have them, for any number of bills, tills and gift cards:    *)
(* what comes off a gift card is on the books, what is paid was covered,   *)
(* refunds stay within payments; with requests that may die at any step    *)
(* where that holds.                                                       *)
(***************************************************************************)
EXTENDS MCPosTills, SumTheorems, FiniteSetTheorems, TLAPS

-----------------------------------------------------------------------------
(* What a handler of the register knows where it stands *)

\* What a handler knows where it stands: its bill is one, the tip it will write
\* is no debt, a split is nobody else's booking; what it takes from a wallet is
\* something, and a refund goes into none.
Fit(q) ==
    /\ q.at \notin {"idle", "away", "splitNext"} => q.b \in Bills
    /\ q.at = "merge" => q.other \in Bills /\ q.other # q.b
    /\ q.at = "splitNext" \/ q.back = "splitNext" =>
          q.other \in Bills /\ q.then = "idle" /\ q.catch = "idle"
    /\ q.at \in {"debit", "record", "status", "undoDelete", "undoStatus"} => q.tips >= 0
    /\ q.at = "refund" => q.method \notin Wallets
    /\ q.at = "record" /\ q.method \in Wallets => q.amt + q.tip > 0

RowIds ==
    /\ IsFiniteSet(pays)
    /\ \A r \in pays : r.id <= written
    /\ \A r, s \in pays : r.id = s.id => r = s

\* A card that was issued and not revoked is live.
LiveCards ==
    /\ \A s \in Sales : sale[s].issued /\ ~sale[s].revoked => cards[s] >= 1
    /\ \A p \in Tills : \A s \in proc[p].doing :
          sale[s].on # NoBill /\ ~sale[s].revoked => cards[s] >= 1

BillTypes == TypeOK /\ (\A p \in Tills : Fit(proc[p])) /\ RowIds /\ LiveCards

-----------------------------------------------------------------------------
(* Records and sums of rows *)

LEMMA ProcFields_Typed ==
    \A q \in ProcRecord :
        /\ q.at \in Stops /\ q.b \in Bills \cup {NoBill} /\ q.other \in Bills \cup {NoBill}
        /\ q.want \in Nat /\ q.tip \in Nat /\ q.method \in Methods /\ q.ref \in Refs \cup {NoRef}
        /\ q.amt \in Int /\ q.settle \in BOOLEAN /\ q.tips \in Int /\ q.sum \in Nat /\ q.pay \in Nat
        /\ q.todo \in SUBSET Sales /\ q.doing \in SUBSET Sales /\ q.kids \in SUBSET Bills
        /\ q.back \in {"idle", "payReread", "splitNext"} /\ q.then \in {"idle", "booked", "paid"}
        /\ q.catch \in {"idle", "notBooked"}
BY DEF ProcRecord

LEMMA Places_Known ==
    /\ {"idle", "setLines", "addSale", "removeSale", "syncRead", "syncClear", "syncCreate", "recRead",
        "recWrite", "merge", "splitNext", "payReread", "debit", "record", "status", "issueList",
        "issueNext", "issueMark", "undoDelete", "undoStatus", "void", "reopen", "refund",
        "refundCards"} \subseteq Stops
    /\ {"inFlight", "toSquare", "row", "ask", "writeStatus", "claim", "book", "booked", "notBooked",
        "cancel"} \subseteq Stops
    /\ {"session", "existing", "confirm", "pay", "paid", "away"} \subseteq Stops
BY DEF Stops

LEMMA Idle_Typed == IdleProc \in ProcRecord /\ Fit(IdleProc) /\ IdleProc.doing = {}
<1>1. "CASH" \in Methods /\ "idle" \in Stops
  BY DEF Methods, Stops
<1>2. IdleProc \in ProcRecord
  BY <1>1 DEF ProcRecord, IdleProc
<1>3. Fit(IdleProc)
  BY DEF IdleProc, Fit
<1> QED BY <1>2, <1>3 DEF IdleProc

\* Sums over rows that are there.
LEMMA Rows_Sum ==
    ASSUME BillTypes, NEW rows, rows \subseteq pays
    PROVE  IsFiniteSet(rows) /\ Paid(rows) \in Int /\ Tips(rows) \in Int
<1>1. IsFiniteSet(rows)
  BY FS_Subset DEF BillTypes, RowIds
<1>2. \A r \in rows : r.amt \in Int /\ r.tip \in Int
  BY DEF BillTypes, TypeOK, PaymentRecord
<1>3. Paid(rows) \in Int
  <2> DEFINE f == [r \in rows |-> r.amt]
  <2>1. \A r \in rows : f[r] \in Int BY <1>2
  <2> HIDE DEF f
  <2>2. SumFunctionOnSet(f, rows) \in Int BY <1>1, <2>1, SumType
  <2> QED BY <2>2 DEF Paid, f
<1>4. Tips(rows) \in Int
  <2> DEFINE f == [r \in rows |-> r.tip]
  <2>1. \A r \in rows : f[r] \in Int BY <1>2
  <2> HIDE DEF f
  <2>2. SumFunctionOnSet(f, rows) \in Int BY <1>1, <2>1, SumType
  <2> QED BY <2>2 DEF Tips, f
<1> QED BY <1>1, <1>3, <1>4

LEMMA Bill_Sums ==
    ASSUME BillTypes, NEW b
    PROVE  Paid(Of(b)) \in Int /\ Tips(Of(b)) \in Int /\ Taken(b) \in Int /\ CardTips(b) \in Int
<1>1. Of(b) \subseteq pays /\ {r \in Of(b) : r.method # "CASH" /\ r.tip > 0} \subseteq pays
  BY DEF Of
<1> QED BY <1>1, Rows_Sum DEF Taken, CardTips

LEMMA Smaller == \A m, n \in Int : Min({m, n}) \in {m, n} /\ Min({m, n}) <= m /\ Min({m, n}) <= n
<1> SUFFICES ASSUME NEW m \in Int, NEW n \in Int
             PROVE  Min({m, n}) \in {m, n} /\ Min({m, n}) <= m /\ Min({m, n}) <= n
  OBVIOUS
<1>1. \E x \in {m, n} : \A y \in {m, n} : x <= y
  OBVIOUS
<1> QED BY <1>1 DEF Min

\* The rows of s become rows of t and keep everything else.
MovedRows(t, s) == pays' = {IF r.bill = s THEN [r EXCEPT !.bill = t] ELSE r : r \in pays}

LEMMA Merge_Map ==
    ASSUME BillTypes, NEW t \in Bills, NEW s, MovedRows(t, s)
    PROVE  \E h : /\ pays' = {h[r] : r \in pays}
                  /\ \A r \in pays :
                        /\ h[r] \in PaymentRecord /\ h[r].id = r.id /\ h[r].method = r.method
                        /\ h[r].amt = r.amt /\ h[r].tip = r.tip /\ h[r].ref = r.ref
                        /\ h[r].bill = IF r.bill = s THEN t ELSE r.bill
                  /\ \A x, y \in pays : h[x] = h[y] => x = y
<1> DEFINE h == [r \in pays |-> IF r.bill = s THEN [r EXCEPT !.bill = t] ELSE r]
<1>1. pays' = {h[r] : r \in pays}
  BY DEF MovedRows
<1>2. ASSUME NEW r \in pays
      PROVE  /\ h[r] \in PaymentRecord /\ h[r].id = r.id /\ h[r].method = r.method
             /\ h[r].amt = r.amt /\ h[r].tip = r.tip /\ h[r].ref = r.ref
             /\ h[r].bill = IF r.bill = s THEN t ELSE r.bill
  <2>1. r \in PaymentRecord
    BY DEF BillTypes, TypeOK
  <2>2. h[r] = IF r.bill = s THEN [r EXCEPT !.bill = t] ELSE r
    OBVIOUS
  <2> HIDE DEF h
  <2> QED BY <2>1, <2>2 DEF PaymentRecord
<1> HIDE DEF h
<1>3. \A x, y \in pays : h[x] = h[y] => x = y
  BY <1>2 DEF BillTypes, RowIds
<1> QED BY <1>1, <1>2, <1>3

LEMMA Merged_Rows ==
    ASSUME BillTypes, NEW t \in Bills, NEW s, MovedRows(t, s), UNCHANGED written
    PROVE  pays' \subseteq PaymentRecord /\ RowIds'
<1>1. PICK h : /\ pays' = {h[r] : r \in pays}
               /\ \A r \in pays : h[r] \in PaymentRecord /\ h[r].id = r.id
               /\ \A x, y \in pays : h[x] = h[y] => x = y
  BY Merge_Map
<1>2. IsFiniteSet(pays')
  <2> DEFINE f == [r \in pays |-> 0]
             g == [r \in pays' |-> 0]
  <2>1. \A r \in pays : f[r] \in Int /\ g[h[r]] = f[r]
    BY <1>1
  <2>2. IsFiniteSet(pays)
    BY DEF BillTypes, RowIds
  <2> HIDE DEF f, g
  <2>4. \A x, y \in pays : h[x] = h[y] => x = y
    BY <1>1
  <2>3. /\ IsFiniteSet({h[r] : r \in pays})
        /\ SumFunctionOnSet(g, {h[r] : r \in pays}) = SumFunctionOnSet(f, pays)
    BY <2>1, <2>2, <2>4, SumImage
  <2> QED BY <1>1, <2>3
<1>3. pays' \subseteq PaymentRecord
  BY <1>1
<1>4. \A r \in pays' : r.id <= written'
  BY <1>1 DEF BillTypes, RowIds
<1>5. \A r, s2 \in pays' : r.id = s2.id => r = s2
  BY <1>1 DEF BillTypes, RowIds
<1> QED BY <1>2, <1>3, <1>4, <1>5 DEF RowIds

-----------------------------------------------------------------------------
(* How a handler moves *)

Moved(p) ==
    /\ proc' \in [Tills -> ProcRecord]
    /\ \A q \in Tills : q # p => proc'[q] = proc[q]
    /\ Fit(proc'[p])
    /\ proc'[p].doing \subseteq proc[p].doing

LEMMA Set_Moved ==
    ASSUME BillTypes, NEW p \in Tills, NEW rec \in ProcRecord, proc' = [proc EXCEPT ![p] = rec],
           Fit(rec), rec.doing \subseteq proc[p].doing
    PROVE  Moved(p)
BY DEF BillTypes, TypeOK, Moved

LEMMA Idle_Moved ==
    ASSUME BillTypes, NEW p \in Tills, proc' = [proc EXCEPT ![p] = IdleProc]
    PROVE  Moved(p)
BY Idle_Typed, Set_Moved

LEMMA Stays_Moved ==
    ASSUME BillTypes, NEW p \in Tills, UNCHANGED proc
    PROVE  Moved(p)
BY DEF BillTypes, TypeOK, Moved

LEMMA Goto_Moved ==
    ASSUME BillTypes, NEW p \in Tills, NEW w \in Stops, Goto(p, w),
           Fit([proc[p] EXCEPT !.at = w])
    PROVE  Moved(p)
<1> DEFINE rec == [proc[p] EXCEPT !.at = w]
<1>1. proc[p] \in ProcRecord /\ proc' = [proc EXCEPT ![p] = rec]
  BY DEF BillTypes, TypeOK, Goto
<1>2. rec \in ProcRecord /\ rec.doing = proc[p].doing
  BY <1>1 DEF ProcRecord
<1> HIDE DEF rec
<1>3. Fit(rec) BY DEF rec
<1> QED BY <1>1, <1>2, <1>3, Set_Moved

\* Going on to a place where nothing is asked of the handler but its bill.
LEMMA On_Moved ==
    ASSUME BillTypes, NEW p \in Tills, NEW w \in Stops, Goto(p, w),
           w \notin {"debit", "record", "status", "undoDelete", "undoStatus", "refund", "merge", "splitNext"},
           proc[p].at \notin {"idle", "away", "splitNext"}
    PROVE  Moved(p)
<1>1. proc[p] \in ProcRecord /\ Fit(proc[p])
  BY DEF BillTypes, TypeOK
<1>2. Fit([proc[p] EXCEPT !.at = w])
  BY <1>1 DEF Fit, ProcRecord
<1> QED BY <1>2, Goto_Moved

LEMMA Return_Moved ==
    ASSUME BillTypes, NEW p \in Tills, Return(p) \/ Throw(p), proc[p].at \notin {"idle", "away"}
    PROVE  Moved(p)
<1>1. proc[p] \in ProcRecord /\ Fit(proc[p])
  BY DEF BillTypes, TypeOK
<1>2. proc[p].then \in {"idle", "booked", "paid"} /\ proc[p].catch \in {"idle", "notBooked"}
  BY <1>1, ProcFields_Typed
<1>3. PICK w \in {proc[p].then, proc[p].catch} :
         proc' = [proc EXCEPT ![p] = IF w = "idle" THEN IdleProc ELSE [proc[p] EXCEPT !.at = w]]
  BY DEF Return, Throw, GoOrIdle
<1>4. CASE w = "idle"
  BY <1>3, <1>4, Idle_Moved
<1>5. CASE w # "idle"
  <2>1. w \in Stops /\ w \in {"booked", "paid", "notBooked"}
    BY <1>2, <1>5, Places_Known
  <2>2. proc[p].at # "splitNext"
    BY <1>1, <1>5 DEF Fit
  <2>3. Goto(p, w)
    BY <1>3, <1>5 DEF Goto
  <2> QED BY <2>1, <2>2, <2>3, On_Moved
<1> QED BY <1>4, <1>5

\* A new request.
LEMMA Begin_Moved ==
    ASSUME BillTypes, NEW p \in Tills, NEW w \in Stops, NEW b \in Bills, Begin(p, w, b),
           w \notin {"debit", "record", "status", "refund", "merge", "splitNext"}
    PROVE  Moved(p)
<1> DEFINE rec == [IdleProc EXCEPT !.at = w, !.b = b]
<1>1. rec \in ProcRecord /\ rec.doing = {}
  BY Idle_Typed DEF ProcRecord
<1>2. Fit(rec)
  BY Idle_Typed DEF ProcRecord, Fit, IdleProc
<1>3. proc' = [proc EXCEPT ![p] = rec]
  BY DEF Begin
<1> HIDE DEF rec
<1> QED BY <1>1, <1>2, <1>3, Set_Moved

\* A move that leaves sales and cards alone, with tables of the right type.
LEMMA Typed ==
    ASSUME BillTypes, NEW p \in Tills, Moved(p), UNCHANGED <<sale, cards>>,
           bill' \in [Bills -> BillRecord], wallet' \in [Wallets -> Nat],
           pays' \subseteq PaymentRecord, written' \in 0..MaxPayments, RowIds'
    PROVE  BillTypes'
<1>1. \A q \in Tills : Fit(proc'[q])
  BY DEF BillTypes, Moved
<1>2. TypeOK'
  BY DEF BillTypes, TypeOK, Moved
<1>3. LiveCards'
  BY DEF BillTypes, LiveCards, Moved
<1> QED BY <1>1, <1>2, <1>3 DEF BillTypes

LEMMA Typed_Bill ==
    ASSUME BillTypes, NEW p \in Tills, Moved(p), UNCHANGED <<pays, written, sale, cards, wallet>>,
           bill' \in [Bills -> BillRecord]
    PROVE  BillTypes'
<1>1. RowIds'
  BY DEF BillTypes, RowIds
<1> QED BY <1>1, Typed DEF BillTypes, TypeOK

LEMMA Typed_Move ==
    ASSUME BillTypes, NEW p \in Tills, Moved(p), UNCHANGED billVars
    PROVE  BillTypes'
<1>1. bill' \in [Bills -> BillRecord]
  BY DEF BillTypes, TypeOK, billVars
<1> QED BY <1>1, Typed_Bill DEF billVars

-----------------------------------------------------------------------------
(* Requests *)

LEMMA RingUp_Types ==
    ASSUME BillTypes, NEW p \in Tills, RingUp(p)
    PROVE  BillTypes'
<1>0. bill \in [Bills -> BillRecord] /\ proc \in [Tills -> ProcRecord] /\ sale \in [Sales -> SaleRecord]
  BY DEF BillTypes, TypeOK
<1>1. ASSUME NEW b \in Bills, CreateOrder(p, b) PROVE BillTypes'
  <2>1. bill' \in [Bills -> BillRecord]
    BY <1>0, <1>1 DEF CreateOrder, BillRecord
  <2>2. UNCHANGED <<pays, written, sale, cards, wallet, proc>>
    BY <1>1 DEF CreateOrder
  <2> QED BY <2>1, <2>2, Stays_Moved, Typed_Bill
<1>2. ASSUME NEW b \in Bills, NEW goods \in 0..MaxGoods, SetLinesRead(p, b, goods) PROVE BillTypes'
  <2> DEFINE rec == [IdleProc EXCEPT !.at = "setLines", !.b = b, !.want = goods]
  <2>0. goods \in Nat
    OBVIOUS
  <2>1. rec \in ProcRecord /\ Fit(rec) /\ rec.doing = {}
    BY <2>0, Idle_Typed, Places_Known DEF ProcRecord, Fit, IdleProc
  <2>2. proc' = [proc EXCEPT ![p] = rec] /\ UNCHANGED billVars
    BY <1>2 DEF SetLinesRead
  <2> HIDE DEF rec
  <2> QED BY <2>1, <2>2, Set_Moved, Typed_Move
<1>3. ASSUME NEW b \in Bills, AddGiftCardSaleRead(p, b) PROVE BillTypes'
  BY <1>3, Begin_Moved, Typed_Move, Places_Known DEF AddGiftCardSaleRead
<1>4. ASSUME NEW b \in Bills, SplitRead(p, b) PROVE BillTypes'
  <2> DEFINE n == bill[b].goods + bill[b].gifts
             rec == [IdleProc EXCEPT !.at = "splitNext", !.other = b, !.want = n]
  <2>0. n \in Nat
    BY <1>0 DEF BillRecord
  <2>1. proc' = [proc EXCEPT ![p] = rec] /\ UNCHANGED billVars
    BY <1>4 DEF SplitRead
  <2> HIDE DEF n
  <2>2. rec \in ProcRecord /\ Fit(rec) /\ rec.doing = {}
    BY <2>0, Idle_Typed, Places_Known DEF ProcRecord, Fit, IdleProc
  <2> HIDE DEF rec
  <2> QED BY <2>1, <2>2, Set_Moved, Typed_Move
<1>5. ASSUME NEW b \in Bills, NEW source \in Bills, MergeRead(p, b, source) PROVE BillTypes'
  <2> DEFINE rec == [IdleProc EXCEPT !.at = "merge", !.b = b, !.other = source]
  <2>1. source # b
    BY <1>5 DEF MergeRead
  <2>3. rec \in ProcRecord /\ Fit(rec) /\ rec.doing = {}
    BY <2>1, Idle_Typed, Places_Known DEF ProcRecord, Fit, IdleProc
  <2>2. proc' = [proc EXCEPT ![p] = rec] /\ UNCHANGED billVars
    BY <1>5 DEF MergeRead
  <2> HIDE DEF rec
  <2> QED BY <2>2, <2>3, Set_Moved, Typed_Move
<1>6. ASSUME NEW s \in Sales, RemoveGiftCardSaleRead(p, s) PROVE BillTypes'
  <2> DEFINE rec == [IdleProc EXCEPT !.at = "removeSale", !.b = sale[s].on, !.todo = {s}]
  <2>0. sale[s].on \in Bills
    BY <1>0, <1>6 DEF RemoveGiftCardSaleRead, SaleRecord
  <2>1. rec \in ProcRecord /\ Fit(rec) /\ rec.doing = {}
    BY <2>0, Idle_Typed, Places_Known DEF ProcRecord, Fit, IdleProc
  <2>2. proc' = [proc EXCEPT ![p] = rec] /\ UNCHANGED billVars
    BY <1>6 DEF RemoveGiftCardSaleRead
  <2> HIDE DEF rec
  <2> QED BY <2>1, <2>2, Set_Moved, Typed_Move
<1> QED BY <1>1, <1>2, <1>3, <1>4, <1>5, <1>6 DEF RingUp

\* A payment or a refund that is refused.
LEMMA Refused_Typed ==
    ASSUME NEW q \in ProcRecord, q.b \in Bills, q.back # "splitNext"
    PROVE  Refused(q) \in ProcRecord /\ Fit(Refused(q)) /\ Refused(q).doing \subseteq q.doing
<1>1. CASE q.catch = "idle"
  BY <1>1, Idle_Typed DEF Refused
<1>2. CASE q.catch = "notBooked"
  BY <1>2, Places_Known DEF Refused, ProcRecord, Fit
<1> QED BY <1>1, <1>2, ProcFields_Typed

LEMMA Decide_Typed ==
    ASSUME BillTypes, NEW q \in ProcRecord, q.b \in Bills, q.back # "splitNext"
    PROVE  Decide(q) \in ProcRecord /\ Fit(Decide(q)) /\ Decide(q).doing \subseteq q.doing
<1> DEFINE balance == bill[q.b].total - Paid(Of(q.b))
           amount == IF q.want = 0 THEN balance ELSE q.want
           w == IF q.method \in Wallets THEN "debit" ELSE "record"
           t == bill[q.b].tip
           full == amount >= balance
           rec == [q EXCEPT !.amt = amount, !.settle = full, !.tips = t, !.at = w]
<1>1. bill[q.b].total \in Nat /\ t \in Nat /\ t \in Int
  BY DEF BillTypes, TypeOK, BillRecord
<1>2. amount \in Int /\ full \in BOOLEAN
  BY <1>1, Bill_Sums, ProcFields_Typed
<1>3. w \in Stops /\ (w = "record" => q.method \notin Wallets) /\ w \in {"debit", "record"}
  BY Places_Known
<1>4. Decide(q) \in {rec, Refused(q)}
  BY DEF Decide
<1> HIDE DEF amount, w, t, full
<1>5. rec \in ProcRecord /\ rec.doing = q.doing
  BY <1>1, <1>2, <1>3 DEF ProcRecord
<1>6. Fit(rec)
  BY <1>1, <1>3 DEF ProcRecord, Fit
<1> QED BY <1>4, <1>5, <1>6, Refused_Typed

LEMMA TakePayment_Typed ==
    ASSUME BillTypes, NEW q \in ProcRecord, q.b \in Bills, q.back # "splitNext"
    PROVE  /\ TakePayment(q) \in ProcRecord /\ Fit(TakePayment(q))
           /\ TakePayment(q).doing \subseteq q.doing
<1> DEFINE rec == [q EXCEPT !.at = "recRead", !.back = "payReread"]
<1>1. rec \in ProcRecord /\ Fit(rec) /\ rec.doing = q.doing
  BY Places_Known DEF ProcRecord, Fit
<1>2. TakePayment(q) \in {rec, Refused(q), Decide(q)}
  BY DEF TakePayment
<1> QED BY <1>1, <1>2, Refused_Typed, Decide_Typed

LEMMA TakeRefund_Typed ==
    ASSUME BillTypes, NEW q \in ProcRecord, q.b \in Bills, q.back # "splitNext", q.method \notin Wallets
    PROVE  /\ TakeRefund(q) \in ProcRecord /\ Fit(TakeRefund(q))
           /\ TakeRefund(q).doing \subseteq q.doing
<1> DEFINE r == bill[q.b]
           over == Taken(q.b) - (r.total + r.tip)
           refundable == IF r.status = "PAID" THEN Taken(q.b) ELSE over
           amount == IF q.want = 0 THEN refundable ELSE q.want
           full == amount >= Taken(q.b)
           t == IF full THEN Min({CardTips(q.b), amount}) ELSE 0
           rec == [q EXCEPT !.at = "refund", !.amt = amount, !.settle = full, !.tips = t]
<1>1. r.total \in Nat /\ r.tip \in Nat
  BY DEF BillTypes, TypeOK, BillRecord
<1>2. amount \in Int /\ full \in BOOLEAN
  BY <1>1, Bill_Sums, ProcFields_Typed
<1>3. t \in Int
  <2> HIDE DEF amount, full
  <2>1. Min({CardTips(q.b), amount}) \in Int
    BY <1>2, Bill_Sums, Smaller
  <2> QED BY <2>1
<1>4. TakeRefund(q) \in {rec, Refused(q)}
  BY DEF TakeRefund
<1> HIDE DEF amount, t, full
<1>5. rec \in ProcRecord /\ rec.doing = q.doing
  BY <1>2, <1>3, Places_Known DEF ProcRecord
<1>6. Fit(rec)
  BY DEF ProcRecord, Fit
<1> QED BY <1>4, <1>5, <1>6, Refused_Typed

LEMMA SettleUp_Types ==
    ASSUME BillTypes, NEW p \in Tills, SettleUp(p)
    PROVE  BillTypes'
<1>0. bill \in [Bills -> BillRecord] /\ proc \in [Tills -> ProcRecord] /\ pays \subseteq PaymentRecord
  BY DEF BillTypes, TypeOK
<1>1. ASSUME NEW b \in Bills, NEW method \in TillTenders, NEW want \in 0..MaxGoods,
             NEW tip \in 0..MaxTip, PayOrder(p, b, method, want, tip)
      PROVE  BillTypes'
  <2> DEFINE q == [IdleProc EXCEPT !.b = b, !.method = method, !.want = want, !.tip = tip]
  <2>0. method \in Methods /\ want \in Nat /\ tip \in Nat
    BY PosBillAssumption DEF Methods
  <2>1. q \in ProcRecord /\ q.b = b /\ q.back = "idle" /\ q.doing = {}
    BY <2>0, Idle_Typed DEF ProcRecord, IdleProc
  <2>2. proc' = [proc EXCEPT ![p] = TakePayment(q)] /\ UNCHANGED billVars
    BY <1>1 DEF PayOrder
  <2> HIDE DEF q
  <2> QED BY <2>1, <2>2, TakePayment_Typed, Set_Moved, Typed_Move
<1>2. ASSUME NEW b \in Bills, NEW method \in {"CASH", "REFUND"}, NEW want \in 0..MaxGoods,
             RefundOrder(p, b, method, want)
      PROVE  BillTypes'
  <2> DEFINE q == [IdleProc EXCEPT !.b = b, !.method = method, !.want = want]
  <2>0. method \in Methods /\ want \in Nat /\ method \notin Wallets
    BY DEF Methods, Wallets
  <2>1. q \in ProcRecord /\ q.b = b /\ q.back = "idle" /\ q.doing = {} /\ q.method = method
    BY <2>0, Idle_Typed DEF ProcRecord, IdleProc
  <2>2. proc' = [proc EXCEPT ![p] = TakeRefund(q)] /\ UNCHANGED billVars
    BY <1>2 DEF RefundOrder
  <2> HIDE DEF q
  <2> QED BY <2>0, <2>1, <2>2, TakeRefund_Typed, Set_Moved, Typed_Move
<1>3. ASSUME NEW b \in Bills, VoidRead(p, b) PROVE BillTypes'
  BY <1>3, Begin_Moved, Typed_Move, Places_Known DEF VoidRead
<1>4. ASSUME NEW b \in Bills, ReopenRead(p, b) PROVE BillTypes'
  BY <1>4, Begin_Moved, Typed_Move, Places_Known DEF ReopenRead
<1>5. ASSUME NEW r \in pays, UndoRead(p, r) PROVE BillTypes'
  <2> DEFINE t == AtLeastZero(bill[r.bill].tip - r.tip)
             rec == [IdleProc EXCEPT !.at = "undoDelete", !.b = r.bill, !.pay = r.id, !.tips = t]
  <2>0. r.bill \in Bills /\ r.id \in Nat /\ t \in Nat /\ t \in Int
    BY <1>0 DEF PaymentRecord, BillRecord, AtLeastZero
  <2>1. proc' = [proc EXCEPT ![p] = rec] /\ UNCHANGED billVars
    BY <1>5 DEF UndoRead
  <2> HIDE DEF t
  <2>2. rec \in ProcRecord /\ rec.doing = {}
    BY <2>0, Idle_Typed, Places_Known DEF ProcRecord
  <2>3. rec.at = "undoDelete" /\ rec.b \in Bills /\ rec.back = "idle" /\ rec.tips >= 0
    BY <2>0, Idle_Typed DEF ProcRecord, IdleProc
  <2> HIDE DEF rec
  <2>4. Fit(rec)
    BY <2>3 DEF Fit
  <2> QED BY <2>1, <2>2, <2>4, Set_Moved, Typed_Move
<1> QED BY <1>1, <1>2, <1>3, <1>4, <1>5 DEF SettleUp

LEMMA Crash_Types ==
    ASSUME BillTypes, NEW p \in Tills, Crash(p)
    PROVE  BillTypes'
BY Idle_Moved, Typed_Move DEF Crash

-----------------------------------------------------------------------------
(* Steps *)

\* A bill that gets new figures.
LEMMA Bill_Typed ==
    ASSUME BillTypes, NEW b, NEW rec \in BillRecord, bill' = [bill EXCEPT ![b] = rec]
    PROVE  bill' \in [Bills -> BillRecord]
BY DEF BillTypes, TypeOK

LEMMA LineStep_Types ==
    ASSUME BillTypes, NEW p \in Tills, LineStep(p)
    PROVE  BillTypes'
<1>0. /\ bill \in [Bills -> BillRecord] /\ proc \in [Tills -> ProcRecord] /\ sale \in [Sales -> SaleRecord]
      /\ proc[p] \in ProcRecord /\ Fit(proc[p]) /\ proc[p].b \in Bills \cup {NoBill}
      /\ NoBill \notin Bills /\ proc[p].want \in Nat /\ proc[p].sum \in Nat
      /\ proc[p].other \in Bills \cup {NoBill} /\ proc[p].kids \in SUBSET Bills
  BY PosBillAssumption, ProcFields_Typed DEF BillTypes, TypeOK
<1>1. CASE SetLines(p)
  <2>1. bill' \in [Bills -> BillRecord]
    <3> DEFINE b == B(p)
               rec == [bill[b] EXCEPT !.goods = proc[p].want, !.gifts = 0]
    <3>1. b \in Bills
      BY <1>0, <1>1 DEF SetLines, At, Fit, B
    <3>2. bill[b] \in BillRecord /\ rec \in BillRecord
      BY <1>0, <3>1 DEF BillRecord
    <3>3. bill' = [bill EXCEPT ![b].goods = proc[p].want, ![b].gifts = 0]
      BY <1>1 DEF SetLines
    <3> HIDE DEF b
    <3>4. bill' = [bill EXCEPT ![b] = rec]
      BY <1>0, <3>1, <3>3
    <3> HIDE DEF rec
    <3> QED BY <3>2, <3>4, Bill_Typed
  <2>2. Moved(p)
    BY <1>1, On_Moved, Places_Known DEF SetLines, At
  <2> QED BY <1>1, <2>1, <2>2, Typed_Bill DEF SetLines
<1>2. ASSUME NEW s \in Sales, AddGiftCardSale(p, s) PROVE BillTypes'
  <2>1. Moved(p)
    BY <1>2, On_Moved, Places_Known DEF AddGiftCardSale, At
  <2>2. B(p) \in Bills
    BY <1>0, <1>2 DEF AddGiftCardSale, At, Fit, B
  <2>3. sale' \in [Sales -> SaleRecord]
    BY <1>0, <1>2, <2>2 DEF AddGiftCardSale, SaleRecord
  <2>4. LiveCards'
    <3>1. cards[s] = 0 /\ \A q \in Tills : s \notin proc[q].doing
      BY <1>2 DEF AddGiftCardSale, Unsold
    <3>2. UNCHANGED cards /\ sale' = [sale EXCEPT ![s].on = B(p)]
      BY <1>2 DEF AddGiftCardSale
    <3>3. \A x \in Sales : sale'[x].issued = sale[x].issued /\ sale'[x].revoked = sale[x].revoked
      BY <1>0, <3>2 DEF SaleRecord
    <3>4. \A x \in Sales : x # s => sale'[x] = sale[x]
      BY <1>0, <3>2
    <3>5. \A q \in Tills : proc'[q].doing \subseteq proc[q].doing
      BY <2>1 DEF Moved
    <3>6. \A q \in Tills : proc[q].doing \subseteq Sales
      BY <1>0, ProcFields_Typed
    <3> QED BY <3>1, <3>2, <3>3, <3>4, <3>5, <3>6 DEF BillTypes, LiveCards
  <2>5. UNCHANGED <<bill, pays, written, cards, wallet>>
    BY <1>2 DEF AddGiftCardSale
  <2>6. TypeOK'
    BY <2>1, <2>3, <2>5 DEF BillTypes, TypeOK, Moved
  <2> QED BY <2>1, <2>4, <2>5, <2>6 DEF BillTypes, RowIds, Moved
<1>3. CASE RemoveGiftCardSale(p)
  <2>0. UNCHANGED <<bill, pays, written, cards, wallet>> /\ proc[p].at = "removeSale"
    BY <1>3 DEF RemoveGiftCardSale, At
  <2>1. CASE Throw(p) /\ UNCHANGED sale
    BY <2>0, <2>1, Return_Moved, Typed_Move DEF billVars
  <2>2. ASSUME NEW s \in Sales, sale' = [sale EXCEPT ![s] = NoSaleYet],
               proc' = [proc EXCEPT ![p].at = "syncRead", ![p].todo = {}]
        PROVE  BillTypes'
    <3> DEFINE rec == [proc[p] EXCEPT !.at = "syncRead", !.todo = {}]
    <3>1. rec \in ProcRecord /\ Fit(rec) /\ rec.doing = proc[p].doing
      BY <1>0, <2>0, Places_Known DEF ProcRecord, Fit
    <3>2. proc' = [proc EXCEPT ![p] = rec]
      BY <1>0, <2>2
    <3> HIDE DEF rec
    <3>3. Moved(p)
      BY <3>1, <3>2, Set_Moved
    <3>4. sale' \in [Sales -> SaleRecord]
      BY <1>0, <2>2 DEF NoSaleYet, SaleRecord
    <3>5. LiveCards'
      <4>1. \A x \in Sales : sale'[x] = sale[x] \/ (sale'[x].on = NoBill /\ sale'[x].issued = FALSE)
        BY <1>0, <2>2 DEF NoSaleYet
      <4>2. \A q \in Tills : proc'[q].doing \subseteq proc[q].doing /\ proc[q].doing \subseteq Sales
        BY <1>0, <3>3, ProcFields_Typed DEF Moved
      <4> QED BY <2>0, <4>1, <4>2 DEF BillTypes, LiveCards
    <3>6. TypeOK'
      BY <2>0, <3>3, <3>4 DEF BillTypes, TypeOK, Moved
    <3> QED BY <2>0, <3>3, <3>5, <3>6 DEF BillTypes, RowIds, Moved
  <2>3. proc[p].todo \subseteq Sales
    BY <1>0, ProcFields_Typed
  <2> QED BY <1>3, <2>1, <2>2, <2>3 DEF RemoveGiftCardSale
<1>4. CASE SyncRead(p)
  <2> DEFINE x == SalesOn(B(p))
             rec == [proc[p] EXCEPT !.at = "syncClear", !.todo = x]
  <2>1. x \in SUBSET Sales
    BY DEF SalesOn
  <2>2. proc' = [proc EXCEPT ![p] = rec] /\ UNCHANGED billVars /\ proc[p].at = "syncRead"
    BY <1>0, <1>4 DEF SyncRead, At
  <2> HIDE DEF x
  <2>3. rec \in ProcRecord /\ Fit(rec) /\ rec.doing = proc[p].doing
    BY <1>0, <2>1, <2>2, Places_Known DEF ProcRecord, Fit
  <2> HIDE DEF rec
  <2> QED BY <2>2, <2>3, Set_Moved, Typed_Move
<1>5. CASE SyncClear(p)
  <2>1. bill' \in [Bills -> BillRecord]
    BY <1>0, <1>5 DEF SyncClear, BillRecord, B
  <2>2. Moved(p)
    BY <1>5, On_Moved, Places_Known DEF SyncClear, At
  <2> QED BY <1>5, <2>1, <2>2, Typed_Bill DEF SyncClear
<1>6. CASE SyncCreate(p)
  <2> DEFINE n == Cardinality(proc[p].todo)
             rec == [proc[p] EXCEPT !.at = "recRead", !.todo = {}]
  <2>1. n \in Nat
    BY <1>0, PosBillAssumption, ProcFields_Typed, FS_Subset, FS_CardinalityType
  <2>2. bill' \in [Bills -> BillRecord]
    <3> HIDE DEF n
    <3>1. bill' = [bill EXCEPT ![B(p)].gifts = @ + n]
      BY <1>6 DEF SyncCreate, n
    <3>2. B(p) \in Bills
      BY <1>0, <1>6 DEF SyncCreate, At, Fit, B
    <3> QED BY <1>0, <2>1, <3>1, <3>2 DEF BillRecord
  <2>3. proc' = [proc EXCEPT ![p] = rec] /\ proc[p].at = "syncCreate"
    BY <1>0, <1>6 DEF SyncCreate, At
  <2>4. rec \in ProcRecord /\ Fit(rec) /\ rec.doing = proc[p].doing
    BY <1>0, <2>3, Places_Known DEF ProcRecord, Fit
  <2> HIDE DEF rec
  <2> QED BY <1>6, <2>2, <2>3, <2>4, Set_Moved, Typed_Bill DEF SyncCreate
<1>7. CASE RecomputeRead(p)
  <2> DEFINE n == bill[B(p)].goods + bill[B(p)].gifts
             rec == [proc[p] EXCEPT !.at = "recWrite", !.sum = n]
  <2>1. proc' = [proc EXCEPT ![p] = rec] /\ UNCHANGED billVars /\ proc[p].at = "recRead"
    BY <1>0, <1>7 DEF RecomputeRead, At
  <2>2. B(p) \in Bills
    BY <1>0, <2>1 DEF B, Fit
  <2>3. n \in Nat
    BY <1>0, <2>2 DEF BillRecord
  <2> HIDE DEF n
  <2>4. rec \in ProcRecord /\ Fit(rec) /\ rec.doing = proc[p].doing
    BY <1>0, <2>1, <2>3, Places_Known DEF ProcRecord, Fit
  <2> HIDE DEF rec
  <2> QED BY <2>1, <2>4, Set_Moved, Typed_Move
<1>8. CASE RecomputeWrite(p)
  <2>1. bill' \in [Bills -> BillRecord]
    BY <1>0, <1>8 DEF RecomputeWrite, BillRecord
  <2>2. proc[p].at = "recWrite" /\ proc[p].back \in {"idle", "payReread", "splitNext"}
    BY <1>0, <1>8, ProcFields_Typed DEF RecomputeWrite, At
  <2>3. CASE proc[p].back = "idle"
    <3>1. proc' = [proc EXCEPT ![p] = IdleProc]
      BY <1>8, <2>3 DEF RecomputeWrite, GoOrIdle
    <3> QED BY <1>8, <2>1, <3>1, Idle_Moved, Typed_Bill DEF RecomputeWrite
  <2>4. CASE proc[p].back # "idle"
    <3> DEFINE w == proc[p].back
    <3>1. Goto(p, w) /\ w \in Stops /\ w \in {"payReread", "splitNext"}
      BY <1>8, <2>2, <2>4, Places_Known DEF RecomputeWrite, GoOrIdle, Goto
    <3>2. Fit([proc[p] EXCEPT !.at = w])
      BY <1>0, <2>2, <3>1 DEF Fit, ProcRecord
    <3> QED BY <1>8, <2>1, <3>1, <3>2, Goto_Moved, Typed_Bill DEF RecomputeWrite
  <2> QED BY <2>3, <2>4
<1>9. CASE MergeOrders(p)
  <2>0. proc[p].at = "merge" /\ B(p) \in Bills /\ UNCHANGED <<written, sale, cards, wallet>>
    BY <1>0, <1>9 DEF MergeOrders, At, Fit, B
  <2>1. Moved(p)
    BY <1>9, <2>0, On_Moved, Places_Known DEF MergeOrders
  <2>2. bill' \in [Bills -> BillRecord]
    <3> DEFINE t == B(p)
               s == proc[p].other
               into == [bill[t] EXCEPT !.goods = bill[t].goods + bill[s].goods,
                                       !.gifts = bill[t].gifts + bill[s].gifts]
               from == [bill[s] EXCEPT !.goods = 0, !.gifts = 0, !.status = "VOID"]
    <3>1. t \in Bills /\ s \in Bills /\ t # s
      BY <1>0, <2>0 DEF Fit, B
    <3>2. bill[t] \in BillRecord /\ bill[s] \in BillRecord
      BY <1>0, <3>1
    <3>a. bill[t].goods + bill[s].goods \in Nat /\ bill[t].gifts + bill[s].gifts \in Nat
      BY <3>2 DEF BillRecord
    <3>3. into \in BillRecord /\ from \in BillRecord
      <4> DEFINE m == bill[t].goods + bill[s].goods
                 n == bill[t].gifts + bill[s].gifts
      <4>1. into = [bill[t] EXCEPT !.goods = m, !.gifts = n] /\ m \in Nat /\ n \in Nat
        BY <3>a
      <4> HIDE DEF m, n, into
      <4>2. into \in BillRecord
        BY <3>2, <4>1 DEF BillRecord
      <4>3. from \in BillRecord
        BY <3>2 DEF BillRecord
      <4> QED BY <4>2, <4>3
    <3>4. bill' = [bill EXCEPT ![t].goods = @ + bill[s].goods, ![t].gifts = @ + bill[s].gifts,
                               ![s].goods = 0, ![s].gifts = 0, ![s].status = "VOID"]
      BY <1>9 DEF MergeOrders
    <3> HIDE DEF t, s
    <3>5. bill' = [[bill EXCEPT ![t] = into] EXCEPT ![s] = from]
      BY <1>0, <3>1, <3>4
    <3> HIDE DEF into, from
    <3> QED BY <1>0, <3>3, <3>5
  <2>3. pays' \subseteq PaymentRecord /\ RowIds'
    <3>1. MovedRows(B(p), proc[p].other)
      BY <1>9 DEF MergeOrders, MovedRows
    <3> QED BY <2>0, <3>1, Merged_Rows
  <2>4. wallet' \in [Wallets -> Nat] /\ written' \in 0..MaxPayments
    BY <2>0 DEF BillTypes, TypeOK
  <2> QED BY <2>0, <2>1, <2>2, <2>3, <2>4, Typed
<1>10. ASSUME NEW c \in Bills, SplitChild(p, c) PROVE BillTypes'
  <2> DEFINE n == Share(proc[p].want, Cardinality(proc[p].kids))
             rec == [bill[c] EXCEPT !.status = "OPEN", !.goods = n]
             q == [proc[p] EXCEPT !.at = "recRead", !.b = c, !.back = "splitNext",
                                  !.kids = proc[p].kids \cup {c}]
  <2>1. bill' = [bill EXCEPT ![c] = rec] /\ proc' = [proc EXCEPT ![p] = q]
        /\ proc[p].at = "splitNext" /\ UNCHANGED <<pays, written, sale, cards, wallet>>
    BY <1>0, <1>10 DEF SplitChild, At
  <2>2. n \in Nat
    BY <1>0 DEF Share, Ways
  <2> HIDE DEF n
  <2>3. rec \in BillRecord
    BY <1>0, <2>2 DEF BillRecord
  <2>4. q \in ProcRecord /\ Fit(q) /\ q.doing = proc[p].doing
    BY <1>0, <2>1, Places_Known DEF ProcRecord, Fit
  <2> HIDE DEF rec, q
  <2> QED BY <2>1, <2>3, <2>4, Bill_Typed, Set_Moved, Typed_Bill
<1>11. CASE SplitVoid(p)
  <2>1. bill' \in [Bills -> BillRecord]
    BY <1>0, <1>11 DEF SplitVoid, BillRecord
  <2>2. Moved(p)
    BY <1>11, Return_Moved DEF SplitVoid, At
  <2> QED BY <1>11, <2>1, <2>2, Typed_Bill DEF SplitVoid
<1> QED BY <1>1, <1>2, <1>3, <1>4, <1>5, <1>6, <1>7, <1>8, <1>9, <1>10, <1>11 DEF LineStep

\* A new row.
LEMMA Added_Row ==
    ASSUME BillTypes, NEW b \in Bills, NEW method \in Methods, NEW amt \in Int, NEW tip \in Int,
           NEW ref \in Refs \cup {NoRef}, AddPayment(b, method, amt, tip, ref)
    PROVE  /\ pays' \subseteq PaymentRecord /\ written' \in 0..MaxPayments /\ RowIds'
           /\ \E r \in PaymentRecord :
                 /\ r \notin pays /\ pays' = pays \cup {r}
                 /\ r.id = written + 1 /\ r.bill = b /\ r.method = method
                 /\ r.amt = amt /\ r.tip = tip /\ r.ref = ref
<1> DEFINE r == [id |-> written + 1, bill |-> b, method |-> method, amt |-> amt, tip |-> tip, ref |-> ref]
<1>1. written \in Nat /\ written < MaxPayments /\ written' = written + 1 /\ pays' = pays \cup {r}
  BY DEF AddPayment, BillTypes, TypeOK
<1>2. r \in PaymentRecord
  BY <1>1 DEF PaymentRecord
<1>3. r.id = written + 1 /\ r.bill = b /\ r.method = method /\ r.amt = amt /\ r.tip = tip /\ r.ref = ref
  OBVIOUS
<1> HIDE DEF r
<1>4. \A x \in pays : x.id <= written /\ x.id \in Nat
  BY DEF BillTypes, RowIds, TypeOK, PaymentRecord
<1>5. r \notin pays
  BY <1>1, <1>3, <1>4
<1>6. RowIds'
  <2>1. IsFiniteSet(pays')
    BY <1>1, FS_AddElement DEF BillTypes, RowIds
  <2>2. \A x \in pays' : x.id <= written'
    BY <1>1, <1>3, <1>4
  <2>3. \A x, y \in pays' : x.id = y.id => x = y
    BY <1>1, <1>3, <1>4 DEF BillTypes, RowIds
  <2> QED BY <2>1, <2>2, <2>3 DEF RowIds
<1>7. pays' \subseteq PaymentRecord
  BY <1>1, <1>2 DEF BillTypes, TypeOK
<1>8. written' \in 0..MaxPayments
  BY <1>1, PosBillAssumption
<1> QED BY <1>1, <1>2, <1>3, <1>5, <1>6, <1>7, <1>8

LEMMA NextSale_Moved ==
    ASSUME BillTypes, NEW p \in Tills, NEW rest, rest \subseteq Sales, NextSale(p, rest),
           proc[p].at \notin {"idle", "away", "splitNext"}
    PROVE  Moved(p)
<1>1. CASE rest = {}
  BY <1>1, Return_Moved DEF NextSale
<1>2. CASE rest # {}
  <2> DEFINE rec == [proc[p] EXCEPT !.at = "issueNext", !.todo = rest, !.doing = {}]
  <2>1. proc[p] \in ProcRecord /\ Fit(proc[p])
    BY DEF BillTypes, TypeOK
  <2>2. rec \in ProcRecord /\ Fit(rec) /\ rec.doing = {}
    BY <2>1, Places_Known DEF ProcRecord, Fit
  <2>3. proc' = [proc EXCEPT ![p] = rec]
    BY <1>2 DEF NextSale, BillTypes, TypeOK
  <2> HIDE DEF rec
  <2> QED BY <2>2, <2>3, Set_Moved
<1> QED BY <1>1, <1>2

LEMMA PayStep_Types ==
    ASSUME BillTypes, NEW p \in Tills, PayStep(p)
    PROVE  BillTypes'
<1>0. /\ bill \in [Bills -> BillRecord] /\ proc \in [Tills -> ProcRecord] /\ sale \in [Sales -> SaleRecord]
      /\ cards \in [Sales -> 0..2] /\ wallet \in [Wallets -> Nat] /\ written \in 0..MaxPayments
      /\ pays \subseteq PaymentRecord /\ RowIds
      /\ proc[p] \in ProcRecord /\ Fit(proc[p]) /\ proc[p].b \in Bills \cup {NoBill}
      /\ NoBill \notin Bills /\ proc[p].tips \in Int /\ proc[p].tip \in Nat
      /\ proc[p].todo \in SUBSET Sales /\ proc[p].doing \in SUBSET Sales
      /\ proc[p].amt \in Int /\ proc[p].method \in Methods /\ proc[p].ref \in Refs \cup {NoRef}
  BY PosBillAssumption, ProcFields_Typed DEF BillTypes, TypeOK
<1>1. CASE PayReread(p)
  <2> DEFINE q == [proc[p] EXCEPT !.back = "idle"]
  <2>1. proc' = [proc EXCEPT ![p] = Decide(q)] /\ UNCHANGED billVars /\ proc[p].at = "payReread"
    BY <1>1 DEF PayReread, At
  <2>2. q \in ProcRecord /\ q.b \in Bills /\ q.back = "idle" /\ q.doing = proc[p].doing
    BY <1>0, <2>1 DEF ProcRecord, Fit
  <2> HIDE DEF q
  <2> QED BY <2>1, <2>2, Decide_Typed, Set_Moved, Typed_Move
<1>2. CASE Debit(p)
  <2> DEFINE m == proc[p].method
             due == proc[p].amt + proc[p].tip
  <2>0. due \in Int /\ proc[p].at = "debit" /\ UNCHANGED <<bill, pays, written, sale, cards>>
    BY <1>0, <1>2 DEF Debit, At
  <2>1. CASE due > 0 /\ due <= wallet[m]
    <3>1. wallet' = [wallet EXCEPT ![m] = @ - due] /\ Goto(p, "record")
      BY <1>2, <2>1 DEF Debit
    <3>2. wallet' \in [Wallets -> Nat]
      <4>1. m \in Wallets => wallet[m] \in Nat
        BY <1>0
      <4> HIDE DEF m, due
      <4>2. m \in Wallets => wallet[m] - due \in Nat
        BY <2>0, <2>1, <4>1
      <4> DEFINE left == wallet[m] - due
      <4>3. wallet' = [wallet EXCEPT ![m] = left]
        BY <3>1
      <4> HIDE DEF left
      <4>4. m \in Wallets => left \in Nat
        BY <4>2 DEF left
      <4> QED BY <1>0, <4>3, <4>4
    <3>3. Fit([proc[p] EXCEPT !.at = "record"])
      BY <1>0, <2>0, <2>1 DEF Fit, ProcRecord
    <3>4. Moved(p)
      BY <3>1, <3>3, Goto_Moved, Places_Known
    <3> QED BY <1>0, <2>0, <3>2, <3>4, Typed DEF RowIds
  <2>2. CASE ~(due > 0 /\ due <= wallet[m])
    <3>1. Throw(p) /\ UNCHANGED wallet
      BY <1>2, <2>2 DEF Debit
    <3> QED BY <2>0, <3>1, Return_Moved, Typed_Move DEF billVars
  <2> QED BY <2>1, <2>2
<1>3. CASE Record(p)
  <2>1. proc[p].at = "record" /\ Goto(p, "status") /\ UNCHANGED <<bill, sale, cards, wallet>>
        /\ AddPayment(B(p), proc[p].method, proc[p].amt, proc[p].tip, proc[p].ref)
    BY <1>3 DEF Record, At
  <2>2. B(p) \in Bills
    BY <1>0, <2>1 DEF Fit, B
  <2>3. Fit([proc[p] EXCEPT !.at = "status"])
    BY <1>0, <2>1 DEF Fit, ProcRecord
  <2>4. Moved(p)
    BY <2>1, <2>3, Goto_Moved, Places_Known
  <2>5. pays' \subseteq PaymentRecord /\ written' \in 0..MaxPayments /\ RowIds'
    BY <1>0, <2>1, <2>2, Added_Row
  <2> QED BY <1>0, <2>1, <2>4, <2>5, Typed
<1>4. CASE SetStatus(p)
  <2>0. proc[p].at = "status" /\ UNCHANGED <<pays, written, sale, cards, wallet>>
    BY <1>4 DEF SetStatus, At
  <2>1. bill' \in [Bills -> BillRecord]
    <3> DEFINE b == B(p)
               n == proc[p].tips + proc[p].tip
               st == IF proc[p].settle THEN "PAID" ELSE bill[b].status
               rec == [bill[b] EXCEPT !.tip = n, !.status = st]
    <3>1. b \in Bills /\ n \in Nat
      BY <1>0, <2>0 DEF Fit, B
    <3>2. bill' = [bill EXCEPT ![b].tip = n, ![b].status = IF proc[p].settle THEN "PAID" ELSE @]
      BY <1>4 DEF SetStatus
    <3> HIDE DEF b, n
    <3>3. bill' = [bill EXCEPT ![b] = rec]
      BY <1>0, <3>1, <3>2
    <3>a. bill[b] \in BillRecord
      BY <1>0, <3>1
    <3>4. st \in {"NONE", "OPEN", "PAID", "VOID"}
      BY <3>a DEF BillRecord
    <3> HIDE DEF st
    <3>5. rec \in BillRecord
      BY <3>1, <3>4, <3>a DEF BillRecord
    <3> HIDE DEF rec
    <3> QED BY <3>3, <3>5, Bill_Typed
  <2>2. CASE proc[p].settle
    BY <1>4, <2>0, <2>1, <2>2, On_Moved, Typed_Bill, Places_Known DEF SetStatus
  <2>3. CASE ~proc[p].settle
    BY <1>4, <2>0, <2>1, <2>3, Return_Moved, Typed_Bill DEF SetStatus
  <2> QED BY <2>2, <2>3
<1>5. CASE IssueList(p)
  <2> DEFINE pending == {s \in SalesOn(B(p)) : ~sale[s].issued}
             rec == [proc[p] EXCEPT !.at = "issueNext", !.todo = pending]
  <2>0. proc[p].at = "issueList" /\ UNCHANGED billVars
    BY <1>5 DEF IssueList, At
  <2>1. pending \in SUBSET Sales
    BY DEF SalesOn
  <2>2. Return(p) \/ proc' = [proc EXCEPT ![p] = rec]
    BY <1>0, <1>5 DEF IssueList
  <2> HIDE DEF pending
  <2>3. rec \in ProcRecord /\ Fit(rec) /\ rec.doing = proc[p].doing
    BY <1>0, <2>0, <2>1, Places_Known DEF ProcRecord, Fit
  <2> HIDE DEF rec
  <2> QED BY <2>0, <2>2, <2>3, Return_Moved, Set_Moved, Typed_Move
<1>6. ASSUME NEW s \in Sales, IssueNext(p, s) PROVE BillTypes'
  <2>0. proc[p].at = "issueNext" /\ UNCHANGED <<bill, pays, written, sale, wallet>>
    BY <1>6 DEF IssueNext, At
  <2>1. CASE NextSale(p, proc[p].todo \ {s}) /\ UNCHANGED cards
    BY <1>0, <2>0, <2>1, NextSale_Moved, Typed_Move DEF billVars
  <2>2. CASE /\ cards' = [cards EXCEPT ![s] = IF @ = 2 THEN 2 ELSE @ + 1]
             /\ proc' = [proc EXCEPT ![p].at = "issueMark", ![p].todo = @ \ {s}, ![p].doing = {s}]
    <3> DEFINE rec == [proc[p] EXCEPT !.at = "issueMark", !.todo = proc[p].todo \ {s}, !.doing = {s}]
    <3>1. rec \in ProcRecord /\ Fit(rec) /\ rec.doing = {s}
      BY <1>0, <2>0, Places_Known DEF ProcRecord, Fit
    <3>2. proc' = [proc EXCEPT ![p] = rec]
      BY <1>0, <2>2
    <3> HIDE DEF rec
    <3>3. cards' \in [Sales -> 0..2] /\ cards'[s] >= 1 /\ \A x \in Sales : cards'[x] >= cards[x]
      BY <1>0, <2>2
    <3>4. /\ proc' \in [Tills -> ProcRecord] /\ proc'[p].doing = {s} /\ Fit(proc'[p])
          /\ \A q \in Tills : q # p => proc'[q] = proc[q]
      BY <1>0, <3>1, <3>2
    <3>5. LiveCards'
      <4>1. \A q \in Tills : proc[q].doing \subseteq Sales
        BY <1>0, ProcFields_Typed
      <4>2. \A x \in Sales : cards[x] \in Int /\ cards'[x] \in Int
        BY <1>0, <3>3
      <4> QED BY <1>0, <2>0, <3>3, <3>4, <4>1, <4>2 DEF BillTypes, LiveCards
    <3>6. TypeOK' /\ RowIds' /\ \A q \in Tills : Fit(proc'[q])
      BY <2>0, <3>3, <3>4 DEF BillTypes, TypeOK, RowIds
    <3> QED BY <3>5, <3>6 DEF BillTypes
  <2> QED BY <1>6, <2>1, <2>2 DEF IssueNext
<1>7. CASE IssueMark(p)
  <2>0. proc[p].at = "issueMark" /\ UNCHANGED <<bill, pays, written, cards, wallet>>
        /\ NextSale(p, proc[p].todo)
    BY <1>7 DEF IssueMark, At
  <2>1. Moved(p)
    BY <1>0, <2>0, NextSale_Moved
  <2>2. sale' = [s \in Sales |-> IF s \in proc[p].doing /\ sale[s].on # NoBill
                                 THEN [sale[s] EXCEPT !.issued = TRUE] ELSE sale[s]]
    BY <1>7 DEF IssueMark
  <2>3. \A s \in Sales : /\ sale'[s] \in SaleRecord /\ sale'[s].on = sale[s].on
                         /\ sale'[s].revoked = sale[s].revoked
                         /\ sale'[s] = sale[s] \/ (s \in proc[p].doing /\ sale[s].on # NoBill)
    BY <1>0, <2>2 DEF SaleRecord
  <2>4. sale' \in [Sales -> SaleRecord]
    BY <2>2, <2>3
  <2>5. LiveCards'
    <3>1. \A q \in Tills : proc[q].doing \subseteq Sales /\ proc'[q].doing \subseteq proc[q].doing
      BY <1>0, <2>1, ProcFields_Typed DEF Moved
    <3> QED BY <2>0, <2>3, <3>1 DEF BillTypes, LiveCards
  <2>6. TypeOK' /\ RowIds' /\ \A q \in Tills : Fit(proc'[q])
    BY <2>0, <2>1, <2>4 DEF BillTypes, TypeOK, RowIds, Moved
  <2> QED BY <2>5, <2>6 DEF BillTypes
<1> QED BY <1>1, <1>2, <1>3, <1>4, <1>5, <1>6, <1>7 DEF PayStep

LEMMA ReverseStep_Types ==
    ASSUME BillTypes, NEW p \in Tills, ReverseStep(p)
    PROVE  BillTypes'
<1>0. /\ bill \in [Bills -> BillRecord] /\ proc \in [Tills -> ProcRecord] /\ sale \in [Sales -> SaleRecord]
      /\ cards \in [Sales -> 0..2] /\ wallet \in [Wallets -> Nat] /\ written \in 0..MaxPayments
      /\ pays \subseteq PaymentRecord /\ RowIds
      /\ proc[p] \in ProcRecord /\ Fit(proc[p]) /\ proc[p].tips \in Int
      /\ proc[p].amt \in Int /\ proc[p].method \in Methods /\ proc[p].ref \in Refs \cup {NoRef}
  BY ProcFields_Typed DEF BillTypes, TypeOK
<1>1. CASE UndoDelete(p)
  <2>1. UNCHANGED <<bill, written, sale, cards, wallet>> /\ pays' \subseteq pays /\ proc[p].at = "undoDelete"
    BY <1>1 DEF UndoDelete, At
  <2>2. Moved(p)
    <3>1. Throw(p) \/ Goto(p, "undoStatus")
      BY <1>1 DEF UndoDelete
    <3>2. Fit([proc[p] EXCEPT !.at = "undoStatus"])
      BY <1>0, <2>1 DEF Fit, ProcRecord
    <3> QED BY <2>1, <3>1, <3>2, Goto_Moved, Return_Moved, Places_Known
  <2>3. RowIds'
    BY <1>0, <2>1, FS_Subset DEF RowIds
  <2>4. pays' \subseteq PaymentRecord
    BY <1>0, <2>1
  <2> QED BY <1>0, <2>1, <2>2, <2>3, <2>4, Typed
<1>2. CASE UndoStatus(p)
  <2>1. proc[p].at = "undoStatus" /\ UNCHANGED <<pays, written, sale, cards, wallet>> /\ Return(p)
    BY <1>2 DEF UndoStatus, At
  <2>2. bill' \in [Bills -> BillRecord]
    <3> DEFINE b == B(p)
               n == proc[p].tips
               rec == [bill[b] EXCEPT !.status = "OPEN", !.tip = n]
    <3>1. b \in Bills /\ n \in Nat
      BY <1>0, <2>1 DEF Fit, B
    <3>2. bill' = [bill EXCEPT ![b].status = "OPEN", ![b].tip = n]
      BY <1>2 DEF UndoStatus
    <3> HIDE DEF b, n
    <3>3. bill' = [bill EXCEPT ![b] = rec]
      BY <1>0, <3>1, <3>2
    <3>4. rec \in BillRecord
      BY <1>0, <3>1 DEF BillRecord
    <3> HIDE DEF rec
    <3> QED BY <3>3, <3>4, Bill_Typed
  <2> QED BY <2>1, <2>2, Return_Moved, Typed_Bill
<1>3. CASE VoidOrder(p)
  <2>1. bill' \in [Bills -> BillRecord]
    BY <1>0, <1>3 DEF VoidOrder, BillRecord
  <2> QED BY <1>3, <2>1, Return_Moved, Typed_Bill DEF VoidOrder, At
<1>4. CASE ReopenOrder(p)
  <2>1. bill' \in [Bills -> BillRecord]
    BY <1>0, <1>4 DEF ReopenOrder, BillRecord
  <2> QED BY <1>4, <2>1, Return_Moved, Typed_Bill DEF ReopenOrder, At
<1>5. CASE Refund(p)
  <2>1. proc[p].at = "refund" /\ UNCHANGED <<bill, sale, cards, wallet>>
        /\ AddPayment(B(p), proc[p].method, proc[p].tips - proc[p].amt, -proc[p].tips, proc[p].ref)
        /\ (Goto(p, "refundCards") \/ Return(p))
    BY <1>5 DEF Refund, At
  <2>2. B(p) \in Bills
    BY <1>0, <2>1 DEF Fit, B
  <2>4. Moved(p)
    BY <2>1, On_Moved, Return_Moved, Places_Known
  <2>5. pays' \subseteq PaymentRecord /\ written' \in 0..MaxPayments /\ RowIds'
    <3>1. proc[p].tips - proc[p].amt \in Int /\ -proc[p].tips \in Int
      BY <1>0
    <3> QED BY <1>0, <2>1, <2>2, <3>1, Added_Row
  <2> QED BY <1>0, <2>1, <2>4, <2>5, Typed
<1>6. CASE RefundCards(p)
  <2> DEFINE revoked == {s \in SalesOn(B(p)) : sale[s].issued /\ ~sale[s].revoked}
  <2>0. /\ proc[p].at = "refundCards" /\ UNCHANGED <<bill, pays, written, wallet>> /\ Return(p)
        /\ cards' = [s \in Sales |-> IF s \in revoked THEN cards[s] - 1 ELSE cards[s]]
        /\ sale' = [s \in Sales |-> IF s \in revoked THEN [sale[s] EXCEPT !.revoked = TRUE] ELSE sale[s]]
    BY <1>6 DEF RefundCards, At
  <2>1. Moved(p)
    BY <2>0, Return_Moved
  <2>2. \A s \in revoked : s \in Sales /\ cards[s] >= 1
    BY DEF BillTypes, LiveCards, SalesOn
  <2> HIDE DEF revoked
  <2>3. \A s \in Sales : /\ sale'[s] \in SaleRecord /\ sale'[s].on = sale[s].on
                         /\ sale'[s].issued = sale[s].issued
                         /\ IF s \in revoked THEN sale'[s].revoked ELSE sale'[s] = sale[s]
    BY <1>0, <2>0 DEF SaleRecord
  <2>4. sale' \in [Sales -> SaleRecord] /\ cards' \in [Sales -> 0..2]
    BY <1>0, <2>0, <2>2, <2>3
  <2>5. LiveCards'
    <3>1. \A q \in Tills : proc[q].doing \subseteq Sales /\ proc'[q].doing \subseteq proc[q].doing
      BY <1>0, <2>1, ProcFields_Typed DEF Moved
    <3>2. \A s \in Sales : s \notin revoked => cards'[s] = cards[s]
      BY <2>0
    <3> QED BY <2>3, <3>1, <3>2 DEF BillTypes, LiveCards
  <2>6. TypeOK' /\ RowIds' /\ \A q \in Tills : Fit(proc'[q])
    BY <2>0, <2>1, <2>4 DEF BillTypes, TypeOK, RowIds, Moved
  <2> QED BY <2>5, <2>6 DEF BillTypes
<1> QED BY <1>1, <1>2, <1>3, <1>4, <1>5, <1>6 DEF ReverseStep

LEMMA Step_Types ==
    ASSUME BillTypes, NEW p \in Tills, StepOf(p)
    PROVE  BillTypes'
BY RingUp_Types, SettleUp_Types, LineStep_Types, PayStep_Types, ReverseStep_Types DEF StepOf

LEMMA Init_Types == Init => BillTypes
<1> SUFFICES ASSUME Init PROVE BillTypes
  OBVIOUS
<1>1. NoBillYet \in BillRecord /\ NoSaleYet \in SaleRecord
  BY DEF NoBillYet, BillRecord, NoSaleYet, SaleRecord
<1>2. TypeOK
  BY <1>1, Idle_Typed, PosBillAssumption DEF Init, TypeOK
<1>3. \A p \in Tills : Fit(proc[p]) /\ proc[p].doing = {}
  BY Idle_Typed DEF Init
<1>4. RowIds
  BY FS_EmptySet DEF Init, RowIds
<1>5. LiveCards
  BY <1>3 DEF Init, LiveCards, NoSaleYet
<1> QED BY <1>2, <1>3, <1>4, <1>5 DEF BillTypes

-----------------------------------------------------------------------------
(* What is on the books and in hand *)

\* One row more.
LEMMA Paid_Add ==
    ASSUME NEW rows, IsFiniteSet(rows), NEW r, r \notin rows,
           \A x \in rows \cup {r} : x.amt \in Int /\ x.tip \in Int
    PROVE  Paid(rows \cup {r}) = Paid(rows) + r.amt /\ Tips(rows \cup {r}) = Tips(rows) + r.tip
<1> DEFINE all == rows \cup {r}
<1>1. Paid(all) = Paid(rows) + r.amt
  <2> DEFINE f == [x \in all |-> x.amt]
             g == [x \in rows |-> x.amt]
  <2>1. \A x \in all : f[x] \in Int
    OBVIOUS
  <2>2. \A x \in rows : g[x] = f[x]
    OBVIOUS
  <2>3. f[r] = r.amt
    OBVIOUS
  <2>4. Paid(all) = SumFunctionOnSet(f, all) /\ Paid(rows) = SumFunctionOnSet(g, rows)
    BY DEF Paid
  <2>5. r.amt \in Int
    OBVIOUS
  <2> HIDE DEF f, g
  <2>6. SumFunctionOnSet(f, rows \cup {r}) = f[r] + SumFunctionOnSet(f, rows)
    BY <2>1, SumAdd
  <2>7. SumFunctionOnSet(g, rows) = SumFunctionOnSet(f, rows)
    BY <2>2, SumSame
  <2>8. SumFunctionOnSet(f, rows) \in Int
    BY <2>1, SumType
  <2> QED BY <2>3, <2>4, <2>5, <2>6, <2>7, <2>8
<1>2. Tips(all) = Tips(rows) + r.tip
  <2> DEFINE f == [x \in all |-> x.tip]
             g == [x \in rows |-> x.tip]
  <2>1. \A x \in all : f[x] \in Int
    OBVIOUS
  <2>2. \A x \in rows : g[x] = f[x]
    OBVIOUS
  <2>3. f[r] = r.tip
    OBVIOUS
  <2>4. Tips(all) = SumFunctionOnSet(f, all) /\ Tips(rows) = SumFunctionOnSet(g, rows)
    BY DEF Tips
  <2>5. r.tip \in Int
    OBVIOUS
  <2> HIDE DEF f, g
  <2>6. SumFunctionOnSet(f, rows \cup {r}) = f[r] + SumFunctionOnSet(f, rows)
    BY <2>1, SumAdd
  <2>7. SumFunctionOnSet(g, rows) = SumFunctionOnSet(f, rows)
    BY <2>2, SumSame
  <2>8. SumFunctionOnSet(f, rows) \in Int
    BY <2>1, SumType
  <2> QED BY <2>3, <2>4, <2>5, <2>6, <2>7, <2>8
<1> QED BY <1>1, <1>2

\* Rows that were given another bill.
LEMMA Paid_Image ==
    ASSUME NEW rows, IsFiniteSet(rows), NEW h,
           \A x \in rows : /\ x.amt \in Int /\ x.tip \in Int
                           /\ h[x].amt = x.amt /\ h[x].tip = x.tip,
           \A x, y \in rows : h[x] = h[y] => x = y
    PROVE  Paid({h[x] : x \in rows}) = Paid(rows) /\ Tips({h[x] : x \in rows}) = Tips(rows)
<1> DEFINE im == {h[x] : x \in rows}
<1>1. Paid(im) = Paid(rows)
  <2> DEFINE f == [x \in rows |-> x.amt]
             g == [x \in im |-> x.amt]
  <2>1. \A x \in rows : f[x] \in Int /\ g[h[x]] = f[x]
    OBVIOUS
  <2>2. Paid(im) = SumFunctionOnSet(g, im) /\ Paid(rows) = SumFunctionOnSet(f, rows)
    BY DEF Paid
  <2> HIDE DEF f, g
  <2>3. /\ IsFiniteSet({h[x] : x \in rows})
        /\ SumFunctionOnSet(g, {h[x] : x \in rows}) = SumFunctionOnSet(f, rows)
    BY <2>1, SumImage
  <2> QED BY <2>2, <2>3
<1>2. Tips(im) = Tips(rows)
  <2> DEFINE f == [x \in rows |-> x.tip]
             g == [x \in im |-> x.tip]
  <2>1. \A x \in rows : f[x] \in Int /\ g[h[x]] = f[x]
    OBVIOUS
  <2>2. Tips(im) = SumFunctionOnSet(g, im) /\ Tips(rows) = SumFunctionOnSet(f, rows)
    BY DEF Tips
  <2> HIDE DEF f, g
  <2>3. /\ IsFiniteSet({h[x] : x \in rows})
        /\ SumFunctionOnSet(g, {h[x] : x \in rows}) = SumFunctionOnSet(f, rows)
    BY <2>1, SumImage
  <2> QED BY <2>2, <2>3
<1> QED BY <1>1, <1>2

\* The gift card payments.
GiftRows == {r \in pays : r.method = "GIFT_CARD"}

Books == Paid(GiftRows) + Tips(GiftRows)

LEMMA Books_Are == OnBooks("GIFT_CARD") = Books
BY DEF OnBooks, Books, GiftRows

LEMMA Books_Typed ==
    ASSUME BillTypes
    PROVE  Books \in Int /\ Paid(GiftRows) \in Int /\ Tips(GiftRows) \in Int
<1>1. GiftRows \subseteq pays
  BY DEF GiftRows
<1> QED BY <1>1, Rows_Sum DEF Books

LEMMA Books_Same ==
    ASSUME GiftRows' = GiftRows
    PROVE  Books' = Books
BY DEF Books, Paid, Tips

LEMMA Books_Add ==
    ASSUME BillTypes, NEW r \in PaymentRecord, r \notin pays, pays' = pays \cup {r}
    PROVE  Books' = Books + (IF r.method = "GIFT_CARD" THEN r.amt + r.tip ELSE 0)
<1>1. CASE r.method = "GIFT_CARD"
  <2> DEFINE rows == GiftRows
  <2>1. GiftRows' = rows \cup {r} /\ r \notin rows /\ rows \subseteq pays
    BY <1>1 DEF GiftRows
  <2>2. \A x \in rows \cup {r} : x.amt \in Int /\ x.tip \in Int
    BY <2>1 DEF BillTypes, TypeOK, PaymentRecord
  <2>3. IsFiniteSet(rows)
    BY <2>1, Rows_Sum
  <2>4. Paid(rows) \in Int /\ Tips(rows) \in Int /\ r.amt \in Int /\ r.tip \in Int
    BY <2>2, Books_Typed
  <2>5. Books = Paid(rows) + Tips(rows)
    BY DEF Books
  <2> HIDE DEF rows
  <2>6. Paid(rows \cup {r}) = Paid(rows) + r.amt /\ Tips(rows \cup {r}) = Tips(rows) + r.tip
    BY <2>1, <2>2, <2>3, Paid_Add
  <2>7. Books' = Paid(rows \cup {r}) + Tips(rows \cup {r})
    BY <2>1 DEF Books, Paid, Tips
  <2> QED BY <1>1, <2>4, <2>5, <2>6, <2>7
<1>2. CASE r.method # "GIFT_CARD"
  <2>1. GiftRows' = GiftRows
    BY <1>2 DEF GiftRows
  <2> QED BY <1>2, <2>1, Books_Same, Books_Typed
<1> QED BY <1>1, <1>2

LEMMA Books_Merge ==
    ASSUME BillTypes, NEW t \in Bills, NEW s, MovedRows(t, s)
    PROVE  Books' = Books
<1>1. PICK h : /\ pays' = {h[r] : r \in pays}
               /\ \A r \in pays : h[r].method = r.method /\ h[r].amt = r.amt /\ h[r].tip = r.tip
               /\ \A x, y \in pays : h[x] = h[y] => x = y
  BY Merge_Map
<1> DEFINE rows == GiftRows
<1>2. GiftRows' = {h[r] : r \in rows}
  BY <1>1 DEF GiftRows
<1>3. rows \subseteq pays
  BY DEF GiftRows
<1>4. IsFiniteSet(rows)
  BY <1>3, Rows_Sum
<1>5. \A x \in rows : x.amt \in Int /\ x.tip \in Int /\ h[x].amt = x.amt /\ h[x].tip = x.tip
  BY <1>1, <1>3 DEF BillTypes, TypeOK, PaymentRecord
<1>6. \A x, y \in rows : h[x] = h[y] => x = y
  BY <1>1, <1>3
<1>7. Books = Paid(rows) + Tips(rows)
  BY DEF Books
<1> HIDE DEF rows
<1>8. Paid({h[x] : x \in rows}) = Paid(rows) /\ Tips({h[x] : x \in rows}) = Tips(rows)
  BY <1>4, <1>5, <1>6, Paid_Image
<1>9. Books' = Paid({h[x] : x \in rows}) + Tips({h[x] : x \in rows})
  BY <1>2 DEF Books, Paid, Tips
<1> QED BY <1>7, <1>8, <1>9

\* What one handler has taken from a gift card and not written yet.
Hand(q) == IF q.at = "record" /\ q.method = "GIFT_CARD" THEN q.amt + q.tip ELSE 0

HandsOf(pr) == SumFunctionOnSet([p \in Tills |-> Hand(pr[p])], Tills)

LEMMA Hand_Typed == \A q \in ProcRecord : Hand(q) \in Int
BY ProcFields_Typed DEF Hand

LEMMA Hands_Typed == \A pr \in [Tills -> ProcRecord] : HandsOf(pr) \in Int
<1> TAKE pr \in [Tills -> ProcRecord]
<1> DEFINE f == [p \in Tills |-> Hand(pr[p])]
<1>1. \A p \in Tills : f[p] \in Int
  BY Hand_Typed
<1>2. HandsOf(pr) = SumFunctionOnSet(f, Tills)
  BY DEF HandsOf
<1> HIDE DEF f
<1> QED BY <1>1, <1>2, SumType, PosBillAssumption

LEMMA Hands_Are ==
    \A pr \in [Tills -> ProcRecord] :
        HandsOf(pr) = SumFunctionOnSet([p \in Tills |-> pr[p].amt + pr[p].tip],
                                       {p \in Tills : pr[p].at = "record" /\ pr[p].method = "GIFT_CARD"})
<1> TAKE pr \in [Tills -> ProcRecord]
<1> DEFINE f == [p \in Tills |-> Hand(pr[p])]
           g == [p \in Tills |-> pr[p].amt + pr[p].tip]
           P == {p \in Tills : pr[p].at = "record" /\ pr[p].method = "GIFT_CARD"}
<1>1. \A p \in Tills : f[p] \in Int
  BY Hand_Typed
<1>2. P \in SUBSET Tills /\ IsFiniteSet(P) /\ IsFiniteSet(Tills)
  BY PosBillAssumption, FS_Subset
<1>3. \A p \in Tills \ P : f[p] = 0
  BY DEF Hand
<1>4. \A p \in P : f[p] = g[p]
  BY DEF Hand
<1>5. HandsOf(pr) = SumFunctionOnSet(f, Tills)
  BY DEF HandsOf
<1> HIDE DEF f, g, P
<1>6. SumFunctionOnSet(f, P) = SumFunctionOnSet(f, Tills)
  BY <1>1, <1>2, <1>3, SumRelevant
<1>7. SumFunctionOnSet(f, P) = SumFunctionOnSet(g, P)
  BY <1>2, <1>4, SumSame
<1> QED BY <1>5, <1>6, <1>7 DEF g, P

LEMMA Hands_Move ==
    ASSUME NEW pr \in [Tills -> ProcRecord], NEW pn \in [Tills -> ProcRecord], NEW p \in Tills,
           \A q \in Tills : q # p => pn[q] = pr[q]
    PROVE  HandsOf(pn) = HandsOf(pr) + (Hand(pn[p]) - Hand(pr[p]))
<1> DEFINE f == [q \in Tills |-> Hand(pr[q])]
           g == [q \in Tills |-> Hand(pn[q])]
<1>1. \A q \in Tills : f[q] \in Int /\ g[q] \in Int
  BY Hand_Typed
<1>2. \A q \in Tills \ {p} : f[q] = g[q]
  OBVIOUS
<1>3. HandsOf(pr) = SumFunctionOnSet(f, Tills) /\ HandsOf(pn) = SumFunctionOnSet(g, Tills)
  BY DEF HandsOf
<1>4. f[p] = Hand(pr[p]) /\ g[p] = Hand(pn[p])
  OBVIOUS
<1> HIDE DEF f, g
<1>5. SumFunctionOnSet(g, Tills) = SumFunctionOnSet(f, Tills) + (g[p] - f[p])
  BY <1>1, <1>2, SumChange, PosBillAssumption
<1> QED BY <1>3, <1>4, <1>5

LEMMA InHand_Is == BillTypes => InHand("GIFT_CARD") = HandsOf(proc)
BY Hands_Are DEF InHand, At, BillTypes, TypeOK

-----------------------------------------------------------------------------
(* Where a step leaves its handler *)

\* The handler comes to stand at one of the places, the others stay.
Lands(p, places) ==
    /\ \A q \in Tills : q # p => proc'[q] = proc[q]
    /\ proc'[p].at \in places

\* Places where nothing is in hand and nothing is about to be undone.
Harmless == Stops \ {"debit", "record", "undoDelete"}

LEMMA Goto_Lands ==
    ASSUME BillTypes, NEW p \in Tills, NEW w, Goto(p, w)
    PROVE  Lands(p, {w})
<1>1. proc \in [Tills -> ProcRecord] /\ proc[p] \in ProcRecord
  BY DEF BillTypes, TypeOK
<1> QED BY <1>1 DEF Goto, Lands, ProcRecord

LEMMA Return_Lands ==
    ASSUME BillTypes, NEW p \in Tills, Return(p) \/ Throw(p)
    PROVE  Lands(p, {"idle", "booked", "paid", "notBooked"})
<1>1. proc \in [Tills -> ProcRecord] /\ proc[p] \in ProcRecord
  BY DEF BillTypes, TypeOK
<1>2. proc[p].then \in {"idle", "booked", "paid"} /\ proc[p].catch \in {"idle", "notBooked"}
  BY <1>1, ProcFields_Typed
<1>3. PICK w \in {proc[p].then, proc[p].catch} :
         proc' = [proc EXCEPT ![p] = IF w = "idle" THEN IdleProc ELSE [proc[p] EXCEPT !.at = w]]
  BY DEF Return, Throw, GoOrIdle
<1>4. IdleProc.at = "idle" /\ [proc[p] EXCEPT !.at = w].at = w
  BY <1>1 DEF IdleProc, ProcRecord
<1> QED BY <1>1, <1>2, <1>3, <1>4 DEF Lands

LEMMA Set_Lands ==
    ASSUME BillTypes, NEW p \in Tills, NEW rec, proc' = [proc EXCEPT ![p] = rec]
    PROVE  Lands(p, {rec.at}) /\ proc'[p] = rec
BY DEF BillTypes, TypeOK, Lands

LEMMA Harmless_Places ==
    /\ {"idle", "setLines", "addSale", "removeSale", "syncRead", "syncClear", "syncCreate", "recRead",
        "recWrite", "merge", "splitNext", "payReread", "status", "issueList", "issueNext", "issueMark",
        "undoStatus", "void", "reopen", "refund", "refundCards", "booked", "paid", "notBooked"}
          \subseteq Harmless
BY Places_Known DEF Harmless

-----------------------------------------------------------------------------
(* Gift card money *)

\* Who is about to undo a payment has looked at its row.
MayUndo(q) ==
    q.at = "undoDelete" =>
        q.pay <= written /\ \A r \in pays : r.id = q.pay => r.method \notin NotUndone

\* A step that touches no money.
Quiet(p) ==
    /\ UNCHANGED <<pays, written, wallet>>
    /\ \A q \in Tills : q # p => proc'[q] = proc[q]
    /\ Hand(proc[p]) = 0 /\ Hand(proc'[p]) = 0
    /\ MayUndo(proc'[p])

LEMMA Harmless_Hand == \A q : q.at \in Harmless => Hand(q) = 0 /\ MayUndo(q)
BY DEF Harmless, Hand, MayUndo

LEMMA Quiet_Lands ==
    ASSUME NEW p \in Tills, Lands(p, Harmless), proc[p].at # "record", UNCHANGED <<pays, written, wallet>>
    PROVE  Quiet(p)
<1>1. Hand(proc[p]) = 0
  BY DEF Hand
<1>2. Hand(proc'[p]) = 0 /\ MayUndo(proc'[p])
  BY Harmless_Hand DEF Lands
<1> QED BY <1>1, <1>2 DEF Quiet, Lands

LEMMA Goto_Quiet ==
    ASSUME BillTypes, NEW p \in Tills, NEW w \in Harmless, Goto(p, w), proc[p].at # "record",
           UNCHANGED <<pays, written, wallet>>
    PROVE  Quiet(p)
<1>1. Lands(p, Harmless)
  BY Goto_Lands DEF Lands
<1> QED BY <1>1, Quiet_Lands

LEMMA Return_Quiet ==
    ASSUME BillTypes, NEW p \in Tills, Return(p) \/ Throw(p), proc[p].at # "record",
           UNCHANGED <<pays, written, wallet>>
    PROVE  Quiet(p)
<1>1. Lands(p, Harmless)
  BY Return_Lands, Harmless_Places DEF Lands
<1> QED BY <1>1, Quiet_Lands

LEMMA Set_Quiet ==
    ASSUME BillTypes, NEW p \in Tills, NEW rec, proc' = [proc EXCEPT ![p] = rec],
           rec.at \in Harmless, proc[p].at # "record", UNCHANGED <<pays, written, wallet>>
    PROVE  Quiet(p)
<1>1. Lands(p, Harmless)
  BY Set_Lands DEF Lands
<1> QED BY <1>1, Quiet_Lands

\* What a payment or a refund comes to.
LEMMA Refused_Hand ==
    ASSUME NEW q \in ProcRecord
    PROVE  Hand(Refused(q)) = 0 /\ MayUndo(Refused(q)) /\ Refused(q).at \in {"idle", "notBooked"}
<1>1. Refused(q).at \in {"idle", "notBooked"}
  BY ProcFields_Typed DEF Refused, ProcRecord, IdleProc
<1> QED BY <1>1 DEF Hand, MayUndo

LEMMA Decide_Hand ==
    ASSUME NEW q \in ProcRecord
    PROVE  Hand(Decide(q)) = 0 /\ MayUndo(Decide(q))
<1> DEFINE balance == bill[q.b].total - Paid(Of(q.b))
           amount == IF q.want = 0 THEN balance ELSE q.want
           w == IF q.method \in Wallets THEN "debit" ELSE "record"
           full == amount >= balance
           rec == [q EXCEPT !.amt = amount, !.settle = full, !.tips = bill[q.b].tip, !.at = w]
<1>1. Decide(q) \in {rec, Refused(q)}
  BY DEF Decide
<1>2. (w = "record" => q.method # "GIFT_CARD") /\ w # "undoDelete"
  BY DEF Wallets
<1> HIDE DEF amount, w, full
<1>3. rec.at = w /\ rec.method = q.method
  BY DEF ProcRecord
<1> HIDE DEF rec
<1>4. Hand(rec) = 0 /\ MayUndo(rec)
  BY <1>2, <1>3 DEF Hand, MayUndo
<1> QED BY <1>1, <1>4, Refused_Hand

LEMMA TakePayment_Hand ==
    ASSUME NEW q \in ProcRecord
    PROVE  Hand(TakePayment(q)) = 0 /\ MayUndo(TakePayment(q))
<1> DEFINE rec == [q EXCEPT !.at = "recRead", !.back = "payReread"]
<1>1. rec.at = "recRead"
  BY DEF ProcRecord
<1>2. Hand(rec) = 0 /\ MayUndo(rec)
  BY <1>1 DEF Hand, MayUndo
<1>3. TakePayment(q) \in {rec, Refused(q), Decide(q)}
  BY DEF TakePayment
<1> QED BY <1>2, <1>3, Refused_Hand, Decide_Hand

LEMMA TakeRefund_Hand ==
    ASSUME NEW q \in ProcRecord
    PROVE  Hand(TakeRefund(q)) = 0 /\ MayUndo(TakeRefund(q))
<1>1. TakeRefund(q).at = "refund" \/ TakeRefund(q) = Refused(q)
  BY DEF TakeRefund, ProcRecord
<1>2. CASE TakeRefund(q).at = "refund"
  BY <1>2 DEF Hand, MayUndo
<1> QED BY <1>1, <1>2, Refused_Hand

LEMMA Set_Hand_Quiet ==
    ASSUME BillTypes, NEW p \in Tills, NEW rec, proc' = [proc EXCEPT ![p] = rec],
           Hand(rec) = 0, MayUndo(rec), proc[p].at # "record", UNCHANGED <<pays, written, wallet>>
    PROVE  Quiet(p)
<1>1. Hand(proc[p]) = 0
  BY DEF Hand
<1> QED BY <1>1, Set_Lands DEF Quiet, Lands

LEMMA RingUp_Quiet ==
    ASSUME BillTypes, NEW p \in Tills, RingUp(p)
    PROVE  Quiet(p)
<1>0. {"setLines", "addSale", "removeSale", "merge", "splitNext", "idle"} \subseteq Harmless
  BY Harmless_Places
<1>i. IdleProc.at = "idle" /\ IdleProc \in ProcRecord
  BY Idle_Typed DEF IdleProc
<1>1. ASSUME NEW b \in Bills, CreateOrder(p, b) PROVE Quiet(p)
  <2>1. UNCHANGED proc /\ UNCHANGED <<pays, written, wallet>> /\ proc[p].at = "idle"
    BY <1>1 DEF CreateOrder, Idle, At
  <2> QED BY <1>0, <2>1, Quiet_Lands DEF Lands
<1>2. ASSUME NEW b \in Bills, NEW goods \in 0..MaxGoods, SetLinesRead(p, b, goods) PROVE Quiet(p)
  <2> DEFINE rec == [IdleProc EXCEPT !.at = "setLines", !.b = b, !.want = goods]
  <2>1. proc' = [proc EXCEPT ![p] = rec] /\ UNCHANGED <<pays, written, wallet>> /\ proc[p].at = "idle"
    BY <1>2 DEF SetLinesRead, Idle, At, billVars
  <2>2. rec.at = "setLines"
    BY DEF IdleProc
  <2> HIDE DEF rec
  <2> QED BY <1>0, <2>1, <2>2, Set_Quiet
<1>3. ASSUME NEW b \in Bills, AddGiftCardSaleRead(p, b) PROVE Quiet(p)
  <2> DEFINE rec == [IdleProc EXCEPT !.at = "addSale", !.b = b]
  <2>1. proc' = [proc EXCEPT ![p] = rec] /\ UNCHANGED <<pays, written, wallet>> /\ proc[p].at = "idle"
    BY <1>3 DEF AddGiftCardSaleRead, Begin, Idle, At, billVars
  <2>2. rec.at = "addSale"
    BY DEF IdleProc
  <2> HIDE DEF rec
  <2> QED BY <1>0, <2>1, <2>2, Set_Quiet
<1>4. ASSUME NEW b \in Bills, SplitRead(p, b) PROVE Quiet(p)
  <2> DEFINE rec == [IdleProc EXCEPT !.at = "splitNext", !.other = b,
                                     !.want = bill[b].goods + bill[b].gifts]
  <2>1. proc' = [proc EXCEPT ![p] = rec] /\ UNCHANGED <<pays, written, wallet>> /\ proc[p].at = "idle"
    BY <1>4 DEF SplitRead, Idle, At, billVars
  <2>2. rec.at = "splitNext"
    BY DEF IdleProc
  <2> HIDE DEF rec
  <2> QED BY <1>0, <2>1, <2>2, Set_Quiet
<1>5. ASSUME NEW b \in Bills, NEW source \in Bills, MergeRead(p, b, source) PROVE Quiet(p)
  <2> DEFINE rec == [IdleProc EXCEPT !.at = "merge", !.b = b, !.other = source]
  <2>1. proc' = [proc EXCEPT ![p] = rec] /\ UNCHANGED <<pays, written, wallet>> /\ proc[p].at = "idle"
    BY <1>5 DEF MergeRead, Idle, At, billVars
  <2>2. rec.at = "merge"
    BY DEF IdleProc
  <2> HIDE DEF rec
  <2> QED BY <1>0, <2>1, <2>2, Set_Quiet
<1>6. ASSUME NEW s \in Sales, RemoveGiftCardSaleRead(p, s) PROVE Quiet(p)
  <2> DEFINE rec == [IdleProc EXCEPT !.at = "removeSale", !.b = sale[s].on, !.todo = {s}]
  <2>1. proc' = [proc EXCEPT ![p] = rec] /\ UNCHANGED <<pays, written, wallet>> /\ proc[p].at = "idle"
    BY <1>6 DEF RemoveGiftCardSaleRead, Idle, At, billVars
  <2>2. rec.at = "removeSale"
    BY DEF IdleProc
  <2> HIDE DEF rec
  <2> QED BY <1>0, <2>1, <2>2, Set_Quiet
<1> QED BY <1>1, <1>2, <1>3, <1>4, <1>5, <1>6 DEF RingUp

LEMMA SettleUp_Quiet ==
    ASSUME BillTypes, NEW p \in Tills, SettleUp(p)
    PROVE  Quiet(p)
<1>0. {"void", "reopen"} \subseteq Harmless
  BY Harmless_Places
<1>1. ASSUME NEW b \in Bills, NEW method \in TillTenders, NEW want \in 0..MaxGoods,
             NEW tip \in 0..MaxTip, PayOrder(p, b, method, want, tip)
      PROVE  Quiet(p)
  <2> DEFINE q == [IdleProc EXCEPT !.b = b, !.method = method, !.want = want, !.tip = tip]
  <2>0. method \in Methods /\ want \in Nat /\ tip \in Nat
    BY PosBillAssumption DEF Methods
  <2>1. q \in ProcRecord
    BY <2>0, Idle_Typed DEF ProcRecord
  <2>2. proc' = [proc EXCEPT ![p] = TakePayment(q)] /\ UNCHANGED <<pays, written, wallet>>
        /\ proc[p].at = "idle"
    BY <1>1 DEF PayOrder, Idle, At, billVars
  <2> HIDE DEF q
  <2>3. Hand(TakePayment(q)) = 0 /\ MayUndo(TakePayment(q))
    BY <2>1, TakePayment_Hand
  <2> QED BY <2>2, <2>3, Set_Hand_Quiet
<1>2. ASSUME NEW b \in Bills, NEW method \in {"CASH", "REFUND"}, NEW want \in 0..MaxGoods,
             RefundOrder(p, b, method, want)
      PROVE  Quiet(p)
  <2> DEFINE q == [IdleProc EXCEPT !.b = b, !.method = method, !.want = want]
  <2>0. method \in Methods /\ want \in Nat
    BY DEF Methods
  <2>1. q \in ProcRecord
    BY <2>0, Idle_Typed DEF ProcRecord
  <2>2. proc' = [proc EXCEPT ![p] = TakeRefund(q)] /\ UNCHANGED <<pays, written, wallet>>
        /\ proc[p].at = "idle"
    BY <1>2 DEF RefundOrder, Idle, At, billVars
  <2> HIDE DEF q
  <2>3. Hand(TakeRefund(q)) = 0 /\ MayUndo(TakeRefund(q))
    BY <2>1, TakeRefund_Hand
  <2> QED BY <2>2, <2>3, Set_Hand_Quiet
<1>3. ASSUME NEW b \in Bills, VoidRead(p, b) PROVE Quiet(p)
  <2> DEFINE rec == [IdleProc EXCEPT !.at = "void", !.b = b]
  <2>1. proc' = [proc EXCEPT ![p] = rec] /\ UNCHANGED <<pays, written, wallet>> /\ proc[p].at = "idle"
    BY <1>3 DEF VoidRead, Begin, Idle, At, billVars
  <2>2. rec.at = "void"
    BY DEF IdleProc
  <2> HIDE DEF rec
  <2> QED BY <1>0, <2>1, <2>2, Set_Quiet
<1>4. ASSUME NEW b \in Bills, ReopenRead(p, b) PROVE Quiet(p)
  <2> DEFINE rec == [IdleProc EXCEPT !.at = "reopen", !.b = b]
  <2>1. proc' = [proc EXCEPT ![p] = rec] /\ UNCHANGED <<pays, written, wallet>> /\ proc[p].at = "idle"
    BY <1>4 DEF ReopenRead, Begin, Idle, At, billVars
  <2>2. rec.at = "reopen"
    BY DEF IdleProc
  <2> HIDE DEF rec
  <2> QED BY <1>0, <2>1, <2>2, Set_Quiet
<1>5. ASSUME NEW r \in pays, UndoRead(p, r) PROVE Quiet(p)
  <2> DEFINE rec == [IdleProc EXCEPT !.at = "undoDelete", !.b = r.bill, !.pay = r.id,
                                     !.tips = AtLeastZero(bill[r.bill].tip - r.tip)]
  <2>1. proc' = [proc EXCEPT ![p] = rec] /\ UNCHANGED <<pays, written, wallet>>
        /\ proc[p].at = "idle" /\ r.method \notin NotUndone
    BY <1>5 DEF UndoRead, Idle, At, billVars
  <2>2. rec.at = "undoDelete" /\ rec.pay = r.id
    BY DEF IdleProc
  <2> HIDE DEF rec
  <2>3. Hand(rec) = 0
    BY <2>2 DEF Hand
  <2>4. MayUndo(rec)
    BY <2>1, <2>2 DEF MayUndo, BillTypes, RowIds
  <2> QED BY <2>1, <2>3, <2>4, Set_Hand_Quiet
<1> QED BY <1>1, <1>2, <1>3, <1>4, <1>5 DEF SettleUp

LEMMA LineStep_Quiet ==
    ASSUME BillTypes, NEW p \in Tills, LineStep(p), ~MergeOrders(p)
    PROVE  Quiet(p)
<1>0. {"syncRead", "syncClear", "syncCreate", "recRead", "recWrite", "payReread", "splitNext"}
         \subseteq Harmless
  BY Harmless_Places
<1>t. proc \in [Tills -> ProcRecord] /\ proc[p] \in ProcRecord
  BY DEF BillTypes, TypeOK
<1>1. CASE SetLines(p)
  BY <1>0, <1>1, Goto_Quiet DEF SetLines, At
<1>2. ASSUME NEW s \in Sales, AddGiftCardSale(p, s) PROVE Quiet(p)
  BY <1>0, <1>2, Goto_Quiet DEF AddGiftCardSale, At
<1>3. CASE RemoveGiftCardSale(p)
  <2> DEFINE rec == [proc[p] EXCEPT !.at = "syncRead", !.todo = {}]
  <2>1. proc[p].at = "removeSale" /\ UNCHANGED <<pays, written, wallet>>
        /\ (Throw(p) \/ proc' = [proc EXCEPT ![p] = rec])
    BY <1>3, <1>t DEF RemoveGiftCardSale, At
  <2>2. rec.at = "syncRead"
    BY <1>t DEF ProcRecord
  <2> HIDE DEF rec
  <2> QED BY <1>0, <2>1, <2>2, Return_Quiet, Set_Quiet
<1>4. CASE SyncRead(p)
  <2> DEFINE rec == [proc[p] EXCEPT !.at = "syncClear", !.todo = SalesOn(B(p))]
  <2>1. proc[p].at = "syncRead" /\ UNCHANGED <<pays, written, wallet>>
        /\ proc' = [proc EXCEPT ![p] = rec]
    BY <1>4, <1>t DEF SyncRead, At, billVars
  <2>2. rec.at = "syncClear"
    BY <1>t DEF ProcRecord
  <2> HIDE DEF rec
  <2> QED BY <1>0, <2>1, <2>2, Set_Quiet
<1>5. CASE SyncClear(p)
  <2>1. proc[p].at = "syncClear" /\ UNCHANGED <<pays, written, wallet>>
        /\ (Goto(p, "recRead") \/ Goto(p, "syncCreate"))
    BY <1>5 DEF SyncClear, At
  <2> QED BY <1>0, <2>1, Goto_Quiet
<1>6. CASE SyncCreate(p)
  <2> DEFINE rec == [proc[p] EXCEPT !.at = "recRead", !.todo = {}]
  <2>1. proc[p].at = "syncCreate" /\ UNCHANGED <<pays, written, wallet>>
        /\ proc' = [proc EXCEPT ![p] = rec]
    BY <1>6, <1>t DEF SyncCreate, At
  <2>2. rec.at = "recRead"
    BY <1>t DEF ProcRecord
  <2> HIDE DEF rec
  <2> QED BY <1>0, <2>1, <2>2, Set_Quiet
<1>7. CASE RecomputeRead(p)
  <2> DEFINE rec == [proc[p] EXCEPT !.at = "recWrite", !.sum = bill[B(p)].goods + bill[B(p)].gifts]
  <2>1. proc[p].at = "recRead" /\ UNCHANGED <<pays, written, wallet>>
        /\ proc' = [proc EXCEPT ![p] = rec]
    BY <1>7, <1>t DEF RecomputeRead, At, billVars
  <2>2. rec.at = "recWrite"
    BY <1>t DEF ProcRecord
  <2> HIDE DEF rec
  <2> QED BY <1>0, <2>1, <2>2, Set_Quiet
<1>8. CASE RecomputeWrite(p)
  <2> DEFINE rec == IF proc[p].back = "idle" THEN IdleProc ELSE [proc[p] EXCEPT !.at = proc[p].back]
  <2>1. proc[p].at = "recWrite" /\ UNCHANGED <<pays, written, wallet>>
        /\ proc' = [proc EXCEPT ![p] = rec]
    BY <1>8, <1>t DEF RecomputeWrite, GoOrIdle, At
  <2>2. proc[p].back \in {"idle", "payReread", "splitNext"}
    BY <1>t, ProcFields_Typed
  <2>3. rec.at = proc[p].back
    BY <1>t DEF ProcRecord, IdleProc
  <2>4. "idle" \in Harmless
    BY Harmless_Places
  <2> HIDE DEF rec
  <2> QED BY <1>0, <2>1, <2>2, <2>3, <2>4, Set_Quiet
<1>9. ASSUME NEW c \in Bills, SplitChild(p, c) PROVE Quiet(p)
  <2> DEFINE rec == [proc[p] EXCEPT !.at = "recRead", !.b = c, !.back = "splitNext",
                                    !.kids = proc[p].kids \cup {c}]
  <2>1. proc[p].at = "splitNext" /\ UNCHANGED <<pays, written, wallet>>
        /\ proc' = [proc EXCEPT ![p] = rec]
    BY <1>9, <1>t DEF SplitChild, At
  <2>2. rec.at = "recRead"
    BY <1>t DEF ProcRecord
  <2> HIDE DEF rec
  <2> QED BY <1>0, <2>1, <2>2, Set_Quiet
<1>10. CASE SplitVoid(p)
  BY <1>10, Return_Quiet DEF SplitVoid, At
<1> QED BY <1>1, <1>2, <1>3, <1>4, <1>5, <1>6, <1>7, <1>8, <1>9, <1>10 DEF LineStep

LEMMA PayStep_Quiet ==
    ASSUME BillTypes, NEW p \in Tills, PayStep(p), ~Debit(p), ~Record(p)
    PROVE  Quiet(p)
<1>0. {"issueList", "issueNext", "issueMark"} \subseteq Harmless
  BY Harmless_Places
<1>t. proc \in [Tills -> ProcRecord] /\ proc[p] \in ProcRecord
  BY DEF BillTypes, TypeOK
<1>1. CASE PayReread(p)
  <2> DEFINE q == [proc[p] EXCEPT !.back = "idle"]
  <2>1. proc' = [proc EXCEPT ![p] = Decide(q)] /\ UNCHANGED <<pays, written, wallet>>
        /\ proc[p].at = "payReread"
    BY <1>1 DEF PayReread, At, billVars
  <2>2. q \in ProcRecord
    BY <1>t DEF ProcRecord
  <2> HIDE DEF q
  <2>3. Hand(Decide(q)) = 0 /\ MayUndo(Decide(q))
    BY <2>2, Decide_Hand
  <2> QED BY <2>1, <2>3, Set_Hand_Quiet
<1>2. CASE SetStatus(p)
  <2>1. proc[p].at = "status" /\ UNCHANGED <<pays, written, wallet>>
        /\ (Goto(p, "issueList") \/ Return(p))
    BY <1>2 DEF SetStatus, At
  <2> QED BY <1>0, <2>1, Goto_Quiet, Return_Quiet
<1>3. CASE IssueList(p)
  <2> DEFINE pending == {s \in SalesOn(B(p)) : ~sale[s].issued}
             rec == [proc[p] EXCEPT !.at = "issueNext", !.todo = pending]
  <2>1. proc[p].at = "issueList" /\ UNCHANGED <<pays, written, wallet>>
        /\ (Return(p) \/ proc' = [proc EXCEPT ![p] = rec])
    BY <1>3, <1>t DEF IssueList, At, billVars
  <2>2. rec.at = "issueNext"
    BY <1>t DEF ProcRecord
  <2> HIDE DEF rec
  <2> QED BY <1>0, <2>1, <2>2, Return_Quiet, Set_Quiet
<1>4. ASSUME NEW rest, NextSale(p, rest), proc[p].at # "record", UNCHANGED <<pays, written, wallet>>
      PROVE  Quiet(p)
  <2> DEFINE rec == [proc[p] EXCEPT !.at = "issueNext", !.todo = rest, !.doing = {}]
  <2>1. Return(p) \/ proc' = [proc EXCEPT ![p] = rec]
    BY <1>4, <1>t DEF NextSale
  <2>2. rec.at = "issueNext"
    BY <1>t DEF ProcRecord
  <2> HIDE DEF rec
  <2> QED BY <1>0, <1>4, <2>1, <2>2, Return_Quiet, Set_Quiet
<1>5. ASSUME NEW s \in Sales, IssueNext(p, s) PROVE Quiet(p)
  <2> DEFINE rec == [proc[p] EXCEPT !.at = "issueMark", !.todo = proc[p].todo \ {s}, !.doing = {s}]
  <2>1. proc[p].at = "issueNext" /\ UNCHANGED <<pays, written, wallet>>
        /\ (NextSale(p, proc[p].todo \ {s}) \/ proc' = [proc EXCEPT ![p] = rec])
    BY <1>5, <1>t DEF IssueNext, At
  <2>2. rec.at = "issueMark"
    BY <1>t DEF ProcRecord
  <2> HIDE DEF rec
  <2> QED BY <1>0, <1>4, <2>1, <2>2, Set_Quiet
<1>6. CASE IssueMark(p)
  BY <1>4, <1>6 DEF IssueMark, At
<1> QED BY <1>1, <1>2, <1>3, <1>5, <1>6 DEF PayStep

LEMMA ReverseStep_Quiet ==
    ASSUME BillTypes, NEW p \in Tills, ReverseStep(p), ~UndoDelete(p), ~Refund(p)
    PROVE  Quiet(p)
<1>1. CASE UndoStatus(p)
  BY <1>1, Return_Quiet DEF UndoStatus, At
<1>2. CASE VoidOrder(p)
  BY <1>2, Return_Quiet DEF VoidOrder, At
<1>3. CASE ReopenOrder(p)
  BY <1>3, Return_Quiet DEF ReopenOrder, At
<1>4. CASE RefundCards(p)
  BY <1>4, Return_Quiet DEF RefundCards, At
<1> QED BY <1>1, <1>2, <1>3, <1>4 DEF ReverseStep

\* What was taken from gift cards and is neither on the books nor in hand.
Missing == (Wallet["GIFT_CARD"] - wallet["GIFT_CARD"]) - (Books + HandsOf(proc))

Undos == \A q \in Tills : MayUndo(proc[q])

LEMMA Missing_Typed ==
    ASSUME BillTypes
    PROVE  /\ Missing \in Int /\ Books \in Int /\ HandsOf(proc) \in Int
           /\ Wallet["GIFT_CARD"] \in Int /\ wallet["GIFT_CARD"] \in Int
           /\ proc \in [Tills -> ProcRecord]
<1>1. Wallet["GIFT_CARD"] \in Int /\ wallet["GIFT_CARD"] \in Int
  BY PosBillAssumption DEF BillTypes, TypeOK, Wallets
<1>2. proc \in [Tills -> ProcRecord]
  BY DEF BillTypes, TypeOK
<1> QED BY <1>1, <1>2, Hands_Typed, Books_Typed DEF Missing

MoneyTyped == Missing \in Int /\ Books \in Int

LEMMA Missing_Typed_Next == BillTypes' => Missing' \in Int /\ Books' \in Int
<1>1. BillTypes => MoneyTyped
  BY Missing_Typed DEF MoneyTyped
<1>2. BillTypes' => MoneyTyped'
  BY <1>1, PTL
<1> QED BY <1>2 DEF MoneyTyped

\* Rows only come, with new ids, or change their bill.
RowsKeep ==
    /\ written' >= written
    /\ \A r \in pays' : r.id > written \/ \E s \in pays : s.id = r.id /\ s.method = r.method

LEMMA Undo_Keeps ==
    ASSUME BillTypes, BillTypes', RowsKeep, NEW q \in ProcRecord, MayUndo(q)
    PROVE  MayUndo(q)'
<1>1. q.pay \in Nat /\ written \in Int /\ written' \in Int
  BY ProcFields_Typed DEF BillTypes, TypeOK
<1>2. \A r \in pays' : r.id \in Int
  BY DEF BillTypes, TypeOK, PaymentRecord
<1> QED BY <1>1, <1>2 DEF MayUndo, RowsKeep

\* Only p moves, and it may undo.
LEMMA Undos_Keep ==
    ASSUME BillTypes, BillTypes', Undos, RowsKeep, NEW p \in Tills,
           \A q \in Tills : q # p => proc'[q] = proc[q], MayUndo(proc'[p])
    PROVE  Undos'
<1>1. \A q \in Tills : proc'[q] \in ProcRecord
  BY DEF BillTypes, TypeOK
<1>2. \A q \in Tills : MayUndo(proc'[q])
  BY DEF Undos
<1>3. \A x \in ProcRecord : MayUndo(x) => MayUndo(x)'
  BY Undo_Keeps
<1>4. \A q \in Tills : \A x \in ProcRecord : x = proc'[q] => (MayUndo(x)' => MayUndo(proc[q])')
  BY DEF MayUndo
<1> QED BY <1>1, <1>2, <1>3, <1>4 DEF Undos

LEMMA Hands_Step ==
    ASSUME BillTypes, BillTypes', NEW p \in Tills, \A q \in Tills : q # p => proc'[q] = proc[q]
    PROVE  /\ HandsOf(proc') = HandsOf(proc) + (Hand(proc'[p]) - Hand(proc[p]))
           /\ HandsOf(proc') \in Int /\ Hand(proc[p]) \in Int /\ Hand(proc'[p]) \in Int
<1>1. proc \in [Tills -> ProcRecord] /\ proc' \in [Tills -> ProcRecord]
  BY DEF BillTypes, TypeOK
<1> QED BY <1>1, Hands_Move, Hands_Typed, Hand_Typed

LEMMA Missing_Moves ==
    ASSUME BillTypes, BillTypes', NEW p \in Tills, \A q \in Tills : q # p => proc'[q] = proc[q]
    PROVE  Missing' = Missing + (wallet["GIFT_CARD"] - wallet'["GIFT_CARD"])
                      - (Books' - Books) - (Hand(proc'[p]) - Hand(proc[p]))
<1>1. HandsOf(proc)' = HandsOf(proc')
  BY DEF HandsOf
<1>2. Missing' = (Wallet["GIFT_CARD"] - wallet'["GIFT_CARD"]) - (Books' + HandsOf(proc'))
  BY <1>1 DEF Missing
<1>3. wallet'["GIFT_CARD"] \in Int
  BY DEF BillTypes, TypeOK, Wallets
<1>4. Books' \in Int
  BY Missing_Typed_Next
<1> QED BY <1>2, <1>3, <1>4, Hands_Step, Missing_Typed DEF Missing

LEMMA Quiet_Money ==
    ASSUME BillTypes, BillTypes', Undos, NEW p \in Tills, Quiet(p)
    PROVE  Undos' /\ Missing' = Missing
<1>1. RowsKeep
  BY DEF Quiet, RowsKeep, BillTypes, TypeOK
<1>2. Undos'
  BY <1>1, Undos_Keep DEF Quiet
<1>3. Books' = Books
  <2>1. GiftRows' = GiftRows
    BY DEF Quiet, GiftRows
  <2> QED BY <2>1, Books_Same
<1>4. wallet' = wallet /\ Hand(proc'[p]) = 0 /\ Hand(proc[p]) = 0
      /\ \A q \in Tills : q # p => proc'[q] = proc[q]
  BY DEF Quiet
<1>5. Missing' = Missing + (wallet["GIFT_CARD"] - wallet["GIFT_CARD"]) - (Books - Books) - (0 - 0)
  BY <1>3, <1>4, Missing_Moves
<1> QED BY <1>2, <1>5, Missing_Typed

LEMMA Step_Money ==
    ASSUME BillTypes, BillTypes', Undos, NEW p \in Tills, StepOf(p)
    PROVE  Undos' /\ Missing' = Missing
<1>t. /\ proc \in [Tills -> ProcRecord] /\ proc[p] \in ProcRecord /\ Fit(proc[p])
      /\ proc[p].amt \in Int /\ proc[p].tip \in Int /\ proc[p].tips \in Int
      /\ proc[p].method \in Methods /\ proc[p].ref \in Refs \cup {NoRef}
      /\ wallet \in [Wallets -> Nat] /\ pays \subseteq PaymentRecord /\ written \in Nat
  BY ProcFields_Typed DEF BillTypes, TypeOK
<1>0. Missing \in Int /\ Books \in Int /\ wallet["GIFT_CARD"] \in Int
  BY Missing_Typed
<1>1. CASE Debit(p)
  <2> DEFINE m == proc[p].method
             due == proc[p].amt + proc[p].tip
  <2>0. proc[p].at = "debit" /\ UNCHANGED <<pays, written>>
    BY <1>1 DEF Debit, At
  <2>1. CASE due > 0 /\ due <= wallet[m]
    <3>1. wallet' = [wallet EXCEPT ![m] = @ - due] /\ Goto(p, "record")
      BY <1>1, <2>1 DEF Debit
    <3>2. proc'[p] = [proc[p] EXCEPT !.at = "record"] /\ \A q \in Tills : q # p => proc'[q] = proc[q]
      BY <1>t, <3>1 DEF Goto
    <3>3. proc'[p].at = "record" /\ proc'[p].method = m /\ proc'[p].amt + proc'[p].tip = due
      BY <1>t, <3>2 DEF ProcRecord
    <3>4. Hand(proc[p]) = 0 /\ Hand(proc'[p]) = IF m = "GIFT_CARD" THEN due ELSE 0
      BY <2>0, <3>3 DEF Hand
    <3>5. wallet'["GIFT_CARD"] = wallet["GIFT_CARD"] - (IF m = "GIFT_CARD" THEN due ELSE 0)
      <4>1. "GIFT_CARD" \in Wallets
        BY DEF Wallets
      <4> HIDE DEF m, due
      <4> QED BY <1>t, <1>0, <3>1, <4>1
    <3>6. Books' = Books
      <4>1. GiftRows' = GiftRows
        BY <2>0 DEF GiftRows
      <4> QED BY <4>1, Books_Same
    <3>7. RowsKeep /\ MayUndo(proc'[p])
      BY <1>t, <2>0, <3>3 DEF RowsKeep, MayUndo
    <3>8. Undos'
      BY <3>2, <3>7, Undos_Keep
    <3>9. Missing' = Missing + (wallet["GIFT_CARD"] - wallet'["GIFT_CARD"])
                      - (Books' - Books) - (Hand(proc'[p]) - Hand(proc[p]))
      BY <3>2, Missing_Moves
    <3>10. due \in Int
      BY <1>t
    <3> HIDE DEF m, due
    <3> QED BY <1>0, <3>4, <3>5, <3>6, <3>8, <3>9, <3>10
  <2>2. CASE ~(due > 0 /\ due <= wallet[m])
    <3>1. Throw(p) /\ UNCHANGED <<pays, written, wallet>>
      BY <1>1, <2>2 DEF Debit
    <3> QED BY <2>0, <3>1, Return_Quiet, Quiet_Money
  <2> QED BY <2>1, <2>2
<1>2. CASE Record(p)
  <2>1. proc[p].at = "record" /\ Goto(p, "status") /\ UNCHANGED wallet
        /\ AddPayment(B(p), proc[p].method, proc[p].amt, proc[p].tip, proc[p].ref)
    BY <1>2 DEF Record, At
  <2>2. B(p) \in Bills
    BY <1>t, <2>1 DEF Fit, B
  <2>3. PICK r \in PaymentRecord : /\ r \notin pays /\ pays' = pays \cup {r} /\ r.id = written + 1
                                   /\ r.method = proc[p].method
                                   /\ r.amt = proc[p].amt /\ r.tip = proc[p].tip
    BY <1>t, <2>1, <2>2, Added_Row
  <2>4. written' = written + 1
    BY <2>1 DEF AddPayment
  <2>5. Lands(p, {"status"})
    BY <2>1, Goto_Lands
  <2>6. RowsKeep /\ MayUndo(proc'[p])
    BY <1>t, <2>3, <2>4, <2>5 DEF RowsKeep, MayUndo, Lands
  <2>7. Undos'
    BY <2>5, <2>6, Undos_Keep DEF Lands
  <2> DEFINE n == Hand(proc[p])
  <2>8. n \in Int /\ Hand(proc'[p]) = 0
    BY <1>t, <2>5, Hand_Typed DEF Lands, Hand
  <2>9. Books' = Books + n
    BY <2>1, <2>3, Books_Add DEF Hand
  <2>10. Missing' = Missing + (wallet["GIFT_CARD"] - wallet'["GIFT_CARD"])
                      - (Books' - Books) - (Hand(proc'[p]) - Hand(proc[p]))
    BY <2>5, Missing_Moves DEF Lands
  <2>11. Missing' = Missing + (wallet["GIFT_CARD"] - wallet["GIFT_CARD"]) - ((Books + n) - Books) - (0 - n)
    BY <2>1, <2>8, <2>9, <2>10
  <2> HIDE DEF n
  <2> QED BY <1>0, <2>7, <2>8, <2>11
<1>3. CASE Refund(p)
  <2>1. proc[p].at = "refund" /\ (Goto(p, "refundCards") \/ Return(p)) /\ UNCHANGED wallet
        /\ AddPayment(B(p), proc[p].method, proc[p].tips - proc[p].amt, -proc[p].tips, proc[p].ref)
    BY <1>3 DEF Refund, At
  <2>2. B(p) \in Bills
    BY <1>t, <2>1 DEF Fit, B
  <2>a. proc[p].tips - proc[p].amt \in Int /\ -proc[p].tips \in Int
    BY <1>t
  <2>3. PICK r \in PaymentRecord : /\ r \notin pays /\ pays' = pays \cup {r} /\ r.id = written + 1
                                   /\ r.method = proc[p].method
    BY <1>t, <2>1, <2>2, <2>a, Added_Row
  <2>4. written' = written + 1
    BY <2>1 DEF AddPayment
  <2>5. Lands(p, Harmless)
    BY <2>1, Goto_Lands, Return_Lands, Harmless_Places DEF Lands
  <2>6. RowsKeep /\ MayUndo(proc'[p]) /\ Hand(proc'[p]) = 0
    BY <1>t, <2>3, <2>4, <2>5, Harmless_Hand DEF RowsKeep, Lands
  <2>7. Undos'
    BY <2>5, <2>6, Undos_Keep DEF Lands
  <2>8. Hand(proc[p]) = 0
    BY <2>1 DEF Hand
  <2>9. Books' = Books
    <3>1. r.method # "GIFT_CARD"
      BY <1>t, <2>1, <2>3 DEF Fit, Wallets
    <3>2. Books' = Books + (IF r.method = "GIFT_CARD" THEN r.amt + r.tip ELSE 0)
      BY <2>3, Books_Add
    <3> QED BY <1>0, <3>1, <3>2
  <2>10. Missing' = Missing + (wallet["GIFT_CARD"] - wallet'["GIFT_CARD"])
                      - (Books' - Books) - (Hand(proc'[p]) - Hand(proc[p]))
    BY <2>5, Missing_Moves DEF Lands
  <2>11. Missing' = Missing + (wallet["GIFT_CARD"] - wallet["GIFT_CARD"]) - (Books - Books) - (0 - 0)
    BY <2>1, <2>6, <2>8, <2>9, <2>10
  <2> QED BY <1>0, <2>7, <2>11
<1>4. CASE UndoDelete(p)
  <2> DEFINE row == {r \in pays : r.id = proc[p].pay}
  <2>1. proc[p].at = "undoDelete" /\ pays' = pays \ row /\ UNCHANGED <<written, wallet>>
        /\ (Throw(p) \/ Goto(p, "undoStatus"))
    BY <1>4 DEF UndoDelete, At
  <2>2. \A r \in row : r.method # "GIFT_CARD"
    BY <2>1 DEF Undos, MayUndo, NotUndone
  <2>3. Books' = Books
    <3>1. GiftRows' = GiftRows
      BY <2>1, <2>2 DEF GiftRows
    <3> QED BY <3>1, Books_Same
  <2>4. Lands(p, Harmless)
    BY <2>1, Goto_Lands, Return_Lands, Harmless_Places DEF Lands
  <2>5. RowsKeep /\ MayUndo(proc'[p]) /\ Hand(proc'[p]) = 0
    BY <1>t, <2>1, <2>4, Harmless_Hand DEF RowsKeep, Lands
  <2>6. Undos'
    BY <2>4, <2>5, Undos_Keep DEF Lands
  <2>7. Hand(proc[p]) = 0
    BY <2>1 DEF Hand
  <2>8. Missing' = Missing + (wallet["GIFT_CARD"] - wallet'["GIFT_CARD"])
                      - (Books' - Books) - (Hand(proc'[p]) - Hand(proc[p]))
    BY <2>4, Missing_Moves DEF Lands
  <2>9. Missing' = Missing + (wallet["GIFT_CARD"] - wallet["GIFT_CARD"]) - (Books - Books) - (0 - 0)
    BY <2>1, <2>3, <2>5, <2>7, <2>8
  <2> QED BY <1>0, <2>6, <2>9
<1>5. CASE MergeOrders(p)
  <2>1. proc[p].at = "merge" /\ Goto(p, "recRead") /\ UNCHANGED <<written, wallet>>
        /\ MovedRows(B(p), proc[p].other)
    BY <1>5 DEF MergeOrders, MovedRows, At
  <2>2. B(p) \in Bills
    BY <1>t, <2>1 DEF Fit, B
  <2>3. Books' = Books
    BY <2>1, <2>2, Books_Merge
  <2>4. Lands(p, Harmless)
    BY <2>1, Goto_Lands, Harmless_Places DEF Lands
  <2>5. MayUndo(proc'[p]) /\ Hand(proc'[p]) = 0
    BY <2>4, Harmless_Hand DEF Lands
  <2>6. RowsKeep
    <3>1. PICK h : /\ pays' = {h[r] : r \in pays}
                   /\ \A r \in pays : h[r].id = r.id /\ h[r].method = r.method
      BY <2>1, <2>2, Merge_Map
    <3> QED BY <1>t, <2>1, <3>1 DEF RowsKeep
  <2>7. Undos'
    BY <2>4, <2>5, <2>6, Undos_Keep DEF Lands
  <2>8. Hand(proc[p]) = 0
    BY <2>1 DEF Hand
  <2>9. Missing' = Missing + (wallet["GIFT_CARD"] - wallet'["GIFT_CARD"])
                      - (Books' - Books) - (Hand(proc'[p]) - Hand(proc[p]))
    BY <2>4, Missing_Moves DEF Lands
  <2>10. Missing' = Missing + (wallet["GIFT_CARD"] - wallet["GIFT_CARD"]) - (Books - Books) - (0 - 0)
    BY <2>1, <2>3, <2>5, <2>8, <2>9
  <2> QED BY <1>0, <2>7, <2>10
<1>6. CASE Quiet(p)
  BY <1>6, Quiet_Money
<1> QED
  BY <1>1, <1>2, <1>3, <1>4, <1>5, <1>6, RingUp_Quiet, SettleUp_Quiet, LineStep_Quiet, PayStep_Quiet,
     ReverseStep_Quiet DEF StepOf

\* A handler that dies with gift card money in hand leaves it missing.
LEMMA Crash_Money ==
    ASSUME BillTypes, BillTypes', Undos, NEW p \in Tills, Crash(p)
    PROVE  Undos' /\ Missing' >= Missing
<1>t. proc \in [Tills -> ProcRecord] /\ proc[p] \in ProcRecord /\ Fit(proc[p]) /\ written \in Int
  BY DEF BillTypes, TypeOK
<1>0. Missing \in Int /\ Books \in Int /\ wallet["GIFT_CARD"] \in Int
  BY Missing_Typed
<1>1. proc' = [proc EXCEPT ![p] = IdleProc] /\ UNCHANGED <<pays, written, wallet>>
  BY DEF Crash, billVars
<1>2. Lands(p, Harmless)
  <2>1. IdleProc.at \in Harmless
    BY Harmless_Places DEF IdleProc
  <2> QED BY <1>1, <2>1, Set_Lands DEF Lands
<1>3. RowsKeep /\ MayUndo(proc'[p]) /\ Hand(proc'[p]) = 0
  BY <1>t, <1>1, <1>2, Harmless_Hand DEF RowsKeep, Lands
<1>4. Undos'
  BY <1>2, <1>3, Undos_Keep DEF Lands
<1>5. Books' = Books
  <2>1. GiftRows' = GiftRows
    BY <1>1 DEF GiftRows
  <2> QED BY <2>1, Books_Same
<1> DEFINE n == Hand(proc[p])
<1>6. n \in Int /\ n >= 0
  <2>1. proc[p].amt \in Int /\ proc[p].tip \in Int
    BY <1>t, ProcFields_Typed
  <2> QED BY <1>t, <2>1 DEF Hand, Fit, Wallets
<1>7. Missing' = Missing + (wallet["GIFT_CARD"] - wallet'["GIFT_CARD"])
                      - (Books' - Books) - (Hand(proc'[p]) - Hand(proc[p]))
  BY <1>2, Missing_Moves DEF Lands
<1>8. Missing' = Missing + (wallet["GIFT_CARD"] - wallet["GIFT_CARD"]) - (Books - Books) - (0 - n)
  BY <1>1, <1>3, <1>5, <1>7
<1> HIDE DEF n
<1> QED BY <1>0, <1>4, <1>6, <1>8

LEMMA Init_Money == Init => Undos /\ Missing = 0
<1> SUFFICES ASSUME Init PROVE Undos /\ Missing = 0
  OBVIOUS
<1>1. Undos
  BY DEF Init, Undos, MayUndo, IdleProc
<1>2. Books = 0
  <2>1. GiftRows = {}
    BY DEF Init, GiftRows
  <2>2. Paid({}) = 0 /\ Tips({}) = 0
    BY SumEmpty DEF Paid, Tips
  <2> QED BY <2>1, <2>2 DEF Books
<1>3. HandsOf(proc) = 0
  <2> DEFINE f == [p \in Tills |-> Hand(proc[p])]
  <2>1. \A p \in Tills : f[p] = 0
    BY DEF Init, Hand, IdleProc
  <2>2. HandsOf(proc) = SumFunctionOnSet(f, Tills)
    BY DEF HandsOf
  <2> HIDE DEF f
  <2>3. {} \in SUBSET Tills /\ (\A y \in Tills : f[y] \in Int) /\ (\A y \in Tills \ {} : f[y] = 0)
    BY <2>1
  <2>4. SumFunctionOnSet(f, {}) = SumFunctionOnSet(f, Tills)
    BY <2>3, SumRelevant, PosBillAssumption
  <2> QED BY <2>2, <2>4, SumEmpty
<1>4. Wallet["GIFT_CARD"] \in Int /\ wallet = Wallet
  BY PosBillAssumption DEF Init, Wallets
<1> QED BY <1>1, <1>2, <1>3, <1>4 DEF Missing

LEMMA Stutter_Money ==
    ASSUME BillTypes, Undos, UNCHANGED vars
    PROVE  BillTypes' /\ Undos' /\ Missing' = Missing
<1>1. BillTypes'
  BY DEF BillTypes, TypeOK, RowIds, LiveCards, vars
<1>2. Undos'
  BY DEF Undos, MayUndo, vars
<1>3. GiftRows' = GiftRows
  BY DEF GiftRows, vars
<1>4. Books' = Books
  BY <1>3, Books_Same
<1> QED BY <1>1, <1>2, <1>4 DEF Missing, HandsOf, vars

\* The rows of a bill keep their types: every id is one payment's, and a sale's
\* live cards are counted.
THEOREM BillsTyped == CrashingSpec => []BillTypes
<1>1. Init => BillTypes
  BY Init_Types
<1>2. BillTypes /\ [Step \/ \E p \in Tills : Crash(p)]_vars => BillTypes'
  <2> SUFFICES ASSUME BillTypes, [Step \/ \E p \in Tills : Crash(p)]_vars PROVE BillTypes'
    OBVIOUS
  <2>1. CASE Step
    BY <2>1, Step_Types DEF Step
  <2>2. CASE \E p \in Tills : Crash(p)
    BY <2>2, Crash_Types
  <2>3. CASE UNCHANGED vars
    BY <2>3 DEF BillTypes, TypeOK, RowIds, LiveCards, vars
  <2> QED BY <2>1, <2>2, <2>3
<1> QED BY <1>1, <1>2, PTL DEF CrashingSpec

\* Nothing is missing of what was taken from gift cards.
THEOREM GiftMoneyOnBooks == Spec => []GiftDebitsRecorded
<1> DEFINE I == BillTypes /\ Undos /\ Missing = 0
<1>1. Init => I
  BY Init_Types, Init_Money
<1>2. I /\ [Step]_vars => I'
  <2> SUFFICES ASSUME I, [Step]_vars PROVE I'
    OBVIOUS
  <2>1. CASE Step
    <3>1. PICK p \in Tills : StepOf(p)
      BY <2>1 DEF Step
    <3>2. BillTypes'
      BY <3>1, Step_Types
    <3> QED BY <3>1, <3>2, Step_Money
  <2>2. CASE UNCHANGED vars
    BY <2>2, Stutter_Money
  <2> QED BY <2>1, <2>2
<1>3. I => GiftDebitsRecorded
  <2> SUFFICES ASSUME I PROVE GiftDebitsRecorded
    OBVIOUS
  <2>1. InHand("GIFT_CARD") = HandsOf(proc) /\ OnBooks("GIFT_CARD") = Books
    BY InHand_Is, Books_Are
  <2> QED BY <2>1, Missing_Typed DEF Missing, GiftDebitsRecorded
<1> QED BY <1>1, <1>2, <1>3, PTL DEF Spec

\* However handlers die.
THEOREM GiftMoneyNotFree == CrashingSpec => []GiftNotFree
<1> DEFINE Next == Step \/ \E p \in Tills : Crash(p)
           I == BillTypes /\ Undos /\ Missing >= 0
<1>1. Init => I
  BY Init_Types, Init_Money
<1>2. I /\ [Next]_vars => I'
  <2> SUFFICES ASSUME I, [Next]_vars PROVE I'
    OBVIOUS
  <2>1. CASE Step
    <3>1. PICK p \in Tills : StepOf(p)
      BY <2>1 DEF Step
    <3>2. BillTypes'
      BY <3>1, Step_Types
    <3> QED BY <3>1, <3>2, Step_Money
  <2>2. CASE \E p \in Tills : Crash(p)
    <3>1. PICK p \in Tills : Crash(p)
      BY <2>2
    <3>2. BillTypes'
      BY <3>1, Crash_Types
    <3>3. Undos' /\ Missing' >= Missing
      BY <3>1, <3>2, Crash_Money
    <3>4. Missing \in Int /\ (BillTypes' => Missing' \in Int)
      BY Missing_Typed, Missing_Typed_Next
    <3> QED BY <3>2, <3>3, <3>4
  <2>3. CASE UNCHANGED vars
    BY <2>3, Stutter_Money
  <2> QED BY <2>1, <2>2, <2>3
<1>3. I => GiftNotFree
  <2> SUFFICES ASSUME I PROVE GiftNotFree
    OBVIOUS
  <2>1. OnBooks("GIFT_CARD") = Books
    BY Books_Are
  <2>2. HandsOf(proc) >= 0
    <3> DEFINE f == [p \in Tills |-> Hand(proc[p])]
               g == [p \in Tills |-> 0]
    <3>1. \A p \in Tills : f[p] \in Int /\ f[p] >= 0 /\ g[p] = 0
      BY ProcFields_Typed DEF BillTypes, TypeOK, Hand, Fit, Wallets
    <3>2. HandsOf(proc) = SumFunctionOnSet(f, Tills)
      BY DEF HandsOf
    <3>3. {} \in SUBSET Tills
      OBVIOUS
    <3> HIDE DEF f, g
    <3>4. SumFunctionOnSet(g, {}) <= SumFunctionOnSet(f, Tills)
      BY <3>1, <3>3, SumAtMost, PosBillAssumption
    <3> QED BY <3>2, <3>4, SumEmpty
  <2> QED BY <2>1, <2>2, Missing_Typed DEF Missing, GiftNotFree
<1> QED BY <1>1, <1>2, <1>3, PTL DEF CrashingSpec

-----------------------------------------------------------------------------
(* What a handler remembers *)

\* Where the handlers of PosBill stand.
BillPlaces ==
    {"setLines", "addSale", "removeSale", "syncRead", "syncClear", "syncCreate", "recRead",
     "recWrite", "merge", "splitNext", "payReread", "debit", "record", "status", "issueList",
     "issueNext", "issueMark", "undoDelete", "undoStatus", "void", "reopen", "refund", "refundCards"}

\* A handler that has nothing to come back to.
Plain(n) ==
    /\ n.at \in BillPlaces \cup {"idle"} /\ n.ref = NoRef /\ n.then = "idle" /\ n.catch = "idle"
    /\ n.method # "ONLINE"

\* A handler that goes on with what it was asked, or is done with it.
Follows(q, n) ==
    /\ q.at \in BillPlaces
    /\ n.at \in BillPlaces \/ (n.at # "idle" /\ n.at \in {q.then, q.catch})
    /\ n.ref = q.ref /\ n.then = q.then /\ n.catch = q.catch /\ n.method = q.method
    /\ n.want = q.want /\ n.tip = q.tip
    /\ q.at # "splitNext" => n.b = q.b
    /\ IF n.at \in {"debit", "record"} /\ q.at \notin {"debit", "record"}
       THEN n.amt >= 0 /\ (q.want # 0 => n.amt = q.want)
       ELSE n.amt = q.amt

Own(p) ==
    /\ \A q \in Tills : q # p => proc'[q] = proc[q]
    /\ Plain(proc'[p]) \/ Follows(proc[p], proc'[p]) \/ proc'[p] = proc[p]

LEMMA Set_Own ==
    ASSUME BillTypes, NEW p \in Tills, NEW rec, proc' = [proc EXCEPT ![p] = rec],
           Plain(rec) \/ Follows(proc[p], rec)
    PROVE  Own(p)
BY Set_Lands DEF Own, Lands

LEMMA Plain_Idle == Plain(IdleProc)
BY DEF Plain, IdleProc

\* Going on somewhere else.
LEMMA At_Follows ==
    \A q \in ProcRecord : \A w \in BillPlaces \ {"debit", "record"} :
        q.at \in BillPlaces => Follows(q, [q EXCEPT !.at = w])
BY DEF ProcRecord, Follows

LEMMA Goto_Own ==
    ASSUME BillTypes, NEW p \in Tills, NEW w \in BillPlaces \ {"debit", "record"}, Goto(p, w),
           proc[p].at \in BillPlaces
    PROVE  Own(p)
<1> DEFINE rec == [proc[p] EXCEPT !.at = w]
<1>1. proc[p] \in ProcRecord /\ proc' = [proc EXCEPT ![p] = rec]
  BY DEF BillTypes, TypeOK, Goto
<1>2. Follows(proc[p], rec)
  BY <1>1, At_Follows
<1> HIDE DEF rec
<1> QED BY <1>1, <1>2, Set_Own

LEMMA Return_Own ==
    ASSUME BillTypes, NEW p \in Tills, Return(p) \/ Throw(p), proc[p].at \in BillPlaces
    PROVE  Own(p)
<1>1. proc[p] \in ProcRecord
  BY DEF BillTypes, TypeOK
<1>2. proc[p].then \in {"idle", "booked", "paid"} /\ proc[p].catch \in {"idle", "notBooked"}
  BY <1>1, ProcFields_Typed
<1>3. PICK w \in {proc[p].then, proc[p].catch} :
         proc' = [proc EXCEPT ![p] = IF w = "idle" THEN IdleProc ELSE [proc[p] EXCEPT !.at = w]]
  BY DEF Return, Throw, GoOrIdle
<1>4. CASE w = "idle"
  BY <1>3, <1>4, Plain_Idle, Set_Own
<1>5. CASE w # "idle"
  <2> DEFINE rec == [proc[p] EXCEPT !.at = w]
  <2>1. Follows(proc[p], rec)
    BY <1>1, <1>2, <1>5 DEF ProcRecord, Follows
  <2>2. proc' = [proc EXCEPT ![p] = rec]
    BY <1>3, <1>5
  <2> HIDE DEF rec
  <2> QED BY <2>1, <2>2, Set_Own
<1> QED BY <1>4, <1>5

\* What a payment or a refund comes to, for a handler with somewhere to come back to.
LEMMA Refused_Goes ==
    ASSUME NEW q \in ProcRecord
    PROVE  \/ Refused(q) = IdleProc
           \/ q.catch # "idle" /\ Refused(q) = [q EXCEPT !.at = q.catch]
BY DEF Refused

\* Everything but the place, what was decided and where to go back to is as it was.
SameRequest(q, n) ==
    /\ n.ref = q.ref /\ n.then = q.then /\ n.catch = q.catch /\ n.method = q.method
    /\ n.want = q.want /\ n.tip = q.tip /\ n.b = q.b

LEMMA Decide_Goes ==
    ASSUME BillTypes, NEW q \in ProcRecord, q.b \in Bills
    PROVE  \/ Decide(q) = IdleProc
           \/ /\ SameRequest(q, Decide(q)) /\ Decide(q).back = q.back
              /\ \/ /\ Decide(q).at = IF q.method \in Wallets THEN "debit" ELSE "record"
                    /\ q.want # 0 => Decide(q).amt = q.want
                    /\ Decide(q).amt \in Int /\ Decide(q).amt >= 0
                    /\ Decide(q).settle => Decide(q).amt >= bill[q.b].total - Paid(Of(q.b))
                 \/ q.catch # "idle" /\ Decide(q).at = q.catch /\ Decide(q).amt = q.amt
<1> DEFINE balance == bill[q.b].total - Paid(Of(q.b))
           amount == IF q.want = 0 THEN balance ELSE q.want
           w == IF q.method \in Wallets THEN "debit" ELSE "record"
           full == amount >= balance
           rec == [q EXCEPT !.amt = amount, !.settle = full, !.tips = bill[q.b].tip, !.at = w]
<1>1. bill[q.b].total \in Int
  BY DEF BillTypes, TypeOK, BillRecord
<1>2. balance \in Int /\ amount \in Int
  BY <1>1, Bill_Sums, ProcFields_Typed
<1>3. CASE amount < 0 \/ amount > balance
  <2>1. Decide(q) = Refused(q)
    BY <1>3 DEF Decide
  <2> HIDE DEF amount, balance
  <2>2. Decide(q) = IdleProc \/ (q.catch # "idle" /\ Decide(q) = [q EXCEPT !.at = q.catch])
    BY <2>1, Refused_Goes
  <2> QED BY <2>2 DEF ProcRecord, SameRequest
<1>4. CASE ~(amount < 0 \/ amount > balance)
  <2>1. Decide(q) = rec
    BY <1>4 DEF Decide
  <2>2. amount >= 0 /\ (q.want # 0 => amount = q.want) /\ (full => amount >= balance)
    BY <1>2, <1>4
  <2>3. rec.amt = amount /\ rec.settle = full /\ rec.at = w /\ SameRequest(q, rec) /\ rec.back = q.back
    BY DEF ProcRecord, SameRequest
  <2> HIDE DEF rec, amount, balance, full, w
  <2> QED BY <1>2, <2>1, <2>2, <2>3 DEF w, balance
<1> QED BY <1>3, <1>4

LEMMA TakePayment_Goes ==
    ASSUME BillTypes, NEW q \in ProcRecord, q.b \in Bills
    PROVE  \/ TakePayment(q) = IdleProc
           \/ /\ bill[q.b].status = "OPEN"
              /\ TakePayment(q) = [q EXCEPT !.at = "recRead", !.back = "payReread"]
           \/ bill[q.b].status = "OPEN" /\ TakePayment(q) = Decide(q)
           \/ q.catch # "idle" /\ TakePayment(q) = [q EXCEPT !.at = q.catch]
BY Refused_Goes DEF TakePayment

LEMMA RingUp_Own ==
    ASSUME BillTypes, NEW p \in Tills, RingUp(p)
    PROVE  Own(p)
<1>1. ASSUME NEW b \in Bills, CreateOrder(p, b) PROVE Own(p)
  BY <1>1 DEF CreateOrder, Own
<1>2. ASSUME NEW b \in Bills, NEW goods \in 0..MaxGoods, SetLinesRead(p, b, goods) PROVE Own(p)
  <2> DEFINE rec == [IdleProc EXCEPT !.at = "setLines", !.b = b, !.want = goods]
  <2>1. proc' = [proc EXCEPT ![p] = rec]
    BY <1>2 DEF SetLinesRead
  <2>2. Plain(rec)
    BY DEF IdleProc, Plain, BillPlaces
  <2> HIDE DEF rec
  <2> QED BY <2>1, <2>2, Set_Own
<1>3. ASSUME NEW b \in Bills, AddGiftCardSaleRead(p, b) PROVE Own(p)
  <2> DEFINE rec == [IdleProc EXCEPT !.at = "addSale", !.b = b]
  <2>1. proc' = [proc EXCEPT ![p] = rec]
    BY <1>3 DEF AddGiftCardSaleRead, Begin
  <2>2. Plain(rec)
    BY DEF IdleProc, Plain, BillPlaces
  <2> HIDE DEF rec
  <2> QED BY <2>1, <2>2, Set_Own
<1>4. ASSUME NEW b \in Bills, SplitRead(p, b) PROVE Own(p)
  <2> DEFINE rec == [IdleProc EXCEPT !.at = "splitNext", !.other = b,
                                     !.want = bill[b].goods + bill[b].gifts]
  <2>1. proc' = [proc EXCEPT ![p] = rec]
    BY <1>4 DEF SplitRead
  <2>2. Plain(rec)
    BY DEF IdleProc, Plain, BillPlaces
  <2> HIDE DEF rec
  <2> QED BY <2>1, <2>2, Set_Own
<1>5. ASSUME NEW b \in Bills, NEW source \in Bills, MergeRead(p, b, source) PROVE Own(p)
  <2> DEFINE rec == [IdleProc EXCEPT !.at = "merge", !.b = b, !.other = source]
  <2>1. proc' = [proc EXCEPT ![p] = rec]
    BY <1>5 DEF MergeRead
  <2>2. Plain(rec)
    BY DEF IdleProc, Plain, BillPlaces
  <2> HIDE DEF rec
  <2> QED BY <2>1, <2>2, Set_Own
<1>6. ASSUME NEW s \in Sales, RemoveGiftCardSaleRead(p, s) PROVE Own(p)
  <2> DEFINE rec == [IdleProc EXCEPT !.at = "removeSale", !.b = sale[s].on, !.todo = {s}]
  <2>1. proc' = [proc EXCEPT ![p] = rec]
    BY <1>6 DEF RemoveGiftCardSaleRead
  <2>2. Plain(rec)
    BY DEF IdleProc, Plain, BillPlaces
  <2> HIDE DEF rec
  <2> QED BY <2>1, <2>2, Set_Own
<1> QED BY <1>1, <1>2, <1>3, <1>4, <1>5, <1>6 DEF RingUp

LEMMA SettleUp_Own ==
    ASSUME BillTypes, NEW p \in Tills, SettleUp(p)
    PROVE  Own(p)
<1>1. ASSUME NEW b \in Bills, NEW method \in TillTenders, NEW want \in 0..MaxGoods,
             NEW tip \in 0..MaxTip, PayOrder(p, b, method, want, tip)
      PROVE  Own(p)
  <2> DEFINE q == [IdleProc EXCEPT !.b = b, !.method = method, !.want = want, !.tip = tip]
  <2>0. method \in Methods /\ want \in Nat /\ tip \in Nat /\ method # "ONLINE"
    BY PosBillAssumption DEF Methods, Wallets
  <2>1. q \in ProcRecord /\ q.b \in Bills /\ q.ref = NoRef /\ q.then = "idle" /\ q.catch = "idle"
        /\ q.method # "ONLINE"
    BY <2>0, Idle_Typed DEF ProcRecord, IdleProc
  <2>2. proc' = [proc EXCEPT ![p] = TakePayment(q)]
    BY <1>1 DEF PayOrder
  <2> HIDE DEF q
  <2>3. Plain([q EXCEPT !.at = "recRead", !.back = "payReread"])
    BY <2>1 DEF ProcRecord, Plain, BillPlaces
  <2>4. Plain(Decide(q))
    BY <2>1, Decide_Goes, Plain_Idle DEF Plain, BillPlaces, SameRequest
  <2>5. Plain(TakePayment(q))
    BY <2>1, <2>3, <2>4, TakePayment_Goes, Plain_Idle
  <2> QED BY <2>2, <2>5, Set_Own
<1>2. ASSUME NEW b \in Bills, NEW method \in {"CASH", "REFUND"}, NEW want \in 0..MaxGoods,
             RefundOrder(p, b, method, want)
      PROVE  Own(p)
  <2> DEFINE q == [IdleProc EXCEPT !.b = b, !.method = method, !.want = want]
  <2>0. method \in Methods /\ want \in Nat /\ method # "ONLINE"
    BY DEF Methods
  <2>1. q \in ProcRecord /\ q.ref = NoRef /\ q.then = "idle" /\ q.catch = "idle"
        /\ q.method # "ONLINE"
    BY <2>0, Idle_Typed DEF ProcRecord, IdleProc
  <2>2. proc' = [proc EXCEPT ![p] = TakeRefund(q)]
    BY <1>2 DEF RefundOrder
  <2> HIDE DEF q
  <2>3. Plain(TakeRefund(q))
    <3>1. \/ Refused(q) = TakeRefund(q)
          \/ /\ TakeRefund(q).at = "refund" /\ TakeRefund(q).ref = q.ref
             /\ TakeRefund(q).then = q.then /\ TakeRefund(q).catch = q.catch
             /\ TakeRefund(q).method = q.method
      BY <2>1 DEF TakeRefund, ProcRecord
    <3>2. Refused(q) = IdleProc
      BY <2>1 DEF Refused
    <3> QED BY <2>1, <3>1, <3>2, Plain_Idle DEF Plain, BillPlaces
  <2> QED BY <2>2, <2>3, Set_Own
<1>3. ASSUME NEW b \in Bills, VoidRead(p, b) PROVE Own(p)
  <2> DEFINE rec == [IdleProc EXCEPT !.at = "void", !.b = b]
  <2>1. proc' = [proc EXCEPT ![p] = rec]
    BY <1>3 DEF VoidRead, Begin
  <2>2. Plain(rec)
    BY DEF IdleProc, Plain, BillPlaces
  <2> HIDE DEF rec
  <2> QED BY <2>1, <2>2, Set_Own
<1>4. ASSUME NEW b \in Bills, ReopenRead(p, b) PROVE Own(p)
  <2> DEFINE rec == [IdleProc EXCEPT !.at = "reopen", !.b = b]
  <2>1. proc' = [proc EXCEPT ![p] = rec]
    BY <1>4 DEF ReopenRead, Begin
  <2>2. Plain(rec)
    BY DEF IdleProc, Plain, BillPlaces
  <2> HIDE DEF rec
  <2> QED BY <2>1, <2>2, Set_Own
<1>5. ASSUME NEW r \in pays, UndoRead(p, r) PROVE Own(p)
  <2> DEFINE rec == [IdleProc EXCEPT !.at = "undoDelete", !.b = r.bill, !.pay = r.id,
                                     !.tips = AtLeastZero(bill[r.bill].tip - r.tip)]
  <2>1. proc' = [proc EXCEPT ![p] = rec]
    BY <1>5 DEF UndoRead
  <2>2. Plain(rec)
    BY DEF IdleProc, Plain, BillPlaces
  <2> HIDE DEF rec
  <2> QED BY <2>1, <2>2, Set_Own
<1> QED BY <1>1, <1>2, <1>3, <1>4, <1>5 DEF SettleUp

LEMMA LineStep_Own ==
    ASSUME BillTypes, NEW p \in Tills, LineStep(p)
    PROVE  Own(p)
<1>t. proc \in [Tills -> ProcRecord] /\ proc[p] \in ProcRecord /\ Fit(proc[p])
  BY DEF BillTypes, TypeOK
<1>1. CASE SetLines(p)
  BY <1>1, Goto_Own DEF SetLines, At, BillPlaces
<1>2. ASSUME NEW s \in Sales, AddGiftCardSale(p, s) PROVE Own(p)
  BY <1>2, Goto_Own DEF AddGiftCardSale, At, BillPlaces
<1>3. CASE RemoveGiftCardSale(p)
  <2> DEFINE rec == [proc[p] EXCEPT !.at = "syncRead", !.todo = {}]
  <2>1. proc[p].at = "removeSale" /\ (Throw(p) \/ proc' = [proc EXCEPT ![p] = rec])
    BY <1>3, <1>t DEF RemoveGiftCardSale, At
  <2>2. Follows(proc[p], rec)
    BY <1>t, <2>1 DEF ProcRecord, Follows, BillPlaces
  <2>3. proc[p].at \in BillPlaces
    BY <2>1 DEF BillPlaces
  <2> HIDE DEF rec
  <2> QED BY <2>1, <2>2, <2>3, Return_Own, Set_Own
<1>4. CASE SyncRead(p)
  <2> DEFINE rec == [proc[p] EXCEPT !.at = "syncClear", !.todo = SalesOn(B(p))]
  <2>1. proc[p].at = "syncRead" /\ proc' = [proc EXCEPT ![p] = rec]
    BY <1>4, <1>t DEF SyncRead, At
  <2>2. Follows(proc[p], rec)
    BY <1>t, <2>1 DEF ProcRecord, Follows, BillPlaces
  <2> HIDE DEF rec
  <2> QED BY <2>1, <2>2, Set_Own
<1>5. CASE SyncClear(p)
  <2>1. proc[p].at = "syncClear" /\ (Goto(p, "recRead") \/ Goto(p, "syncCreate"))
    BY <1>5 DEF SyncClear, At
  <2> QED BY <2>1, Goto_Own DEF BillPlaces
<1>6. CASE SyncCreate(p)
  <2> DEFINE rec == [proc[p] EXCEPT !.at = "recRead", !.todo = {}]
  <2>1. proc[p].at = "syncCreate" /\ proc' = [proc EXCEPT ![p] = rec]
    BY <1>6, <1>t DEF SyncCreate, At
  <2>2. Follows(proc[p], rec)
    BY <1>t, <2>1 DEF ProcRecord, Follows, BillPlaces
  <2> HIDE DEF rec
  <2> QED BY <2>1, <2>2, Set_Own
<1>7. CASE RecomputeRead(p)
  <2> DEFINE rec == [proc[p] EXCEPT !.at = "recWrite", !.sum = bill[B(p)].goods + bill[B(p)].gifts]
  <2>1. proc[p].at = "recRead" /\ proc' = [proc EXCEPT ![p] = rec]
    BY <1>7, <1>t DEF RecomputeRead, At
  <2>2. Follows(proc[p], rec)
    BY <1>t, <2>1 DEF ProcRecord, Follows, BillPlaces
  <2> HIDE DEF rec
  <2> QED BY <2>1, <2>2, Set_Own
<1>8. CASE RecomputeWrite(p)
  <2>1. proc[p].at = "recWrite"
        /\ proc' = [proc EXCEPT ![p] = IF proc[p].back = "idle" THEN IdleProc
                                       ELSE [proc[p] EXCEPT !.at = proc[p].back]]
    BY <1>8, <1>t DEF RecomputeWrite, GoOrIdle, At
  <2>2. proc[p].back \in {"idle", "payReread", "splitNext"}
    BY <1>t, ProcFields_Typed
  <2>3. CASE proc[p].back = "idle"
    BY <2>1, <2>3, Plain_Idle, Set_Own
  <2>4. CASE proc[p].back # "idle"
    <3>1. proc[p].back \in BillPlaces \ {"debit", "record"} /\ proc[p].at \in BillPlaces
      BY <2>1, <2>2, <2>4 DEF BillPlaces
    <3>2. Goto(p, proc[p].back)
      BY <2>1, <2>4 DEF Goto
    <3> QED BY <3>1, <3>2, Goto_Own
  <2> QED BY <2>3, <2>4
<1>9. CASE MergeOrders(p)
  BY <1>9, Goto_Own DEF MergeOrders, At, BillPlaces
<1>10. ASSUME NEW c \in Bills, SplitChild(p, c) PROVE Own(p)
  <2> DEFINE rec == [proc[p] EXCEPT !.at = "recRead", !.b = c, !.back = "splitNext",
                                    !.kids = proc[p].kids \cup {c}]
  <2>1. proc[p].at = "splitNext" /\ proc' = [proc EXCEPT ![p] = rec]
    BY <1>10, <1>t DEF SplitChild, At
  <2>2. Follows(proc[p], rec)
    BY <1>t, <2>1 DEF ProcRecord, Follows, BillPlaces
  <2> HIDE DEF rec
  <2> QED BY <2>1, <2>2, Set_Own
<1>11. CASE SplitVoid(p)
  BY <1>11, Return_Own DEF SplitVoid, At, BillPlaces
<1> QED BY <1>1, <1>2, <1>3, <1>4, <1>5, <1>6, <1>7, <1>8, <1>9, <1>10, <1>11 DEF LineStep

LEMMA PayStep_Own ==
    ASSUME BillTypes, NEW p \in Tills, PayStep(p)
    PROVE  Own(p)
<1>t. proc \in [Tills -> ProcRecord] /\ proc[p] \in ProcRecord /\ Fit(proc[p])
  BY DEF BillTypes, TypeOK
<1>1. CASE PayReread(p)
  <2> DEFINE q == [proc[p] EXCEPT !.back = "idle"]
  <2>1. proc' = [proc EXCEPT ![p] = Decide(q)] /\ proc[p].at = "payReread"
    BY <1>1 DEF PayReread, At
  <2>2. q \in ProcRecord /\ q.b \in Bills /\ SameRequest(proc[p], q) /\ q.amt = proc[p].amt
    BY <1>t, <2>1 DEF ProcRecord, Fit, SameRequest
  <2> HIDE DEF q
  <2>3. Decide(q) = IdleProc \/ Follows(proc[p], Decide(q))
    <3>1. q.catch \in {"idle", "notBooked"}
      BY <2>2, ProcFields_Typed
    <3>2. CASE Decide(q) = IdleProc
      BY <3>2
    <3>3. CASE Decide(q) # IdleProc
      BY <2>1, <2>2, <3>1, <3>3, Decide_Goes DEF Follows, BillPlaces, SameRequest
    <3> QED BY <3>2, <3>3
  <2> QED BY <2>1, <2>3, Plain_Idle, Set_Own
<1>2. CASE Debit(p)
  <2>1. proc[p].at = "debit" /\ (Goto(p, "record") \/ Throw(p))
    BY <1>2 DEF Debit, At
  <2>2. CASE Goto(p, "record")
    <3> DEFINE rec == [proc[p] EXCEPT !.at = "record"]
    <3>1. Follows(proc[p], rec)
      BY <1>t, <2>1 DEF ProcRecord, Follows, BillPlaces
    <3>2. proc' = [proc EXCEPT ![p] = rec]
      BY <1>t, <2>2 DEF Goto
    <3> HIDE DEF rec
    <3> QED BY <3>1, <3>2, Set_Own
  <2>3. CASE Throw(p)
    BY <2>1, <2>3, Return_Own DEF BillPlaces
  <2> QED BY <2>1, <2>2, <2>3
<1>3. CASE Record(p)
  BY <1>3, Goto_Own DEF Record, At, BillPlaces
<1>4. CASE SetStatus(p)
  <2>1. proc[p].at = "status" /\ (Goto(p, "issueList") \/ Return(p))
    BY <1>4 DEF SetStatus, At
  <2> QED BY <2>1, Goto_Own, Return_Own DEF BillPlaces
<1>5. CASE IssueList(p)
  <2> DEFINE pending == {s \in SalesOn(B(p)) : ~sale[s].issued}
             rec == [proc[p] EXCEPT !.at = "issueNext", !.todo = pending]
  <2>1. proc[p].at = "issueList" /\ (Return(p) \/ proc' = [proc EXCEPT ![p] = rec])
    BY <1>5, <1>t DEF IssueList, At
  <2>2. Follows(proc[p], rec)
    BY <1>t, <2>1 DEF ProcRecord, Follows, BillPlaces
  <2>3. proc[p].at \in BillPlaces
    BY <2>1 DEF BillPlaces
  <2> HIDE DEF rec
  <2> QED BY <2>1, <2>2, <2>3, Return_Own, Set_Own
<1>6. ASSUME NEW rest, NextSale(p, rest), proc[p].at \in {"issueNext", "issueMark"}
      PROVE  Own(p)
  <2> DEFINE rec == [proc[p] EXCEPT !.at = "issueNext", !.todo = rest, !.doing = {}]
  <2>1. Return(p) \/ proc' = [proc EXCEPT ![p] = rec]
    BY <1>6, <1>t DEF NextSale
  <2>2. Follows(proc[p], rec)
    BY <1>t, <1>6 DEF ProcRecord, Follows, BillPlaces
  <2>3. proc[p].at \in BillPlaces
    BY <1>6 DEF BillPlaces
  <2> HIDE DEF rec
  <2> QED BY <2>1, <2>2, <2>3, Return_Own, Set_Own
<1>7. ASSUME NEW s \in Sales, IssueNext(p, s) PROVE Own(p)
  <2> DEFINE rec == [proc[p] EXCEPT !.at = "issueMark", !.todo = proc[p].todo \ {s}, !.doing = {s}]
  <2>1. proc[p].at = "issueNext" /\ (NextSale(p, proc[p].todo \ {s}) \/ proc' = [proc EXCEPT ![p] = rec])
    BY <1>7, <1>t DEF IssueNext, At
  <2>2. Follows(proc[p], rec)
    BY <1>t, <2>1 DEF ProcRecord, Follows, BillPlaces
  <2> HIDE DEF rec
  <2> QED BY <1>6, <2>1, <2>2, Set_Own
<1>8. CASE IssueMark(p)
  BY <1>6, <1>8 DEF IssueMark, At
<1> QED BY <1>1, <1>2, <1>3, <1>4, <1>5, <1>7, <1>8 DEF PayStep

LEMMA ReverseStep_Own ==
    ASSUME BillTypes, NEW p \in Tills, ReverseStep(p)
    PROVE  Own(p)
<1>1. CASE UndoDelete(p)
  <2>1. proc[p].at = "undoDelete" /\ (Goto(p, "undoStatus") \/ Throw(p))
    BY <1>1 DEF UndoDelete, At
  <2> QED BY <2>1, Goto_Own, Return_Own DEF BillPlaces
<1>2. CASE UndoStatus(p)
  BY <1>2, Return_Own DEF UndoStatus, At, BillPlaces
<1>3. CASE VoidOrder(p)
  BY <1>3, Return_Own DEF VoidOrder, At, BillPlaces
<1>4. CASE ReopenOrder(p)
  BY <1>4, Return_Own DEF ReopenOrder, At, BillPlaces
<1>5. CASE Refund(p)
  <2>1. proc[p].at = "refund" /\ (Goto(p, "refundCards") \/ Return(p))
    BY <1>5 DEF Refund, At
  <2> QED BY <2>1, Goto_Own, Return_Own DEF BillPlaces
<1>6. CASE RefundCards(p)
  BY <1>6, Return_Own DEF RefundCards, At, BillPlaces
<1> QED BY <1>1, <1>2, <1>3, <1>4, <1>5, <1>6 DEF ReverseStep

LEMMA Step_Own ==
    ASSUME BillTypes, NEW p \in Tills, StepOf(p)
    PROVE  Own(p)
BY RingUp_Own, SettleUp_Own, LineStep_Own, PayStep_Own, ReverseStep_Own DEF StepOf

\* Nothing rung up, whoever takes part.
Start ==
    /\ bill = [b \in Bills |-> NoBillYet]
    /\ pays = {}
    /\ written = 0
    /\ sale = [s \in Sales |-> NoSaleYet]
    /\ cards = [s \in Sales |-> 0]
    /\ wallet = Wallet
    /\ DOMAIN proc = Tills
    /\ \E out \in SUBSET Tills : proc = [p \in Tills |-> IF p \in out THEN Away ELSE IdleProc]

LEMMA Away_Is ==
    /\ Away \in ProcRecord /\ Fit(Away) /\ Away.doing = {} /\ Away.at = "away" /\ Away.ref = NoRef
    /\ DOMAIN Away = DOMAIN IdleProc
BY Idle_Typed, Places_Known DEF Away, ProcRecord, Fit, IdleProc

LEMMA Start_Procs ==
    ASSUME Start
    PROVE  \A p \in Tills : proc[p] \in {IdleProc, Away}
BY DEF Start

LEMMA Start_Types == Start => BillTypes
<1> SUFFICES ASSUME Start PROVE BillTypes
  OBVIOUS
<1>1. NoBillYet \in BillRecord /\ NoSaleYet \in SaleRecord
  BY DEF NoBillYet, BillRecord, NoSaleYet, SaleRecord
<1>2. \A p \in Tills : proc[p] \in ProcRecord /\ Fit(proc[p]) /\ proc[p].doing = {}
  BY Start_Procs, Idle_Typed, Away_Is
<1>3. proc \in [Tills -> ProcRecord]
  BY <1>2 DEF Start
<1>4. RowIds
  BY FS_EmptySet DEF Start, RowIds
<1>5. TypeOK
  BY <1>1, <1>3, PosBillAssumption DEF Start, TypeOK
<1>6. LiveCards
  BY <1>2 DEF Start, LiveCards, NoSaleYet
<1> QED BY <1>2, <1>4, <1>5, <1>6 DEF BillTypes

-----------------------------------------------------------------------------
(* What each step of the register does, field by field *)

Others(p) == \A o \in Tills : o # p => proc'[o] = proc[o]

\* Everything a handler remembers but where it stands.
Keeps(q, n) ==
    /\ n.b = q.b /\ n.other = q.other /\ n.want = q.want /\ n.tip = q.tip /\ n.method = q.method
    /\ n.ref = q.ref /\ n.amt = q.amt /\ n.settle = q.settle /\ n.tips = q.tips /\ n.sum = q.sum
    /\ n.pay = q.pay /\ n.todo = q.todo /\ n.doing = q.doing /\ n.kids = q.kids /\ n.back = q.back
    /\ n.then = q.then /\ n.catch = q.catch

\* The same, but for what a list of sales or bills is for.
KeepsBut(q, n) ==
    /\ n.b = q.b /\ n.other = q.other /\ n.want = q.want /\ n.tip = q.tip /\ n.method = q.method
    /\ n.ref = q.ref /\ n.amt = q.amt /\ n.settle = q.settle /\ n.tips = q.tips
    /\ n.pay = q.pay /\ n.kids = q.kids /\ n.back = q.back
    /\ n.then = q.then /\ n.catch = q.catch

Rests(p) == Others(p) /\ proc'[p] = IdleProc

GoesTo(p, w) == Others(p) /\ proc'[p].at = w /\ Keeps(proc[p], proc'[p])

Ends(p, w) == IF w = "idle" THEN Rests(p) ELSE GoesTo(p, w)

\* A new request about b.
Asks(p, w, b) ==
    /\ Others(p) /\ proc[p].at = "idle"
    /\ proc'[p].at = w /\ proc'[p].b = b
    /\ proc'[p].back = "idle" /\ proc'[p].then = "idle" /\ proc'[p].catch = "idle"
    /\ proc'[p].ref = NoRef /\ proc'[p].kids = {} /\ proc'[p].doing = {}

OnlyBill(b) == \A c \in Bills : c # b => bill'[c] = bill[c]

LEMMA Idle_Fields ==
    /\ IdleProc.at = "idle" /\ IdleProc.b = NoBill /\ IdleProc.other = NoBill /\ IdleProc.want = 0
    /\ IdleProc.tip = 0 /\ IdleProc.method = "CASH" /\ IdleProc.ref = NoRef /\ IdleProc.amt = 0
    /\ IdleProc.settle = FALSE /\ IdleProc.tips = 0 /\ IdleProc.sum = 0 /\ IdleProc.pay = 0
    /\ IdleProc.todo = {} /\ IdleProc.doing = {} /\ IdleProc.kids = {} /\ IdleProc.back = "idle"
    /\ IdleProc.then = "idle" /\ IdleProc.catch = "idle"
BY DEF IdleProc

LEMMA Set_Does ==
    ASSUME BillTypes, NEW p \in Tills, NEW rec, proc' = [proc EXCEPT ![p] = rec]
    PROVE  Others(p) /\ proc'[p] = rec
BY DEF BillTypes, TypeOK, Others

LEMMA Goto_Does ==
    ASSUME BillTypes, NEW p \in Tills, NEW w, Goto(p, w)
    PROVE  GoesTo(p, w)
<1> DEFINE rec == [proc[p] EXCEPT !.at = w]
<1>1. proc[p] \in ProcRecord /\ proc' = [proc EXCEPT ![p] = rec]
  BY DEF BillTypes, TypeOK, Goto
<1>2. rec.at = w /\ Keeps(proc[p], rec)
  BY <1>1 DEF ProcRecord, Keeps
<1> HIDE DEF rec
<1> QED BY <1>1, <1>2, Set_Does DEF GoesTo

LEMMA GoOrIdle_Does ==
    ASSUME BillTypes, NEW p \in Tills, NEW w, GoOrIdle(p, w)
    PROVE  Ends(p, w)
<1>1. CASE w = "idle"
  <2>1. proc' = [proc EXCEPT ![p] = IdleProc]
    BY <1>1 DEF GoOrIdle
  <2> QED BY <1>1, <2>1, Set_Does DEF Ends, Rests
<1>2. CASE w # "idle"
  <2>1. Goto(p, w)
    BY <1>2 DEF GoOrIdle, Goto
  <2> QED BY <1>2, <2>1, Goto_Does DEF Ends
<1> QED BY <1>1, <1>2

LEMMA Begin_Does ==
    ASSUME BillTypes, NEW p \in Tills, NEW w, NEW b, Idle(p), Begin(p, w, b)
    PROVE  Asks(p, w, b)
<1> DEFINE rec == [IdleProc EXCEPT !.at = w, !.b = b]
<1>1. /\ rec.at = w /\ rec.b = b /\ rec.back = "idle" /\ rec.then = "idle" /\ rec.catch = "idle"
      /\ rec.ref = NoRef /\ rec.kids = {} /\ rec.doing = {}
  BY DEF IdleProc
<1>2. proc' = [proc EXCEPT ![p] = rec] /\ proc[p].at = "idle"
  BY DEF Begin, Idle, At
<1> HIDE DEF rec
<1> QED BY <1>1, <1>2, Set_Does DEF Asks

-----------------------------------------------------------------------------

LEMMA CreateOrder_Does ==
    ASSUME BillTypes, NEW p \in Tills, NEW b \in Bills, CreateOrder(p, b)
    PROVE  /\ proc[p].at = "idle" /\ bill[b].status = "NONE"
           /\ OnlyBill(b) /\ bill'[b].status = "OPEN" /\ bill'[b].goods = bill[b].goods
           /\ bill'[b].gifts = bill[b].gifts /\ bill'[b].total = bill[b].total /\ bill'[b].tip = bill[b].tip
           /\ UNCHANGED <<pays, written, sale, cards, wallet, proc>>
<1>1. bill \in [Bills -> BillRecord] /\ bill[b] \in BillRecord
  BY DEF BillTypes, TypeOK
<1> QED BY <1>1 DEF CreateOrder, OnlyBill, BillRecord, Idle, At

LEMMA SetLinesRead_Does ==
    ASSUME BillTypes, NEW p \in Tills, NEW b \in Bills, NEW goods, SetLinesRead(p, b, goods)
    PROVE  /\ Asks(p, "setLines", b) /\ bill[b].status = "OPEN" /\ proc'[p].want = goods
           /\ proc'[p].todo = {} /\ UNCHANGED billVars
<1> DEFINE rec == [IdleProc EXCEPT !.at = "setLines", !.b = b, !.want = goods]
<1>1. /\ rec.at = "setLines" /\ rec.b = b /\ rec.back = "idle" /\ rec.then = "idle" /\ rec.catch = "idle"
      /\ rec.ref = NoRef /\ rec.kids = {} /\ rec.doing = {} /\ rec.want = goods /\ rec.todo = {}
  BY DEF IdleProc
<1>2. /\ proc' = [proc EXCEPT ![p] = rec] /\ proc[p].at = "idle" /\ bill[b].status = "OPEN"
      /\ UNCHANGED billVars
  BY DEF SetLinesRead, Idle, At
<1> HIDE DEF rec
<1> QED BY <1>1, <1>2, Set_Does DEF Asks

LEMMA SplitRead_Does ==
    ASSUME BillTypes, NEW p \in Tills, NEW b \in Bills, SplitRead(p, b)
    PROVE  /\ Asks(p, "splitNext", NoBill) /\ bill[b].status = "OPEN" /\ proc'[p].other = b
           /\ proc'[p].want = bill[b].goods + bill[b].gifts
           /\ Of(b) = {} /\ SalesOn(b) = {} /\ UNCHANGED billVars
<1> DEFINE n == bill[b].goods + bill[b].gifts
           rec == [IdleProc EXCEPT !.at = "splitNext", !.other = b, !.want = n]
<1>1. /\ rec.at = "splitNext" /\ rec.b = NoBill /\ rec.back = "idle" /\ rec.then = "idle"
      /\ rec.catch = "idle" /\ rec.other = b
      /\ rec.ref = NoRef /\ rec.kids = {} /\ rec.doing = {} /\ rec.want = n
  BY DEF IdleProc
<1>2. /\ proc' = [proc EXCEPT ![p] = rec] /\ proc[p].at = "idle" /\ bill[b].status = "OPEN"
      /\ Of(b) = {} /\ SalesOn(b) = {} /\ UNCHANGED billVars
  BY DEF SplitRead, Idle, At
<1> HIDE DEF rec
<1> QED BY <1>1, <1>2, Set_Does DEF Asks

LEMMA MergeRead_Does ==
    ASSUME BillTypes, NEW p \in Tills, NEW b \in Bills, NEW source \in Bills, MergeRead(p, b, source)
    PROVE  /\ Asks(p, "merge", b) /\ proc'[p].other = source /\ b # source
           /\ bill[b].status = "OPEN" /\ bill[source].status = "OPEN" /\ UNCHANGED billVars
<1> DEFINE rec == [IdleProc EXCEPT !.at = "merge", !.b = b, !.other = source]
<1>1. /\ rec.at = "merge" /\ rec.b = b /\ rec.back = "idle" /\ rec.then = "idle" /\ rec.catch = "idle"
      /\ rec.ref = NoRef /\ rec.kids = {} /\ rec.doing = {} /\ rec.other = source
  BY DEF IdleProc
<1>2. /\ proc' = [proc EXCEPT ![p] = rec] /\ proc[p].at = "idle" /\ b # source
      /\ bill[b].status = "OPEN" /\ bill[source].status = "OPEN" /\ UNCHANGED billVars
  BY DEF MergeRead, Idle, At
<1> HIDE DEF rec
<1> QED BY <1>1, <1>2, Set_Does DEF Asks

LEMMA RemoveGiftCardSaleRead_Does ==
    ASSUME BillTypes, NEW p \in Tills, NEW s \in Sales, RemoveGiftCardSaleRead(p, s)
    PROVE  /\ Asks(p, "removeSale", sale[s].on) /\ sale[s].on \in Bills /\ ~sale[s].issued
           /\ proc'[p].todo = {s} /\ UNCHANGED billVars
<1> DEFINE b == sale[s].on
           rec == [IdleProc EXCEPT !.at = "removeSale", !.b = b, !.todo = {s}]
<1>0. b \in Bills \cup {NoBill}
  BY DEF BillTypes, TypeOK, SaleRecord
<1>1. /\ rec.at = "removeSale" /\ rec.b = b /\ rec.back = "idle" /\ rec.then = "idle" /\ rec.catch = "idle"
      /\ rec.ref = NoRef /\ rec.kids = {} /\ rec.doing = {} /\ rec.todo = {s}
  BY DEF IdleProc
<1>2. /\ proc' = [proc EXCEPT ![p] = rec] /\ proc[p].at = "idle" /\ b # NoBill /\ ~sale[s].issued
      /\ UNCHANGED billVars
  BY DEF RemoveGiftCardSaleRead, Idle, At
<1> HIDE DEF rec
<1> QED BY <1>0, <1>1, <1>2, Set_Does DEF Asks

\* What is kept by a handler that takes a payment or a refund.
LEMMA Decide_Fields ==
    ASSUME BillTypes, NEW q \in ProcRecord, q.b \in Bills
    PROVE  \/ Decide(q) = Refused(q)
           \/ /\ SameRequest(q, Decide(q)) /\ Decide(q).back = q.back /\ Decide(q).kids = q.kids
              /\ Decide(q).doing = q.doing /\ Decide(q).todo = q.todo /\ Decide(q).other = q.other
              /\ Decide(q).at = IF q.method \in Wallets THEN "debit" ELSE "record"
              /\ Decide(q).amt \in Int /\ Decide(q).amt >= 0
              /\ Decide(q).amt <= bill[q.b].total - Paid(Of(q.b))
              /\ Decide(q).settle => Decide(q).amt >= bill[q.b].total - Paid(Of(q.b))
<1> DEFINE balance == bill[q.b].total - Paid(Of(q.b))
           amount == IF q.want = 0 THEN balance ELSE q.want
           w == IF q.method \in Wallets THEN "debit" ELSE "record"
           full == amount >= balance
           rec == [q EXCEPT !.amt = amount, !.settle = full, !.tips = bill[q.b].tip, !.at = w]
<1>1. bill[q.b].total \in Int
  BY DEF BillTypes, TypeOK, BillRecord
<1>2. balance \in Int /\ amount \in Int
  BY <1>1, Bill_Sums, ProcFields_Typed
<1>3. CASE amount < 0 \/ amount > balance
  BY <1>3 DEF Decide
<1>4. CASE ~(amount < 0 \/ amount > balance)
  <2>1. Decide(q) = rec
    BY <1>4 DEF Decide
  <2>2. amount >= 0 /\ amount <= balance /\ (full => amount >= balance)
    BY <1>2, <1>4
  <2>3. /\ rec.amt = amount /\ rec.settle = full /\ rec.at = w /\ SameRequest(q, rec) /\ rec.back = q.back
        /\ rec.kids = q.kids /\ rec.doing = q.doing /\ rec.todo = q.todo /\ rec.other = q.other
    BY DEF ProcRecord, SameRequest
  <2> HIDE DEF rec, amount, balance, full, w
  <2> QED BY <1>2, <2>1, <2>2, <2>3 DEF w, balance
<1> QED BY <1>3, <1>4

LEMMA TakeRefund_Fields ==
    ASSUME BillTypes, NEW q \in ProcRecord, q.b \in Bills
    PROVE  \/ TakeRefund(q) = Refused(q)
           \/ /\ bill[q.b].status \in {"OPEN", "PAID"}
              /\ SameRequest(q, TakeRefund(q)) /\ TakeRefund(q).back = q.back
              /\ TakeRefund(q).kids = q.kids /\ TakeRefund(q).doing = q.doing
              /\ TakeRefund(q).todo = q.todo /\ TakeRefund(q).at = "refund"
              /\ TakeRefund(q).amt \in Int /\ TakeRefund(q).amt <= Taken(q.b)
              /\ TakeRefund(q).tips \in Int /\ TakeRefund(q).tips <= TakeRefund(q).amt
<1> DEFINE r == bill[q.b]
           over == Taken(q.b) - (r.total + r.tip)
           refundable == IF r.status = "PAID" THEN Taken(q.b) ELSE over
           amount == IF q.want = 0 THEN refundable ELSE q.want
           full == amount >= Taken(q.b)
           t == IF full THEN Min({CardTips(q.b), amount}) ELSE 0
           rec == [q EXCEPT !.at = "refund", !.amt = amount, !.settle = full, !.tips = t]
           allowed == r.status = "PAID" \/ (r.status = "OPEN" /\ over > 0)
<1>1. r.total \in Nat /\ r.tip \in Nat /\ Taken(q.b) \in Int
  BY Bill_Sums DEF BillTypes, TypeOK, BillRecord
<1>2. amount \in Int /\ refundable \in Int /\ refundable <= Taken(q.b)
  BY <1>1, ProcFields_Typed
<1>3. CASE ~allowed \/ amount > refundable
  BY <1>3 DEF TakeRefund
<1>4. CASE ~(~allowed \/ amount > refundable)
  <2>1. TakeRefund(q) = rec /\ r.status \in {"OPEN", "PAID"}
    BY <1>4 DEF TakeRefund
  <2>2. amount <= Taken(q.b)
    <3> HIDE DEF amount, refundable
    <3> QED BY <1>1, <1>2, <1>4
  <2>4. t \in Int /\ t <= amount
    <3>1. q.want \in Nat
      BY ProcFields_Typed
    <3>2. CardTips(q.b) \in Int
      BY Bill_Sums
    <3>3. CASE full
      <4> DEFINE m == Min({CardTips(q.b), amount})
      <4> HIDE DEF amount, full
      <4>1. m \in Int /\ m <= amount
        BY <1>2, <3>2, Smaller
      <4> QED BY <3>3, <4>1
    <3>4. CASE ~full
      <4>1. t = 0 /\ amount < Taken(q.b)
        <5> HIDE DEF amount
        <5> QED BY <1>1, <1>2, <3>4
      <4>2. amount >= 0
        <5>1. CASE q.want = 0
          <6>1. r.status # "PAID"
            BY <1>1, <4>1, <5>1
          <6> QED BY <1>1, <1>4, <5>1, <6>1
        <5>2. CASE q.want # 0
          BY <3>1, <5>2
        <5> QED BY <5>1, <5>2
      <4> HIDE DEF amount, t
      <4> QED BY <1>2, <4>1, <4>2
    <3> QED BY <3>3, <3>4
  <2> HIDE DEF amount, t, full
  <2>3. /\ rec.amt = amount /\ rec.at = "refund" /\ SameRequest(q, rec) /\ rec.back = q.back
        /\ rec.kids = q.kids /\ rec.doing = q.doing /\ rec.todo = q.todo /\ rec.tips = t
    BY DEF ProcRecord, SameRequest
  <2> HIDE DEF rec
  <2> QED BY <1>2, <2>1, <2>2, <2>3, <2>4
<1> QED BY <1>3, <1>4

DecidedOn(p, b) ==
    /\ proc'[p].at = IF proc'[p].method \in Wallets THEN "debit" ELSE "record"
    /\ proc'[p].amt \in Int /\ proc'[p].amt >= 0
    /\ proc'[p].amt <= bill[b].total - Paid(Of(b))
    /\ proc'[p].settle => proc'[p].amt >= bill[b].total - Paid(Of(b))

\* A payment waits for the bill to be recomputed, or is decided on.
Paying(p, b) ==
    /\ bill[b].status = "OPEN"
    /\ proc'[p].b = b
    /\ \/ proc'[p].at = "recRead" /\ proc'[p].back = "payReread"
       \/ proc'[p].back = "idle" /\ DecidedOn(p, b)

\* payOrder, from wherever it is called with q.
LEMMA Taking_Does ==
    ASSUME BillTypes, NEW p \in Tills, NEW q \in ProcRecord, q.b \in Bills, q.back = "idle",
           q.catch \in {"idle", "notBooked"},
           proc' = [proc EXCEPT ![p] = TakePayment(q)]
    PROVE  /\ Others(p)
           /\ \/ q.catch = "idle" /\ proc'[p] = IdleProc
              \/ /\ SameRequest(q, proc'[p])
                 /\ \/ q.catch # "idle" /\ proc'[p].at = q.catch /\ proc'[p].back = "idle"
                    \/ Paying(p, q.b) /\ proc'[p].kids = q.kids /\ proc'[p].doing = q.doing
<1>1. Others(p) /\ proc'[p] = TakePayment(q)
  BY Set_Does
<1>2. \/ q.catch = "idle" /\ Refused(q) = IdleProc
      \/ q.catch # "idle" /\ SameRequest(q, Refused(q)) /\ Refused(q).at = q.catch /\ Refused(q).back = "idle"
  BY DEF Refused, ProcRecord, SameRequest
<1>3. CASE TakePayment(q) = Refused(q)
  BY <1>1, <1>2, <1>3
<1>4. CASE bill[q.b].status = "OPEN" /\ TakePayment(q) = [q EXCEPT !.at = "recRead", !.back = "payReread"]
  <2> DEFINE rec == [q EXCEPT !.at = "recRead", !.back = "payReread"]
  <2>1. SameRequest(q, rec) /\ rec.at = "recRead" /\ rec.back = "payReread" /\ rec.kids = q.kids /\ rec.doing = q.doing
    BY DEF SameRequest, ProcRecord
  <2> HIDE DEF rec
  <2>2. proc'[p] = rec
    BY <1>1, <1>4 DEF rec
  <2> QED BY <1>1, <1>4, <2>1, <2>2 DEF Paying, SameRequest
<1>5. CASE bill[q.b].status = "OPEN" /\ TakePayment(q) = Decide(q)
  <2>1. CASE Decide(q) = Refused(q)
    BY <1>3, <1>5, <2>1
  <2>2. CASE Decide(q) # Refused(q)
    BY <1>1, <1>5, <2>2, Decide_Fields DEF Paying, SameRequest, DecidedOn
  <2> QED BY <2>1, <2>2
<1> QED BY <1>3, <1>4, <1>5 DEF TakePayment

LEMMA PayOrder_Does ==
    ASSUME BillTypes, NEW p \in Tills, NEW b \in Bills, NEW method \in TillTenders,
           NEW want \in 0..MaxGoods, NEW tip \in 0..MaxTip, PayOrder(p, b, method, want, tip)
    PROVE  /\ proc[p].at = "idle" /\ UNCHANGED billVars
           /\ \/ Rests(p)
              \/ /\ Others(p) /\ Paying(p, b) /\ proc'[p].ref = NoRef
                 /\ proc'[p].then = "idle" /\ proc'[p].catch = "idle"
                 /\ proc'[p].kids = {} /\ proc'[p].doing = {}
<1> DEFINE q == [IdleProc EXCEPT !.b = b, !.method = method, !.want = want, !.tip = tip]
<1>0. method \in Methods /\ want \in Nat /\ tip \in Nat
  BY PosBillAssumption DEF Methods, Wallets
<1>1. /\ q \in ProcRecord /\ q.b = b /\ q.back = "idle" /\ q.then = "idle" /\ q.catch = "idle"
      /\ q.ref = NoRef /\ q.kids = {} /\ q.doing = {}
  BY <1>0, Idle_Typed DEF ProcRecord, IdleProc
<1>2. /\ proc' = [proc EXCEPT ![p] = TakePayment(q)] /\ proc[p].at = "idle" /\ UNCHANGED billVars
  BY DEF PayOrder, Idle, At
<1> HIDE DEF q
<1> QED BY <1>1, <1>2, Taking_Does DEF SameRequest, Rests

\* applyRefund, from wherever it is called with q.
LEMMA Refunding_Does ==
    ASSUME BillTypes, NEW p \in Tills, NEW q \in ProcRecord, q.b \in Bills, q.back = "idle",
           q.kids = {}, q.doing = {}, q.catch \in {"idle", "notBooked"},
           proc' = [proc EXCEPT ![p] = TakeRefund(q)]
    PROVE  /\ Others(p)
           /\ \/ q.catch = "idle" /\ proc'[p] = IdleProc
              \/ /\ SameRequest(q, proc'[p]) /\ proc'[p].back = "idle"
                 /\ \/ q.catch # "idle" /\ proc'[p].at = q.catch
                    \/ /\ bill[q.b].status \in {"OPEN", "PAID"} /\ proc'[p].at = "refund"
                       /\ proc'[p].kids = {} /\ proc'[p].doing = {}
                       /\ proc'[p].amt \in Int /\ proc'[p].amt <= Taken(q.b)
                       /\ proc'[p].tips \in Int /\ proc'[p].tips <= proc'[p].amt
<1>1. Others(p) /\ proc'[p] = TakeRefund(q)
  BY Set_Does
<1>2. \/ q.catch = "idle" /\ Refused(q) = IdleProc
      \/ q.catch # "idle" /\ SameRequest(q, Refused(q)) /\ Refused(q).at = q.catch /\ Refused(q).back = "idle"
  BY DEF Refused, ProcRecord, SameRequest
<1>3. CASE TakeRefund(q) = Refused(q)
  BY <1>1, <1>2, <1>3
<1>4. CASE TakeRefund(q) # Refused(q)
  BY <1>1, <1>4, TakeRefund_Fields
<1> QED BY <1>3, <1>4

LEMMA RefundOrder_Does ==
    ASSUME BillTypes, NEW p \in Tills, NEW b \in Bills, NEW method \in {"CASH", "REFUND"},
           NEW want \in 0..MaxGoods, RefundOrder(p, b, method, want)
    PROVE  /\ proc[p].at = "idle" /\ UNCHANGED billVars
           /\ \/ Rests(p)
              \/ /\ Asks(p, "refund", b) /\ bill[b].status \in {"OPEN", "PAID"}
                 /\ proc'[p].amt \in Int /\ proc'[p].amt <= Taken(b)
                 /\ proc'[p].tips \in Int /\ proc'[p].tips <= proc'[p].amt
<1> DEFINE q == [IdleProc EXCEPT !.b = b, !.method = method, !.want = want]
<1>0. method \in Methods /\ want \in Nat
  BY DEF Methods
<1>1. /\ q \in ProcRecord /\ q.b = b /\ q.back = "idle" /\ q.then = "idle" /\ q.catch = "idle"
      /\ q.ref = NoRef /\ q.kids = {} /\ q.doing = {}
  BY <1>0, Idle_Typed DEF ProcRecord, IdleProc
<1>2. /\ proc' = [proc EXCEPT ![p] = TakeRefund(q)] /\ proc[p].at = "idle" /\ UNCHANGED billVars
  BY DEF RefundOrder, Idle, At
<1> HIDE DEF q
<1> QED BY <1>1, <1>2, Refunding_Does DEF SameRequest, Rests, Asks

LEMMA UndoRead_Does ==
    ASSUME BillTypes, NEW p \in Tills, NEW r \in pays, UndoRead(p, r)
    PROVE  /\ Asks(p, "undoDelete", r.bill) /\ proc'[p].pay = r.id /\ r.method \notin NotUndone
           /\ r.bill \in Bills /\ UNCHANGED billVars
<1> DEFINE n == AtLeastZero(bill[r.bill].tip - r.tip)
           rec == [IdleProc EXCEPT !.at = "undoDelete", !.b = r.bill, !.pay = r.id, !.tips = n]
<1>1. /\ rec.at = "undoDelete" /\ rec.b = r.bill /\ rec.back = "idle" /\ rec.then = "idle"
      /\ rec.catch = "idle" /\ rec.ref = NoRef /\ rec.kids = {} /\ rec.doing = {} /\ rec.pay = r.id
  BY DEF IdleProc
<1>2. /\ proc' = [proc EXCEPT ![p] = rec] /\ proc[p].at = "idle" /\ r.method \notin NotUndone
      /\ UNCHANGED billVars
  BY DEF UndoRead, Idle, At
<1>3. r.bill \in Bills
  BY DEF BillTypes, TypeOK, PaymentRecord
<1> HIDE DEF rec
<1> QED BY <1>1, <1>2, <1>3, Set_Does DEF Asks

-----------------------------------------------------------------------------
(* The lines, field by field *)

\* What the steps of a bill keep of it.
SameLines(b) == bill'[b].goods = bill[b].goods /\ bill'[b].gifts = bill[b].gifts
SameHead(b) == bill'[b].status = bill[b].status /\ bill'[b].total = bill[b].total /\ bill'[b].tip = bill[b].tip

LEMMA Here ==
    ASSUME BillTypes, NEW p \in Tills
    PROVE  /\ bill \in [Bills -> BillRecord] /\ proc \in [Tills -> ProcRecord] /\ sale \in [Sales -> SaleRecord]
           /\ proc[p] \in ProcRecord /\ Fit(proc[p])
           /\ proc[p].at \notin {"idle", "away", "splitNext"} => B(p) \in Bills /\ bill[B(p)] \in BillRecord
           /\ B(p) = proc[p].b
BY DEF BillTypes, TypeOK, B, Fit

LEMMA SetLines_Does ==
    ASSUME BillTypes, NEW p \in Tills, SetLines(p)
    PROVE  /\ proc[p].at = "setLines" /\ GoesTo(p, "syncRead") /\ B(p) \in Bills /\ OnlyBill(B(p))
           /\ SameHead(B(p)) /\ bill'[B(p)].goods = proc[p].want /\ bill'[B(p)].gifts = 0
           /\ UNCHANGED <<pays, written, sale, cards, wallet>>
<1>1. proc[p].at = "setLines"
  BY DEF SetLines, At
<1> QED BY <1>1, Here, Goto_Does DEF SetLines, OnlyBill, SameHead, BillRecord

LEMMA AddGiftCardSale_Does ==
    ASSUME BillTypes, NEW p \in Tills, NEW s \in Sales, AddGiftCardSale(p, s)
    PROVE  /\ proc[p].at = "addSale" /\ GoesTo(p, "syncRead") /\ B(p) \in Bills
           /\ Unsold(s)
           /\ \A x \in Sales : x # s => sale'[x] = sale[x]
           /\ sale'[s].on = B(p) /\ sale'[s].issued = sale[s].issued /\ sale'[s].revoked = sale[s].revoked
           /\ UNCHANGED <<bill, pays, written, cards, wallet>>
<1>1. proc[p].at = "addSale"
  BY DEF AddGiftCardSale, At
<1> QED BY <1>1, Here, Goto_Does DEF AddGiftCardSale, SaleRecord

LEMMA RemoveGiftCardSale_Does ==
    ASSUME BillTypes, NEW p \in Tills, RemoveGiftCardSale(p)
    PROVE  /\ proc[p].at = "removeSale" /\ B(p) \in Bills
           /\ UNCHANGED <<bill, pays, written, cards, wallet>>
           /\ \/ Ends(p, proc[p].catch) /\ UNCHANGED sale
              \/ /\ \E s \in proc[p].todo : /\ s \in Sales /\ sale[s].on # NoBill /\ sale'[s] = NoSaleYet
                                            /\ \A x \in Sales : x # s => sale'[x] = sale[x]
                 /\ Others(p) /\ KeepsBut(proc[p], proc'[p]) /\ proc'[p].at = "syncRead"
                 /\ proc'[p].todo = {} /\ proc'[p].doing = proc[p].doing
<1> DEFINE rec == [proc[p] EXCEPT !.at = "syncRead", !.todo = {}]
<1>1. /\ proc[p].at = "removeSale" /\ UNCHANGED <<bill, pays, written, cards, wallet>>
      /\ \E s \in proc[p].todo :
          \/ Throw(p) /\ UNCHANGED sale
          \/ /\ sale[s].on # NoBill
             /\ sale' = [sale EXCEPT ![s] = NoSaleYet] /\ proc' = [proc EXCEPT ![p] = rec]
  BY Here DEF RemoveGiftCardSale, At
<1>2. rec.at = "syncRead" /\ KeepsBut(proc[p], rec) /\ rec.todo = {} /\ rec.doing = proc[p].doing
  BY Here DEF ProcRecord, KeepsBut
<1> HIDE DEF rec
<1>3. proc[p].todo \subseteq Sales
  BY Here, ProcFields_Typed
<1>4. CASE Throw(p) /\ UNCHANGED sale
  BY <1>1, <1>4, Here, GoOrIdle_Does DEF Throw
<1>5. CASE \E s \in proc[p].todo : /\ sale[s].on # NoBill
                                   /\ sale' = [sale EXCEPT ![s] = NoSaleYet] /\ proc' = [proc EXCEPT ![p] = rec]
  BY <1>1, <1>2, <1>3, <1>5, Here, Set_Does
<1> QED BY <1>1, <1>4, <1>5

LEMMA SyncRead_Does ==
    ASSUME BillTypes, NEW p \in Tills, SyncRead(p)
    PROVE  /\ proc[p].at = "syncRead" /\ B(p) \in Bills /\ UNCHANGED billVars
           /\ Others(p) /\ KeepsBut(proc[p], proc'[p]) /\ proc'[p].at = "syncClear"
           /\ proc'[p].todo = SalesOn(B(p)) /\ proc'[p].doing = proc[p].doing
<1> DEFINE rec == [proc[p] EXCEPT !.at = "syncClear", !.todo = SalesOn(B(p))]
<1>1. proc[p].at = "syncRead" /\ UNCHANGED billVars /\ proc' = [proc EXCEPT ![p] = rec]
  BY Here DEF SyncRead, At
<1>2. rec.at = "syncClear" /\ KeepsBut(proc[p], rec) /\ rec.todo = SalesOn(B(p)) /\ rec.doing = proc[p].doing
  BY Here DEF ProcRecord, KeepsBut
<1> HIDE DEF rec
<1> QED BY <1>1, <1>2, Here, Set_Does

LEMMA SyncClear_Does ==
    ASSUME BillTypes, NEW p \in Tills, SyncClear(p)
    PROVE  /\ proc[p].at = "syncClear" /\ B(p) \in Bills /\ OnlyBill(B(p)) /\ SameHead(B(p))
           /\ bill'[B(p)].goods = bill[B(p)].goods /\ bill'[B(p)].gifts = 0
           /\ IF proc[p].todo = {} THEN GoesTo(p, "recRead") ELSE GoesTo(p, "syncCreate")
           /\ UNCHANGED <<pays, written, sale, cards, wallet>>
<1>1. proc[p].at = "syncClear"
  BY DEF SyncClear, At
<1>2. IF proc[p].todo = {} THEN GoesTo(p, "recRead") ELSE GoesTo(p, "syncCreate")
  BY Goto_Does DEF SyncClear
<1> QED BY <1>1, <1>2, Here DEF SyncClear, OnlyBill, SameHead, BillRecord

LEMMA SyncCreate_Does ==
    ASSUME BillTypes, NEW p \in Tills, SyncCreate(p)
    PROVE  /\ proc[p].at = "syncCreate" /\ B(p) \in Bills /\ OnlyBill(B(p)) /\ SameHead(B(p))
           /\ bill'[B(p)].goods = bill[B(p)].goods
           /\ bill'[B(p)].gifts = bill[B(p)].gifts + Cardinality(proc[p].todo)
           /\ Others(p) /\ KeepsBut(proc[p], proc'[p]) /\ proc'[p].at = "recRead"
           /\ proc'[p].todo = {} /\ proc'[p].doing = proc[p].doing
           /\ UNCHANGED <<pays, written, sale, cards, wallet>>
<1> DEFINE rec == [proc[p] EXCEPT !.at = "recRead", !.todo = {}]
<1>1. proc[p].at = "syncCreate" /\ proc' = [proc EXCEPT ![p] = rec]
  BY Here DEF SyncCreate, At
<1>2. rec.at = "recRead" /\ KeepsBut(proc[p], rec) /\ rec.todo = {} /\ rec.doing = proc[p].doing
  BY Here DEF ProcRecord, KeepsBut
<1> HIDE DEF rec
<1>3. /\ OnlyBill(B(p)) /\ SameHead(B(p)) /\ bill'[B(p)].goods = bill[B(p)].goods
      /\ bill'[B(p)].gifts = bill[B(p)].gifts + Cardinality(proc[p].todo)
      /\ UNCHANGED <<pays, written, sale, cards, wallet>>
  BY <1>1, Here DEF SyncCreate, OnlyBill, SameHead, BillRecord
<1> QED BY <1>1, <1>2, <1>3, Here, Set_Does

LEMMA RecomputeRead_Does ==
    ASSUME BillTypes, NEW p \in Tills, RecomputeRead(p)
    PROVE  /\ proc[p].at = "recRead" /\ B(p) \in Bills /\ UNCHANGED billVars
           /\ Others(p) /\ KeepsBut(proc[p], proc'[p]) /\ proc'[p].at = "recWrite"
           /\ proc'[p].sum = bill[B(p)].goods + bill[B(p)].gifts
           /\ proc'[p].todo = proc[p].todo /\ proc'[p].doing = proc[p].doing
<1> DEFINE n == bill[B(p)].goods + bill[B(p)].gifts
           rec == [proc[p] EXCEPT !.at = "recWrite", !.sum = n]
<1>1. proc[p].at = "recRead" /\ UNCHANGED billVars /\ proc' = [proc EXCEPT ![p] = rec]
  BY Here DEF RecomputeRead, At
<1> HIDE DEF n
<1>2. rec.at = "recWrite" /\ KeepsBut(proc[p], rec) /\ rec.sum = n /\ rec.todo = proc[p].todo
      /\ rec.doing = proc[p].doing
  BY Here DEF ProcRecord, KeepsBut
<1> HIDE DEF rec
<1> QED BY <1>1, <1>2, Here, Set_Does DEF n

LEMMA RecomputeWrite_Does ==
    ASSUME BillTypes, NEW p \in Tills, RecomputeWrite(p)
    PROVE  /\ proc[p].at = "recWrite" /\ B(p) \in Bills /\ OnlyBill(B(p)) /\ SameLines(B(p))
           /\ bill'[B(p)].status = bill[B(p)].status /\ bill'[B(p)].tip = bill[B(p)].tip
           /\ bill'[B(p)].total = proc[p].sum
           /\ Ends(p, proc[p].back)
           /\ UNCHANGED <<pays, written, sale, cards, wallet>>
<1>1. proc[p].at = "recWrite"
  BY DEF RecomputeWrite, At
<1> QED BY <1>1, Here, GoOrIdle_Does DEF RecomputeWrite, OnlyBill, SameLines, BillRecord

LEMMA MergeOrders_Does ==
    ASSUME BillTypes, NEW p \in Tills, MergeOrders(p)
    PROVE  /\ proc[p].at = "merge" /\ B(p) \in Bills /\ proc[p].other \in Bills /\ B(p) # proc[p].other
           /\ GoesTo(p, "recRead") /\ MovedRows(B(p), proc[p].other)
           /\ \A c \in Bills \ {B(p), proc[p].other} : bill'[c] = bill[c]
           /\ SameHead(B(p)) /\ bill'[B(p)].goods = bill[B(p)].goods + bill[proc[p].other].goods
           /\ bill'[B(p)].gifts = bill[B(p)].gifts + bill[proc[p].other].gifts
           /\ bill'[proc[p].other].status = "VOID" /\ bill'[proc[p].other].goods = 0
           /\ bill'[proc[p].other].gifts = 0 /\ bill'[proc[p].other].total = bill[proc[p].other].total
           /\ bill'[proc[p].other].tip = bill[proc[p].other].tip
           /\ UNCHANGED <<written, sale, cards, wallet>>
<1>1. /\ proc[p].at = "merge" /\ B(p) \in Bills /\ proc[p].other \in Bills /\ B(p) # proc[p].other
  BY Here DEF MergeOrders, At, Fit
<1>2. GoesTo(p, "recRead") /\ MovedRows(B(p), proc[p].other) /\ UNCHANGED <<written, sale, cards, wallet>>
  BY Goto_Does DEF MergeOrders, MovedRows
<1> DEFINE t == B(p)
           s == proc[p].other
           rt == [bill[t] EXCEPT !.goods = bill[t].goods + bill[s].goods, !.gifts = bill[t].gifts + bill[s].gifts]
           rs == [bill[s] EXCEPT !.goods = 0, !.gifts = 0, !.status = "VOID"]
<1>3. bill' = [bill EXCEPT ![t] = rt, ![s] = rs]
  BY <1>1, Here DEF MergeOrders
<1>4. /\ rt.status = bill[t].status /\ rt.total = bill[t].total /\ rt.tip = bill[t].tip
      /\ rt.goods = bill[t].goods + bill[s].goods /\ rt.gifts = bill[t].gifts + bill[s].gifts
      /\ rs.status = "VOID" /\ rs.goods = 0 /\ rs.gifts = 0 /\ rs.total = bill[s].total /\ rs.tip = bill[s].tip
  BY <1>1, Here DEF BillRecord
<1> HIDE DEF rt, rs
<1>5. bill'[t] = rt /\ bill'[s] = rs /\ \A c \in Bills \ {t, s} : bill'[c] = bill[c]
  BY <1>1, <1>3, Here
<1> QED BY <1>1, <1>2, <1>4, <1>5 DEF SameHead

LEMMA SplitChild_Does ==
    ASSUME BillTypes, NEW p \in Tills, NEW c \in Bills, SplitChild(p, c)
    PROVE  /\ proc[p].at = "splitNext" /\ bill[c].status = "NONE" /\ Cardinality(proc[p].kids) < Ways
           /\ OnlyBill(c) /\ bill'[c].status = "OPEN" /\ bill'[c].total = bill[c].total
           /\ bill'[c].gifts = bill[c].gifts
           /\ bill'[c].goods = Share(proc[p].want, Cardinality(proc[p].kids))
           /\ Others(p) /\ proc'[p].at = "recRead" /\ proc'[p].b = c /\ proc'[p].back = "splitNext"
           /\ proc'[p].kids = proc[p].kids \cup {c} /\ proc'[p].other = proc[p].other
           /\ proc'[p].want = proc[p].want /\ proc'[p].ref = proc[p].ref /\ proc'[p].method = proc[p].method
           /\ proc'[p].then = proc[p].then /\ proc'[p].catch = proc[p].catch
           /\ proc'[p].doing = proc[p].doing
           /\ UNCHANGED <<pays, written, sale, cards, wallet>>
<1> DEFINE rec == [proc[p] EXCEPT !.at = "recRead", !.b = c, !.back = "splitNext",
                                  !.kids = proc[p].kids \cup {c}]
           x == Share(proc[p].want, Cardinality(proc[p].kids))
           rc == [bill[c] EXCEPT !.status = "OPEN", !.goods = x]
<1>1. /\ proc[p].at = "splitNext" /\ bill[c].status = "NONE" /\ Cardinality(proc[p].kids) < Ways
      /\ proc' = [proc EXCEPT ![p] = rec] /\ bill' = [bill EXCEPT ![c] = rc]
      /\ UNCHANGED <<pays, written, sale, cards, wallet>>
  BY Here DEF SplitChild, At
<1>2. /\ rec.at = "recRead" /\ rec.b = c /\ rec.back = "splitNext" /\ rec.kids = proc[p].kids \cup {c}
      /\ rec.other = proc[p].other /\ rec.want = proc[p].want /\ rec.ref = proc[p].ref
      /\ rec.method = proc[p].method /\ rec.then = proc[p].then /\ rec.catch = proc[p].catch
      /\ rec.doing = proc[p].doing
  BY Here DEF ProcRecord
<1> HIDE DEF rec, x
<1>3. rc.status = "OPEN" /\ rc.goods = x /\ rc.gifts = bill[c].gifts /\ rc.total = bill[c].total
  BY Here DEF BillRecord
<1> HIDE DEF rc
<1>4. bill'[c] = rc /\ OnlyBill(c)
  BY <1>1, Here DEF OnlyBill
<1> QED BY <1>1, <1>2, <1>3, <1>4, Set_Does DEF x

LEMMA SplitVoid_Does ==
    ASSUME BillTypes, NEW p \in Tills, SplitVoid(p)
    PROVE  /\ proc[p].at = "splitNext" /\ proc[p].other \in Bills /\ Cardinality(proc[p].kids) = Ways
           /\ OnlyBill(proc[p].other) /\ bill'[proc[p].other].status = "VOID"
           /\ bill'[proc[p].other].goods = 0 /\ bill'[proc[p].other].gifts = 0 /\ bill'[proc[p].other].total = 0
           /\ Ends(p, proc[p].then)
           /\ UNCHANGED <<pays, written, sale, cards, wallet>>
<1>1. proc[p].at = "splitNext" /\ proc[p].other \in Bills
  BY Here DEF SplitVoid, At, Fit
<1> DEFINE o == proc[p].other
           rec == [bill[o] EXCEPT !.status = "VOID", !.goods = 0, !.gifts = 0, !.total = 0]
<1>2. /\ Cardinality(proc[p].kids) = Ways /\ bill' = [bill EXCEPT ![o] = rec]
      /\ Ends(p, proc[p].then) /\ UNCHANGED <<pays, written, sale, cards, wallet>>
  BY GoOrIdle_Does DEF SplitVoid, Return
<1>3. rec.status = "VOID" /\ rec.goods = 0 /\ rec.gifts = 0 /\ rec.total = 0
  BY <1>1, Here DEF BillRecord
<1> HIDE DEF rec
<1> QED BY <1>1, <1>2, <1>3, Here DEF OnlyBill

-----------------------------------------------------------------------------
(* Payments, field by field *)

LEMMA PayReread_Does ==
    ASSUME BillTypes, NEW p \in Tills, PayReread(p)
    PROVE  /\ proc[p].at = "payReread" /\ B(p) \in Bills /\ UNCHANGED billVars /\ Others(p)
           /\ \/ proc[p].catch = "idle" /\ proc'[p] = IdleProc
              \/ /\ SameRequest(proc[p], proc'[p]) /\ proc'[p].back = "idle"
                 /\ proc'[p].kids = proc[p].kids /\ proc'[p].doing = proc[p].doing
                 /\ \/ proc[p].catch # "idle" /\ proc'[p].at = proc[p].catch
                    \/ DecidedOn(p, B(p))
<1> DEFINE q == [proc[p] EXCEPT !.back = "idle"]
<1>1. proc[p].at = "payReread" /\ UNCHANGED billVars /\ proc' = [proc EXCEPT ![p] = Decide(q)]
  BY Here DEF PayReread, At
<1>2. /\ q \in ProcRecord /\ SameRequest(proc[p], q) /\ q.back = "idle" /\ q.b = B(p)
      /\ q.kids = proc[p].kids /\ q.doing = proc[p].doing
  BY Here DEF ProcRecord, SameRequest
<1> HIDE DEF q
<1>3. \/ q.catch = "idle" /\ Refused(q) = IdleProc
      \/ /\ q.catch # "idle" /\ SameRequest(q, Refused(q)) /\ Refused(q).at = q.catch /\ Refused(q).back = "idle"
         /\ Refused(q).kids = q.kids /\ Refused(q).doing = q.doing
  BY <1>2 DEF Refused, ProcRecord, SameRequest
<1>4. Others(p) /\ proc'[p] = Decide(q) /\ B(p) \in Bills
  BY <1>1, Set_Does, Here
<1>5. CASE Decide(q) = Refused(q)
  BY <1>1, <1>2, <1>3, <1>4, <1>5 DEF SameRequest
<1>6. CASE Decide(q) # Refused(q)
  BY <1>1, <1>2, <1>4, <1>6, Decide_Fields DEF SameRequest, DecidedOn
<1> QED BY <1>5, <1>6

LEMMA Debit_Does ==
    ASSUME BillTypes, NEW p \in Tills, Debit(p)
    PROVE  /\ proc[p].at = "debit" /\ B(p) \in Bills
           /\ GoesTo(p, "record") \/ Ends(p, proc[p].catch)
           /\ UNCHANGED <<bill, pays, written, sale, cards>>
<1>1. proc[p].at = "debit"
  BY DEF Debit, At
<1> QED BY <1>1, Here, Goto_Does, GoOrIdle_Does DEF Debit, Throw

\* A row that is new.
NewRow(r) == r \in PaymentRecord /\ r.id = written + 1 /\ r \notin pays /\ pays' = pays \cup {r} /\ written' = written + 1

LEMMA Record_Does ==
    ASSUME BillTypes, NEW p \in Tills, Record(p)
    PROVE  /\ proc[p].at = "record" /\ B(p) \in Bills /\ GoesTo(p, "status")
           /\ \E r : /\ NewRow(r) /\ r.bill = B(p) /\ r.method = proc[p].method
                     /\ r.amt = proc[p].amt /\ r.tip = proc[p].tip /\ r.ref = proc[p].ref
           /\ UNCHANGED <<bill, sale, cards, wallet>>
<1>1. proc[p].at = "record" /\ GoesTo(p, "status") /\ UNCHANGED <<bill, sale, cards, wallet>>
      /\ AddPayment(B(p), proc[p].method, proc[p].amt, proc[p].tip, proc[p].ref)
  BY Goto_Does DEF Record, At
<1>2. /\ B(p) \in Bills /\ proc[p].amt \in Int /\ proc[p].tip \in Int /\ proc[p].method \in Methods
      /\ proc[p].ref \in Refs \cup {NoRef}
  BY <1>1, Here, ProcFields_Typed
<1>3. PICK r \in PaymentRecord : NewRow(r) /\ r.bill = B(p) /\ r.method = proc[p].method
                     /\ r.amt = proc[p].amt /\ r.tip = proc[p].tip /\ r.ref = proc[p].ref
  <2>1. written' = written + 1
    BY <1>1 DEF AddPayment
  <2> QED BY <1>1, <1>2, <2>1, Added_Row DEF NewRow
<1> QED BY <1>1, <1>2, <1>3

LEMMA SetStatus_Does ==
    ASSUME BillTypes, NEW p \in Tills, SetStatus(p)
    PROVE  /\ proc[p].at = "status" /\ B(p) \in Bills /\ OnlyBill(B(p)) /\ SameLines(B(p))
           /\ bill'[B(p)].total = bill[B(p)].total
           /\ bill'[B(p)].status = IF proc[p].settle THEN "PAID" ELSE bill[B(p)].status
           /\ IF proc[p].settle THEN GoesTo(p, "issueList") ELSE Ends(p, proc[p].then)
           /\ UNCHANGED <<pays, written, sale, cards, wallet>>
<1>1. proc[p].at = "status" /\ UNCHANGED <<pays, written, sale, cards, wallet>>
  BY DEF SetStatus, At
<1>2. IF proc[p].settle THEN GoesTo(p, "issueList") ELSE Ends(p, proc[p].then)
  BY Goto_Does, GoOrIdle_Does DEF SetStatus, Return
<1> DEFINE w == IF proc[p].settle THEN "PAID" ELSE bill[B(p)].status
           t == proc[p].tips + proc[p].tip
           rec == [bill[B(p)] EXCEPT !.tip = t, !.status = w]
<1>3. bill' = [bill EXCEPT ![B(p)] = rec]
  BY <1>1, Here DEF SetStatus
<1> HIDE DEF w, t
<1>4. rec.status = w /\ rec.goods = bill[B(p)].goods /\ rec.gifts = bill[B(p)].gifts /\ rec.total = bill[B(p)].total
  BY <1>1, Here DEF BillRecord
<1> HIDE DEF rec
<1>5. bill'[B(p)] = rec /\ OnlyBill(B(p)) /\ B(p) \in Bills
  BY <1>1, <1>3, Here DEF OnlyBill
<1> QED BY <1>1, <1>2, <1>4, <1>5 DEF SameLines, w

LEMMA IssueList_Does ==
    ASSUME BillTypes, NEW p \in Tills, IssueList(p)
    PROVE  /\ proc[p].at = "issueList" /\ B(p) \in Bills /\ UNCHANGED billVars
           /\ \/ Ends(p, proc[p].then)
              \/ /\ Others(p) /\ KeepsBut(proc[p], proc'[p]) /\ proc'[p].at = "issueNext"
                 /\ proc'[p].todo = {s \in SalesOn(B(p)) : ~sale[s].issued} /\ proc'[p].doing = proc[p].doing
<1> DEFINE pending == {s \in SalesOn(B(p)) : ~sale[s].issued}
           rec == [proc[p] EXCEPT !.at = "issueNext", !.todo = pending]
<1>1. proc[p].at = "issueList" /\ UNCHANGED billVars /\ (Return(p) \/ proc' = [proc EXCEPT ![p] = rec])
  BY Here DEF IssueList, At
<1> HIDE DEF pending
<1>2. rec.at = "issueNext" /\ KeepsBut(proc[p], rec) /\ rec.todo = pending /\ rec.doing = proc[p].doing
  BY Here DEF ProcRecord, KeepsBut
<1> HIDE DEF rec
<1> QED BY <1>1, <1>2, Here, Set_Does, GoOrIdle_Does DEF Return, pending

LEMMA NextSale_Does ==
    ASSUME BillTypes, NEW p \in Tills, NEW rest, NextSale(p, rest)
    PROVE  \/ Ends(p, proc[p].then)
           \/ /\ Others(p) /\ KeepsBut(proc[p], proc'[p]) /\ proc'[p].at = "issueNext"
              /\ proc'[p].todo = rest /\ proc'[p].doing = {}
<1> DEFINE rec == [proc[p] EXCEPT !.at = "issueNext", !.todo = rest, !.doing = {}]
<1>1. Return(p) \/ proc' = [proc EXCEPT ![p] = rec]
  BY Here DEF NextSale
<1>2. rec.at = "issueNext" /\ KeepsBut(proc[p], rec) /\ rec.todo = rest /\ rec.doing = {}
  BY Here DEF ProcRecord, KeepsBut
<1> HIDE DEF rec
<1> QED BY <1>1, <1>2, Set_Does, GoOrIdle_Does DEF Return

LEMMA IssueNext_Does ==
    ASSUME BillTypes, NEW p \in Tills, NEW s \in Sales, IssueNext(p, s)
    PROVE  /\ proc[p].at = "issueNext" /\ B(p) \in Bills /\ s \in proc[p].todo
           /\ UNCHANGED <<bill, pays, written, sale, wallet>>
           /\ \/ /\ cards' = [cards EXCEPT ![s] = IF cards[s] = 2 THEN 2 ELSE cards[s] + 1]
                 /\ Others(p) /\ KeepsBut(proc[p], proc'[p]) /\ proc'[p].at = "issueMark"
                 /\ proc'[p].todo = proc[p].todo \ {s} /\ proc'[p].doing = {s}
              \/ /\ UNCHANGED cards
                 /\ \/ Ends(p, proc[p].then)
                    \/ /\ Others(p) /\ KeepsBut(proc[p], proc'[p]) /\ proc'[p].at = "issueNext"
                       /\ proc'[p].todo = proc[p].todo \ {s} /\ proc'[p].doing = {}
<1> DEFINE rest == proc[p].todo \ {s}
           rec == [proc[p] EXCEPT !.at = "issueMark", !.todo = rest, !.doing = {s}]
<1>1. /\ proc[p].at = "issueNext" /\ s \in proc[p].todo /\ UNCHANGED <<bill, pays, written, sale, wallet>>
      /\ \/ /\ cards' = [cards EXCEPT ![s] = IF cards[s] = 2 THEN 2 ELSE cards[s] + 1]
            /\ proc' = [proc EXCEPT ![p] = rec]
         \/ NextSale(p, rest) /\ UNCHANGED cards
  BY Here DEF IssueNext, At
<1> HIDE DEF rest
<1>2. rec.at = "issueMark" /\ KeepsBut(proc[p], rec) /\ rec.todo = rest /\ rec.doing = {s}
  BY Here DEF ProcRecord, KeepsBut
<1> HIDE DEF rec
<1>3. B(p) \in Bills
  BY <1>1, Here
<1>4. CASE proc' = [proc EXCEPT ![p] = rec]
  BY <1>1, <1>2, <1>3, <1>4, Set_Does, NextSale_Does DEF rest
<1>5. CASE NextSale(p, rest) /\ UNCHANGED cards
  BY <1>1, <1>3, <1>5, NextSale_Does DEF rest
<1> QED BY <1>1, <1>4, <1>5

LEMMA IssueMark_Does ==
    ASSUME BillTypes, NEW p \in Tills, IssueMark(p)
    PROVE  /\ proc[p].at = "issueMark" /\ B(p) \in Bills
           /\ UNCHANGED <<bill, pays, written, cards, wallet>>
           /\ \A s \in Sales : /\ sale'[s].on = sale[s].on /\ sale'[s].revoked = sale[s].revoked
                               /\ s \in proc[p].doing /\ sale[s].on # NoBill => sale'[s].issued
                               /\ ~(s \in proc[p].doing /\ sale[s].on # NoBill) => sale'[s].issued = sale[s].issued
           /\ \/ Ends(p, proc[p].then)
              \/ /\ Others(p) /\ KeepsBut(proc[p], proc'[p]) /\ proc'[p].at = "issueNext"
                 /\ proc'[p].todo = proc[p].todo /\ proc'[p].doing = {}
<1>1. proc[p].at = "issueMark" /\ NextSale(p, proc[p].todo) /\ UNCHANGED <<bill, pays, written, cards, wallet>>
  BY DEF IssueMark, At
<1>2. ASSUME NEW s \in Sales
      PROVE  /\ sale'[s].on = sale[s].on /\ sale'[s].revoked = sale[s].revoked
             /\ s \in proc[p].doing /\ sale[s].on # NoBill => sale'[s].issued
             /\ ~(s \in proc[p].doing /\ sale[s].on # NoBill) => sale'[s].issued = sale[s].issued
  <2>1. sale[s] \in SaleRecord
    BY Here
  <2> QED BY <2>1 DEF IssueMark, SaleRecord
<1> QED BY <1>1, <1>2, Here, NextSale_Does

-----------------------------------------------------------------------------
(* What takes a payment back, field by field *)

LEMMA UndoDelete_Does ==
    ASSUME BillTypes, NEW p \in Tills, UndoDelete(p)
    PROVE  /\ proc[p].at = "undoDelete" /\ B(p) \in Bills
           /\ pays' = pays \ {r \in pays : r.id = proc[p].pay}
           /\ IF \E r \in pays : r.id = proc[p].pay THEN GoesTo(p, "undoStatus") ELSE Ends(p, proc[p].catch)
           /\ UNCHANGED <<bill, written, sale, cards, wallet>>
<1>1. proc[p].at = "undoDelete"
  BY DEF UndoDelete, At
<1> QED BY <1>1, Here, Goto_Does, GoOrIdle_Does DEF UndoDelete, Throw

LEMMA UndoStatus_Does ==
    ASSUME BillTypes, NEW p \in Tills, UndoStatus(p)
    PROVE  /\ proc[p].at = "undoStatus" /\ B(p) \in Bills /\ OnlyBill(B(p)) /\ SameLines(B(p))
           /\ bill'[B(p)].status = "OPEN" /\ bill'[B(p)].total = bill[B(p)].total
           /\ Ends(p, proc[p].then) /\ UNCHANGED <<pays, written, sale, cards, wallet>>
<1>1. proc[p].at = "undoStatus"
  BY DEF UndoStatus, At
<1> QED BY <1>1, Here, GoOrIdle_Does DEF UndoStatus, Return, OnlyBill, SameLines, BillRecord

LEMMA VoidOrder_Does ==
    ASSUME BillTypes, NEW p \in Tills, VoidOrder(p)
    PROVE  /\ proc[p].at = "void" /\ B(p) \in Bills /\ OnlyBill(B(p)) /\ SameLines(B(p))
           /\ bill'[B(p)].status = "VOID" /\ bill'[B(p)].total = bill[B(p)].total
           /\ Ends(p, proc[p].then) /\ UNCHANGED <<pays, written, sale, cards, wallet>>
<1>1. proc[p].at = "void"
  BY DEF VoidOrder, At
<1> QED BY <1>1, Here, GoOrIdle_Does DEF VoidOrder, Return, OnlyBill, SameLines, BillRecord

LEMMA ReopenOrder_Does ==
    ASSUME BillTypes, NEW p \in Tills, ReopenOrder(p)
    PROVE  /\ proc[p].at = "reopen" /\ B(p) \in Bills /\ OnlyBill(B(p)) /\ SameLines(B(p))
           /\ bill'[B(p)].status = "OPEN" /\ bill'[B(p)].total = bill[B(p)].total
           /\ Ends(p, proc[p].then) /\ UNCHANGED <<pays, written, sale, cards, wallet>>
<1>1. proc[p].at = "reopen"
  BY DEF ReopenOrder, At
<1> QED BY <1>1, Here, GoOrIdle_Does DEF ReopenOrder, Return, OnlyBill, SameLines, BillRecord

LEMMA Refund_Does ==
    ASSUME BillTypes, NEW p \in Tills, Refund(p)
    PROVE  /\ proc[p].at = "refund" /\ B(p) \in Bills
           /\ \E r : /\ NewRow(r) /\ r.bill = B(p) /\ r.method = proc[p].method /\ r.ref = proc[p].ref
                     /\ r.amt = proc[p].tips - proc[p].amt /\ r.tip = -proc[p].tips
           /\ IF proc[p].settle THEN GoesTo(p, "refundCards") ELSE Ends(p, proc[p].then)
           /\ UNCHANGED <<bill, sale, cards, wallet>>
<1>1. proc[p].at = "refund" /\ UNCHANGED <<bill, sale, cards, wallet>>
      /\ AddPayment(B(p), proc[p].method, proc[p].tips - proc[p].amt, -proc[p].tips, proc[p].ref)
  BY DEF Refund, At
<1>2. IF proc[p].settle THEN GoesTo(p, "refundCards") ELSE Ends(p, proc[p].then)
  BY Goto_Does, GoOrIdle_Does DEF Refund, Return
<1>3. /\ B(p) \in Bills /\ proc[p].amt \in Int /\ proc[p].tips \in Int /\ proc[p].method \in Methods
      /\ proc[p].ref \in Refs \cup {NoRef}
  BY <1>1, Here, ProcFields_Typed
<1>4. proc[p].tips - proc[p].amt \in Int /\ -proc[p].tips \in Int
  BY <1>3
<1>5. PICK r \in PaymentRecord : NewRow(r) /\ r.bill = B(p) /\ r.method = proc[p].method
                     /\ r.amt = proc[p].tips - proc[p].amt /\ r.tip = -proc[p].tips /\ r.ref = proc[p].ref
  <2>1. written' = written + 1
    BY <1>1 DEF AddPayment
  <2> QED BY <1>1, <1>3, <1>4, <2>1, Added_Row DEF NewRow
<1> QED BY <1>1, <1>2, <1>3, <1>5

LEMMA RefundCards_Does ==
    ASSUME BillTypes, NEW p \in Tills, RefundCards(p)
    PROVE  /\ proc[p].at = "refundCards" /\ B(p) \in Bills /\ Ends(p, proc[p].then)
           /\ UNCHANGED <<bill, pays, written, wallet>>
           /\ \A s \in Sales : /\ sale'[s].on = sale[s].on /\ sale'[s].issued = sale[s].issued
                               /\ cards'[s] <= cards[s]
                               /\ cards'[s] = cards[s] \/ (sale[s].issued /\ ~sale[s].revoked)
<1>1. proc[p].at = "refundCards" /\ Ends(p, proc[p].then) /\ UNCHANGED <<bill, pays, written, wallet>>
  BY GoOrIdle_Does DEF RefundCards, Return, At
<1> DEFINE revoked == {s \in SalesOn(B(p)) : sale[s].issued /\ ~sale[s].revoked}
<1>2. ASSUME NEW s \in Sales
      PROVE  /\ sale'[s].on = sale[s].on /\ sale'[s].issued = sale[s].issued
             /\ cards'[s] <= cards[s]
             /\ cards'[s] = cards[s] \/ (sale[s].issued /\ ~sale[s].revoked)
  <2>1. sale[s] \in SaleRecord /\ cards[s] \in 0..2
    BY Here DEF BillTypes, TypeOK
  <2>2. /\ cards'[s] = IF s \in revoked THEN cards[s] - 1 ELSE cards[s]
        /\ sale'[s] = IF s \in revoked THEN [sale[s] EXCEPT !.revoked = TRUE] ELSE sale[s]
    BY DEF RefundCards
  <2>3. s \in revoked => sale[s].issued /\ ~sale[s].revoked
    OBVIOUS
  <2> HIDE DEF revoked
  <2> QED BY <2>1, <2>2, <2>3 DEF SaleRecord
<1> QED BY <1>1, <1>2, Here

-----------------------------------------------------------------------------
(* One till at work *)

Alone(p) == \A q \in Tills : q # p => proc[q].at = "away"

\* Where a handler goes back to is for the places on the way there.
Backs(q) ==
    /\ q.back = "payReread" => q.at \in {"recRead", "recWrite", "payReread"}
    /\ q.back = "splitNext" => q.at \in {"recRead", "recWrite", "splitNext"}
    /\ q.at = "payReread" => q.back = "payReread"

\* What a handler read of its bills is still so when nobody else is at work.
Stands(q) ==
    /\ Backs(q)
    /\ q.at \in BillPlaces \ {"splitNext"} => bill[q.b].status # "NONE"
    /\ q.at \in {"setLines", "addSale", "void", "merge", "debit", "record", "status"}
          \/ q.back = "payReread" => bill[q.b].status = "OPEN"
    /\ q.at = "merge" => bill[q.other].status = "OPEN"
    /\ q.at \in {"reopen", "issueList", "issueNext", "issueMark"} => bill[q.b].status = "PAID"
    /\ q.at \in {"refund", "refundCards"} => bill[q.b].status \in {"OPEN", "PAID"}
    /\ q.at = "undoDelete" => \E r \in pays : r.id = q.pay /\ r.bill = q.b
    /\ q.at = "splitNext" \/ q.back = "splitNext" =>
          bill[q.other].status = "OPEN" /\ Of(q.other) = {} /\ SalesOn(q.other) = {}
    /\ q.back = "splitNext" => q.b # q.other /\ (q.at # "splitNext" => q.b \in Bills)

\* A bill that nobody has opened is empty.
Unopened ==
    \A b \in Bills : bill[b].status = "NONE" =>
        /\ bill[b].goods = 0 /\ bill[b].gifts = 0 /\ bill[b].total = 0
        /\ Of(b) = {} /\ SalesOn(b) = {}

AloneInv(p) == BillTypes /\ Alone(p) /\ Stands(proc[p]) /\ Unopened

LEMMA Away_Rests ==
    ASSUME NEW p \in Tills, StepOf(p)
    PROVE  proc[p].at # "away"
<1>1. CASE RingUp(p)
  BY <1>1 DEF RingUp, CreateOrder, SetLinesRead, AddGiftCardSaleRead, SplitRead, MergeRead,
              RemoveGiftCardSaleRead, Idle, At
<1>2. CASE SettleUp(p)
  BY <1>2 DEF SettleUp, PayOrder, RefundOrder, VoidRead, ReopenRead, UndoRead, Idle, At
<1>3. CASE LineStep(p)
  BY <1>3 DEF LineStep, SetLines, AddGiftCardSale, RemoveGiftCardSale, SyncRead, SyncClear, SyncCreate,
              RecomputeRead, RecomputeWrite, MergeOrders, SplitChild, SplitVoid, At
<1>4. CASE PayStep(p)
  BY <1>4 DEF PayStep, PayReread, Debit, Record, SetStatus, IssueList, IssueNext, IssueMark, At
<1>5. CASE ReverseStep(p)
  BY <1>5 DEF ReverseStep, UndoDelete, UndoStatus, VoidOrder, ReopenOrder, Refund, RefundCards, At
<1> QED BY <1>1, <1>2, <1>3, <1>4, <1>5 DEF StepOf

LEMMA Alone_Keeps ==
    ASSUME NEW p \in Tills, Alone(p), Others(p)
    PROVE  Alone(p)'
BY DEF Alone, Others

LEMMA Rests_Stands ==
    ASSUME NEW p \in Tills, proc'[p] = IdleProc
    PROVE  Stands(proc[p])'
BY Idle_Fields DEF Stands, Backs, BillPlaces

\* The handler is back with whoever called it.
LEMMA Ends_Stands ==
    ASSUME BillTypes, NEW p \in Tills, Ends(p, proc[p].then) \/ Ends(p, proc[p].catch), proc[p].back = "idle"
    PROVE  Stands(proc[p])' /\ Others(p)
<1>0. proc[p].then \in {"idle", "booked", "paid"} /\ proc[p].catch \in {"idle", "notBooked"}
  BY Here, ProcFields_Typed
<1>1. CASE Rests(p)
  BY <1>1, Rests_Stands DEF Rests
<1>2. CASE ~Rests(p)
  <2>1. PICK w \in {"booked", "paid", "notBooked"} : GoesTo(p, w)
    BY <1>0, <1>2 DEF Ends
  <2>2. proc'[p].at = w /\ proc'[p].back = "idle" /\ Others(p)
    BY <2>1 DEF GoesTo, Keeps
  <2>3. w \notin BillPlaces
    BY DEF BillPlaces
  <2> QED BY <2>2, <2>3 DEF Stands, Backs
<1> QED BY <1>1, <1>2

LEMMA Unopened_Same ==
    ASSUME Unopened, UNCHANGED <<bill, pays, sale>>
    PROVE  Unopened'
BY DEF Unopened, Of, SalesOn

LEMMA RingUp_Stands ==
    ASSUME NEW p \in Tills, AloneInv(p), RingUp(p)
    PROVE  Stands(proc[p])' /\ Unopened' /\ Others(p)
<1>0. BillTypes /\ Stands(proc[p]) /\ Unopened
  BY DEF AloneInv
<1>1. ASSUME NEW b \in Bills, CreateOrder(p, b) PROVE Stands(proc[p])' /\ Unopened' /\ Others(p)
  <2>1. /\ proc[p].at = "idle" /\ OnlyBill(b) /\ bill'[b].status = "OPEN"
        /\ UNCHANGED <<pays, written, sale, cards, wallet, proc>>
    BY <1>0, <1>1, CreateOrder_Does
  <2>2. Unopened'
    BY <1>0, <2>1 DEF Unopened, Of, SalesOn, OnlyBill
  <2>3. Stands(proc[p])'
    BY <1>0, <2>1 DEF Stands, Backs, BillPlaces
  <2> QED BY <2>1, <2>2, <2>3 DEF Others
<1>2. ASSUME NEW b \in Bills, NEW goods \in 0..MaxGoods, SetLinesRead(p, b, goods)
      PROVE  Stands(proc[p])' /\ Unopened' /\ Others(p)
  <2>1. Asks(p, "setLines", b) /\ bill[b].status = "OPEN" /\ UNCHANGED <<bill, pays, sale>>
    BY <1>0, <1>2, SetLinesRead_Does DEF billVars
  <2> QED BY <1>0, <2>1, Unopened_Same DEF Asks, Stands, Backs
<1>3. ASSUME NEW b \in Bills, AddGiftCardSaleRead(p, b) PROVE Stands(proc[p])' /\ Unopened' /\ Others(p)
  <2>1. Asks(p, "addSale", b) /\ bill[b].status = "OPEN" /\ UNCHANGED <<bill, pays, sale>>
    BY <1>0, <1>3, Begin_Does DEF AddGiftCardSaleRead, billVars
  <2> QED BY <1>0, <2>1, Unopened_Same DEF Asks, Stands, Backs
<1>4. ASSUME NEW b \in Bills, SplitRead(p, b) PROVE Stands(proc[p])' /\ Unopened' /\ Others(p)
  <2>1. /\ Asks(p, "splitNext", NoBill) /\ bill[b].status = "OPEN" /\ proc'[p].other = b
        /\ Of(b) = {} /\ SalesOn(b) = {} /\ UNCHANGED <<bill, pays, sale>>
    BY <1>0, <1>4, SplitRead_Does DEF billVars
  <2>2. Of(b)' = {} /\ SalesOn(b)' = {}
    BY <2>1 DEF Of, SalesOn
  <2> QED BY <1>0, <2>1, <2>2, Unopened_Same DEF Asks, Stands, Backs
<1>5. ASSUME NEW b \in Bills, NEW source \in Bills, MergeRead(p, b, source)
      PROVE  Stands(proc[p])' /\ Unopened' /\ Others(p)
  <2>1. /\ Asks(p, "merge", b) /\ proc'[p].other = source
        /\ bill[b].status = "OPEN" /\ bill[source].status = "OPEN" /\ UNCHANGED <<bill, pays, sale>>
    BY <1>0, <1>5, MergeRead_Does DEF billVars
  <2> QED BY <1>0, <2>1, Unopened_Same DEF Asks, Stands, Backs
<1>6. ASSUME NEW s \in Sales, RemoveGiftCardSaleRead(p, s)
      PROVE  Stands(proc[p])' /\ Unopened' /\ Others(p)
  <2>1. Asks(p, "removeSale", sale[s].on) /\ sale[s].on \in Bills /\ UNCHANGED <<bill, pays, sale>>
    BY <1>0, <1>6, RemoveGiftCardSaleRead_Does DEF billVars
  <2>2. bill[sale[s].on].status # "NONE"
    BY <1>0, <2>1 DEF Unopened, SalesOn
  <2> QED BY <1>0, <2>1, <2>2, Unopened_Same DEF Asks, Stands, Backs
<1> QED BY <1>1, <1>2, <1>3, <1>4, <1>5, <1>6 DEF RingUp

\* A payment that begins or goes on.
LEMMA Paying_Stands ==
    ASSUME BillTypes, NEW p \in Tills, NEW b \in Bills, Paying(p, b), UNCHANGED <<bill, pays, sale>>
    PROVE  Stands(proc[p])'
<1>1. /\ bill[b].status = "OPEN" /\ proc'[p].b = b
      /\ \/ proc'[p].at = "recRead" /\ proc'[p].back = "payReread"
         \/ proc'[p].at \in {"debit", "record"} /\ proc'[p].back = "idle"
  BY DEF Paying, DecidedOn
<1> QED BY <1>1 DEF Stands, Backs, BillPlaces

LEMMA SettleUp_Stands ==
    ASSUME NEW p \in Tills, AloneInv(p), SettleUp(p)
    PROVE  Stands(proc[p])' /\ Unopened' /\ Others(p)
<1>0. BillTypes /\ Stands(proc[p]) /\ Unopened
  BY DEF AloneInv
<1>1. ASSUME NEW b \in Bills, NEW method \in TillTenders, NEW want \in 0..MaxGoods,
             NEW tip \in 0..MaxTip, PayOrder(p, b, method, want, tip)
      PROVE  Stands(proc[p])' /\ Unopened' /\ Others(p)
  <2>1. UNCHANGED <<bill, pays, sale>> /\ (Rests(p) \/ (Others(p) /\ Paying(p, b)))
    BY <1>0, <1>1, PayOrder_Does DEF billVars
  <2> QED BY <1>0, <2>1, Unopened_Same, Rests_Stands, Paying_Stands DEF Rests
<1>2. ASSUME NEW b \in Bills, NEW method \in {"CASH", "REFUND"}, NEW want \in 0..MaxGoods,
             RefundOrder(p, b, method, want)
      PROVE  Stands(proc[p])' /\ Unopened' /\ Others(p)
  <2>1. /\ UNCHANGED <<bill, pays, sale>>
        /\ Rests(p) \/ (Asks(p, "refund", b) /\ bill[b].status \in {"OPEN", "PAID"})
    BY <1>0, <1>2, RefundOrder_Does DEF billVars
  <2>2. CASE Rests(p)
    BY <1>0, <2>1, <2>2, Unopened_Same, Rests_Stands DEF Rests
  <2>3. CASE Asks(p, "refund", b) /\ bill[b].status \in {"OPEN", "PAID"}
    BY <1>0, <2>1, <2>3, Unopened_Same DEF Asks, Stands, Backs
  <2> QED BY <2>1, <2>2, <2>3
<1>3. ASSUME NEW b \in Bills, VoidRead(p, b) PROVE Stands(proc[p])' /\ Unopened' /\ Others(p)
  <2>1. Asks(p, "void", b) /\ bill[b].status = "OPEN" /\ UNCHANGED <<bill, pays, sale>>
    BY <1>0, <1>3, Begin_Does DEF VoidRead, billVars
  <2> QED BY <1>0, <2>1, Unopened_Same DEF Asks, Stands, Backs
<1>4. ASSUME NEW b \in Bills, ReopenRead(p, b) PROVE Stands(proc[p])' /\ Unopened' /\ Others(p)
  <2>1. Asks(p, "reopen", b) /\ bill[b].status = "PAID" /\ UNCHANGED <<bill, pays, sale>>
    BY <1>0, <1>4, Begin_Does DEF ReopenRead, billVars
  <2> QED BY <1>0, <2>1, Unopened_Same DEF Asks, Stands, Backs
<1>5. ASSUME NEW r \in pays, UndoRead(p, r) PROVE Stands(proc[p])' /\ Unopened' /\ Others(p)
  <2>1. Asks(p, "undoDelete", r.bill) /\ proc'[p].pay = r.id /\ r.bill \in Bills /\ UNCHANGED <<bill, pays, sale>>
    BY <1>0, <1>5, UndoRead_Does DEF billVars
  <2>2. bill[r.bill].status # "NONE"
    BY <1>0, <2>1 DEF Unopened, Of
  <2>3. \E x \in pays : x.id = proc'[p].pay /\ x.bill = r.bill
    BY <2>1
  <2> QED BY <1>0, <2>1, <2>2, <2>3, Unopened_Same DEF Asks, Stands, Backs
<1> QED BY <1>1, <1>2, <1>3, <1>4, <1>5 DEF SettleUp

\* A step that keeps rows and sales and the status of every bill.
SameStatus == \A b \in Bills : bill'[b].status = bill[b].status

LEMMA Unopened_Lines ==
    ASSUME BillTypes, Unopened, NEW b \in Bills, bill[b].status # "NONE", SameStatus, OnlyBill(b),
           UNCHANGED <<pays, sale>>
    PROVE  Unopened'
BY DEF Unopened, Of, SalesOn, SameStatus, OnlyBill

LEMMA LineStep_Stands ==
    ASSUME NEW p \in Tills, AloneInv(p), LineStep(p)
    PROVE  Stands(proc[p])' /\ Unopened' /\ Others(p)
<1>0. /\ BillTypes /\ Stands(proc[p]) /\ Unopened /\ Backs(proc[p]) /\ Fit(proc[p])
      /\ proc[p].back \in {"idle", "payReread", "splitNext"}
  BY Here, ProcFields_Typed DEF AloneInv, Stands
<1>b. B(p) = proc[p].b
  BY DEF B
<1>s. proc[p].at \in BillPlaces \ {"splitNext"} => bill[B(p)].status # "NONE"
  BY <1>0, <1>b DEF Stands
<1>1. CASE SetLines(p)
  <2>1. /\ proc[p].at = "setLines" /\ GoesTo(p, "syncRead") /\ B(p) \in Bills /\ OnlyBill(B(p))
        /\ SameHead(B(p)) /\ UNCHANGED <<pays, sale>>
    BY <1>0, <1>1, SetLines_Does
  <2>2. SameStatus
    BY <2>1 DEF SameStatus, OnlyBill, SameHead
  <2>3. bill[B(p)].status # "NONE"
    BY <1>s, <2>1 DEF BillPlaces
  <2>4. Unopened'
    BY <1>0, <2>1, <2>2, <2>3, Unopened_Lines
  <2>5. proc[p].back = "idle"
    BY <1>0, <2>1 DEF Backs
  <2> QED BY <1>b, <2>1, <2>2, <2>3, <2>4, <2>5 DEF Stands, Backs, GoesTo, Keeps, SameStatus, BillPlaces
<1>2. ASSUME NEW s \in Sales, AddGiftCardSale(p, s) PROVE Stands(proc[p])' /\ Unopened' /\ Others(p)
  <2>1. /\ proc[p].at = "addSale" /\ GoesTo(p, "syncRead") /\ B(p) \in Bills
        /\ \A x \in Sales : x # s => sale'[x] = sale[x]
        /\ sale'[s].on = B(p) /\ UNCHANGED <<bill, pays>>
    BY <1>0, <1>2, AddGiftCardSale_Does
  <2>3. bill[B(p)].status # "NONE"
    BY <1>s, <2>1 DEF BillPlaces
  <2>4. Unopened'
    BY <1>0, <2>1, <2>3 DEF Unopened, Of, SalesOn
  <2>5. proc[p].back = "idle"
    BY <1>0, <2>1 DEF Backs
  <2> QED BY <1>b, <2>1, <2>3, <2>4, <2>5 DEF Stands, Backs, GoesTo, Keeps, BillPlaces
<1>3. CASE RemoveGiftCardSale(p)
  <2>1. /\ proc[p].at = "removeSale" /\ B(p) \in Bills /\ UNCHANGED <<bill, pays>>
        /\ \/ Ends(p, proc[p].catch) /\ UNCHANGED sale
           \/ /\ \E s \in proc[p].todo : /\ s \in Sales /\ sale'[s] = NoSaleYet
                                         /\ \A x \in Sales : x # s => sale'[x] = sale[x]
              /\ Others(p) /\ KeepsBut(proc[p], proc'[p]) /\ proc'[p].at = "syncRead"
    BY <1>0, <1>3, RemoveGiftCardSale_Does
  <2>3. bill[B(p)].status # "NONE"
    BY <1>s, <2>1 DEF BillPlaces
  <2>5. proc[p].back = "idle"
    BY <1>0, <2>1 DEF Backs
  <2>6. CASE Ends(p, proc[p].catch) /\ UNCHANGED sale
    BY <1>0, <2>1, <2>5, <2>6, Ends_Stands, Unopened_Same
  <2>7. CASE \E s \in proc[p].todo : /\ s \in Sales /\ sale'[s] = NoSaleYet
                                     /\ \A x \in Sales : x # s => sale'[x] = sale[x]
    <3>1. NoSaleYet.on = NoBill /\ NoBill \notin Bills
      BY PosBillAssumption DEF NoSaleYet
    <3>2. Unopened'
      BY <1>0, <2>1, <2>7, <3>1 DEF Unopened, Of, SalesOn
    <3>3. CASE Ends(p, proc[p].catch)
      BY <1>0, <2>5, <3>2, <3>3, Ends_Stands
    <3>4. CASE ~Ends(p, proc[p].catch)
      BY <1>b, <2>1, <2>3, <2>5, <3>2, <3>4 DEF Stands, Backs, KeepsBut, BillPlaces
    <3> QED BY <3>3, <3>4
  <2> QED BY <2>1, <2>6, <2>7
<1>4. CASE SyncRead(p)
  <2>1. /\ proc[p].at = "syncRead" /\ UNCHANGED <<bill, pays, sale>> /\ B(p) \in Bills
        /\ Others(p) /\ KeepsBut(proc[p], proc'[p]) /\ proc'[p].at = "syncClear"
    BY <1>0, <1>4, SyncRead_Does DEF billVars
  <2>3. bill[B(p)].status # "NONE" /\ proc[p].back = "idle"
    BY <1>0, <1>s, <2>1 DEF BillPlaces, Backs
  <2> QED BY <1>0, <1>b, <2>1, <2>3, Unopened_Same DEF Stands, Backs, KeepsBut, BillPlaces
<1>5. CASE SyncClear(p)
  <2>1. /\ proc[p].at = "syncClear" /\ B(p) \in Bills /\ OnlyBill(B(p)) /\ SameHead(B(p))
        /\ GoesTo(p, "recRead") \/ GoesTo(p, "syncCreate")
        /\ UNCHANGED <<pays, sale>>
    BY <1>0, <1>5, SyncClear_Does
  <2>2. SameStatus
    BY <2>1 DEF SameStatus, OnlyBill, SameHead
  <2>3. bill[B(p)].status # "NONE" /\ proc[p].back = "idle"
    BY <1>0, <1>s, <2>1 DEF BillPlaces, Backs
  <2>4. Unopened'
    BY <1>0, <2>1, <2>2, <2>3, Unopened_Lines
  <2> QED BY <1>b, <2>1, <2>2, <2>3, <2>4 DEF Stands, Backs, GoesTo, Keeps, SameStatus, BillPlaces
<1>6. CASE SyncCreate(p)
  <2>1. /\ proc[p].at = "syncCreate" /\ B(p) \in Bills /\ OnlyBill(B(p)) /\ SameHead(B(p))
        /\ Others(p) /\ KeepsBut(proc[p], proc'[p]) /\ proc'[p].at = "recRead"
        /\ UNCHANGED <<pays, sale>>
    BY <1>0, <1>6, SyncCreate_Does
  <2>2. SameStatus
    BY <2>1 DEF SameStatus, OnlyBill, SameHead
  <2>3. bill[B(p)].status # "NONE" /\ proc[p].back = "idle"
    BY <1>0, <1>s, <2>1 DEF BillPlaces, Backs
  <2>4. Unopened'
    BY <1>0, <2>1, <2>2, <2>3, Unopened_Lines
  <2> QED BY <1>b, <2>1, <2>2, <2>3, <2>4 DEF Stands, Backs, KeepsBut, SameStatus, BillPlaces
<1>7. CASE RecomputeRead(p)
  <2>1. /\ proc[p].at = "recRead" /\ B(p) \in Bills /\ UNCHANGED <<bill, pays, sale>>
        /\ Others(p) /\ KeepsBut(proc[p], proc'[p]) /\ proc'[p].at = "recWrite"
    BY <1>0, <1>7, RecomputeRead_Does DEF billVars
  <2>3. bill[B(p)].status # "NONE"
    BY <1>s, <2>1 DEF BillPlaces
  <2>4. proc'[p].other = proc[p].other /\ Of(proc[p].other)' = Of(proc'[p].other)
        /\ SalesOn(proc[p].other)' = SalesOn(proc'[p].other)
    BY <2>1 DEF Of, SalesOn, KeepsBut
  <2> QED BY <1>0, <1>b, <2>1, <2>3, <2>4, Unopened_Same DEF Stands, Backs, KeepsBut, BillPlaces
<1>8. CASE RecomputeWrite(p)
  <2>1. /\ proc[p].at = "recWrite" /\ B(p) \in Bills /\ OnlyBill(B(p))
        /\ bill'[B(p)].status = bill[B(p)].status /\ UNCHANGED <<pays, sale>>
        /\ Ends(p, proc[p].back)
    BY <1>0, <1>8, RecomputeWrite_Does
  <2>2. SameStatus
    BY <2>1 DEF SameStatus, OnlyBill
  <2>3. bill[B(p)].status # "NONE"
    BY <1>s, <2>1 DEF BillPlaces
  <2>4. Unopened'
    BY <1>0, <2>1, <2>2, <2>3, Unopened_Lines
  <2>5. \A b \in Bills : (Of(b))' = Of(b) /\ (SalesOn(b))' = SalesOn(b)
    BY <2>1 DEF Of, SalesOn
  <2>6. CASE proc[p].back = "idle"
    BY <2>1, <2>4, <2>6, Rests_Stands DEF Ends, Rests
  <2>7. CASE proc[p].back = "payReread"
    <3>1. GoesTo(p, "payReread") /\ bill[B(p)].status = "OPEN"
      BY <1>0, <1>b, <2>1, <2>7 DEF Ends, Stands
    <3> QED BY <1>b, <2>1, <2>2, <2>4, <2>7, <3>1 DEF Stands, Backs, GoesTo, Keeps, BillPlaces, SameStatus
  <2>8. CASE proc[p].back = "splitNext"
    <3>1. /\ GoesTo(p, "splitNext") /\ bill[proc[p].other].status = "OPEN" /\ Of(proc[p].other) = {}
          /\ SalesOn(proc[p].other) = {} /\ proc[p].b # proc[p].other /\ proc[p].other \in Bills
      BY <1>0, <2>1, <2>8 DEF Ends, Stands, Fit
    <3> QED BY <1>b, <2>1, <2>2, <2>4, <2>5, <2>8, <3>1 DEF Stands, Backs, GoesTo, Keeps, BillPlaces, SameStatus
  <2> QED BY <1>0, <2>6, <2>7, <2>8
<1>9. CASE MergeOrders(p)
  <2>1. /\ proc[p].at = "merge" /\ B(p) \in Bills /\ proc[p].other \in Bills /\ B(p) # proc[p].other
        /\ GoesTo(p, "recRead") /\ MovedRows(B(p), proc[p].other)
        /\ \A c \in Bills \ {B(p), proc[p].other} : bill'[c] = bill[c]
        /\ SameHead(B(p)) /\ bill'[proc[p].other].status = "VOID" /\ UNCHANGED sale
    BY <1>0, <1>9, MergeOrders_Does
  <2>2. bill[B(p)].status = "OPEN" /\ bill'[B(p)].status = "OPEN" /\ proc[p].back = "idle"
    BY <1>0, <1>b, <2>1 DEF Stands, SameHead, Backs
  <2>3. \A b \in Bills \ {B(p), proc[p].other} : Of(b) = {} => Of(b)' = {}
    <3> SUFFICES ASSUME NEW b \in Bills \ {B(p), proc[p].other}, Of(b) = {}, NEW x \in pays', x.bill = b PROVE FALSE
      BY DEF Of
    <3>1. PICK h : /\ pays' = {h[r] : r \in pays}
                   /\ \A r \in pays : h[r].bill = IF r.bill = proc[p].other THEN B(p) ELSE r.bill
      BY <1>0, <2>1, Merge_Map
    <3> QED BY <3>1 DEF Of
  <2>4. Unopened'
    <3> SUFFICES ASSUME NEW b \in Bills, bill'[b].status = "NONE"
                 PROVE  /\ bill'[b].goods = 0 /\ bill'[b].gifts = 0 /\ bill'[b].total = 0
                        /\ Of(b)' = {} /\ SalesOn(b)' = {}
      BY DEF Unopened
    <3>1. b \notin {B(p), proc[p].other}
      BY <2>1, <2>2
    <3> QED BY <1>0, <2>1, <2>3, <3>1 DEF Unopened, SalesOn
  <2> QED BY <1>b, <2>1, <2>2, <2>4 DEF Stands, Backs, GoesTo, Keeps, BillPlaces
<1>10. ASSUME NEW c \in Bills, SplitChild(p, c) PROVE Stands(proc[p])' /\ Unopened' /\ Others(p)
  <2>1. /\ proc[p].at = "splitNext" /\ bill[c].status = "NONE" /\ OnlyBill(c) /\ bill'[c].status = "OPEN"
        /\ Others(p) /\ proc'[p].at = "recRead" /\ proc'[p].b = c /\ proc'[p].back = "splitNext"
        /\ proc'[p].other = proc[p].other /\ UNCHANGED <<pays, sale>>
    BY <1>0, <1>10, SplitChild_Does
  <2>2. /\ bill[proc[p].other].status = "OPEN" /\ Of(proc[p].other) = {} /\ SalesOn(proc[p].other) = {}
        /\ proc[p].other \in Bills
    BY <1>0, <2>1 DEF Stands, Fit
  <2>3. c # proc[p].other /\ bill'[proc[p].other] = bill[proc[p].other]
    BY <2>1, <2>2 DEF OnlyBill
  <2>4. Unopened'
    BY <1>0, <2>1 DEF Unopened, Of, SalesOn, OnlyBill
  <2>5. Of(proc[p].other)' = {} /\ SalesOn(proc[p].other)' = {}
    BY <2>1, <2>2 DEF Of, SalesOn
  <2> QED BY <2>1, <2>2, <2>3, <2>4, <2>5 DEF Stands, Backs, BillPlaces
<1>11. CASE SplitVoid(p)
  <2>1. /\ proc[p].at = "splitNext" /\ proc[p].other \in Bills /\ OnlyBill(proc[p].other)
        /\ bill'[proc[p].other].status = "VOID" /\ Ends(p, proc[p].then) /\ UNCHANGED <<pays, sale>>
    BY <1>0, <1>11, SplitVoid_Does
  <2>2. Rests(p)
    BY <1>0, <2>1 DEF Fit, Ends
  <2>3. Unopened'
    BY <1>0, <2>1 DEF Unopened, Of, SalesOn, OnlyBill
  <2> QED BY <2>2, <2>3, Rests_Stands DEF Rests
<1> QED BY <1>1, <1>2, <1>3, <1>4, <1>5, <1>6, <1>7, <1>8, <1>9, <1>10, <1>11 DEF LineStep

\* A row on a bill that is there.
LEMMA Unopened_Row ==
    ASSUME BillTypes, Unopened, NEW b \in Bills, bill[b].status # "NONE", UNCHANGED <<bill, sale>>,
           NEW r, r.bill = b, pays' = pays \cup {r}
    PROVE  Unopened'
BY DEF Unopened, Of, SalesOn

\* A handler that goes on where no more is asked of it than a bill that is there.
LEMMA GoesTo_Stands ==
    ASSUME NEW p \in Tills, NEW w, Others(p), KeepsBut(proc[p], proc'[p]) \/ Keeps(proc[p], proc'[p]),
           proc'[p].at = w, proc[p].back = "idle",
           w \in {"issueList", "issueNext", "issueMark"} => bill'[proc[p].b].status = "PAID",
           w \in {"record", "status"} => bill'[proc[p].b].status = "OPEN",
           w = "refundCards" => bill'[proc[p].b].status \in {"OPEN", "PAID"},
           w = "undoStatus" => bill'[proc[p].b].status # "NONE",
           w \in {"issueList", "issueNext", "issueMark", "record", "status", "refundCards", "undoStatus"}
    PROVE  Stands(proc[p])'
<1>1. proc'[p].b = proc[p].b /\ proc'[p].back = "idle"
  BY DEF Keeps, KeepsBut
<1> QED BY <1>1 DEF Stands, Backs, BillPlaces

LEMMA PayStep_Stands ==
    ASSUME NEW p \in Tills, AloneInv(p), PayStep(p)
    PROVE  Stands(proc[p])' /\ Unopened' /\ Others(p)
<1>0. /\ BillTypes /\ Stands(proc[p]) /\ Unopened /\ Backs(proc[p]) /\ Fit(proc[p])
      /\ proc[p].back \in {"idle", "payReread", "splitNext"}
  BY Here, ProcFields_Typed DEF AloneInv, Stands
<1>b. B(p) = proc[p].b
  BY DEF B
<1>1. CASE PayReread(p)
  <2>1. /\ proc[p].at = "payReread" /\ B(p) \in Bills /\ UNCHANGED <<bill, pays, sale>> /\ Others(p)
        /\ \/ proc'[p] = IdleProc
           \/ /\ SameRequest(proc[p], proc'[p]) /\ proc'[p].back = "idle"
              /\ \/ proc[p].catch # "idle" /\ proc'[p].at = proc[p].catch
                 \/ DecidedOn(p, B(p))
    BY <1>0, <1>1, PayReread_Does DEF billVars
  <2>2. bill[B(p)].status = "OPEN"
    BY <1>0, <1>b, <2>1 DEF Stands, Backs
  <2>3. CASE proc'[p] = IdleProc
    BY <1>0, <2>1, <2>3, Unopened_Same, Rests_Stands
  <2>4. CASE proc[p].catch # "idle" /\ proc'[p].at = proc[p].catch /\ proc'[p].back = "idle"
    <3>1. proc'[p].at = "notBooked"
      BY <1>0, <2>4, ProcFields_Typed, Here
    <3> QED BY <1>0, <2>1, <2>4, <3>1, Unopened_Same DEF Stands, Backs, BillPlaces
  <2>5. CASE DecidedOn(p, B(p)) /\ proc'[p].back = "idle" /\ SameRequest(proc[p], proc'[p])
    <3>1. proc'[p].b = B(p) /\ proc'[p].at \in {"debit", "record"}
      BY <1>b, <2>5 DEF DecidedOn, SameRequest
    <3> QED BY <1>0, <2>1, <2>2, <2>5, <3>1, Unopened_Same DEF Stands, Backs, BillPlaces
  <2> QED BY <2>1, <2>3, <2>4, <2>5
<1>2. CASE Debit(p)
  <2>1. /\ proc[p].at = "debit" /\ B(p) \in Bills
        /\ GoesTo(p, "record") \/ Ends(p, proc[p].catch)
        /\ UNCHANGED <<bill, pays, sale>>
    BY <1>0, <1>2, Debit_Does
  <2>2. bill[B(p)].status = "OPEN" /\ proc[p].back = "idle"
    BY <1>0, <1>b, <2>1 DEF Stands, Backs
  <2> QED BY <1>0, <1>b, <2>1, <2>2, Unopened_Same, Ends_Stands, GoesTo_Stands DEF GoesTo
<1>3. CASE Record(p)
  <2>1. PICK r : /\ proc[p].at = "record" /\ B(p) \in Bills /\ GoesTo(p, "status")
                 /\ NewRow(r) /\ r.bill = B(p) /\ UNCHANGED <<bill, sale>>
    BY <1>0, <1>3, Record_Does
  <2>2. bill[B(p)].status = "OPEN" /\ proc[p].back = "idle"
    BY <1>0, <1>b, <2>1 DEF Stands, Backs
  <2>3. Unopened'
    BY <1>0, <2>1, <2>2, Unopened_Row DEF NewRow
  <2> QED BY <1>b, <2>1, <2>2, <2>3, GoesTo_Stands DEF GoesTo
<1>4. CASE SetStatus(p)
  <2>1. /\ proc[p].at = "status" /\ B(p) \in Bills /\ OnlyBill(B(p)) /\ SameLines(B(p))
        /\ bill'[B(p)].total = bill[B(p)].total
        /\ bill'[B(p)].status = IF proc[p].settle THEN "PAID" ELSE bill[B(p)].status
        /\ IF proc[p].settle THEN GoesTo(p, "issueList") ELSE Ends(p, proc[p].then)
        /\ UNCHANGED <<pays, sale>>
    BY <1>0, <1>4, SetStatus_Does
  <2>2. bill[B(p)].status = "OPEN" /\ proc[p].back = "idle"
    BY <1>0, <1>b, <2>1 DEF Stands, Backs
  <2>3. Unopened'
    BY <1>0, <2>1, <2>2 DEF Unopened, Of, SalesOn, OnlyBill
  <2>4. CASE proc[p].settle
    BY <1>b, <2>1, <2>2, <2>3, <2>4, GoesTo_Stands DEF GoesTo
  <2>5. CASE ~proc[p].settle
    BY <1>0, <2>1, <2>2, <2>3, <2>5, Ends_Stands
  <2> QED BY <2>4, <2>5
<1>5. CASE IssueList(p)
  <2>1. /\ proc[p].at = "issueList" /\ B(p) \in Bills /\ UNCHANGED <<bill, pays, sale>>
        /\ \/ Ends(p, proc[p].then)
           \/ Others(p) /\ KeepsBut(proc[p], proc'[p]) /\ proc'[p].at = "issueNext"
    BY <1>0, <1>5, IssueList_Does DEF billVars
  <2>2. bill[B(p)].status = "PAID" /\ proc[p].back = "idle"
    BY <1>0, <1>b, <2>1 DEF Stands, Backs
  <2> QED BY <1>0, <1>b, <2>1, <2>2, Unopened_Same, Ends_Stands, GoesTo_Stands
<1>6. ASSUME NEW s \in Sales, IssueNext(p, s) PROVE Stands(proc[p])' /\ Unopened' /\ Others(p)
  <2>1. /\ proc[p].at = "issueNext" /\ B(p) \in Bills /\ UNCHANGED <<bill, pays, sale>>
        /\ \/ Ends(p, proc[p].then)
           \/ /\ Others(p) /\ KeepsBut(proc[p], proc'[p])
              /\ proc'[p].at \in {"issueNext", "issueMark"}
    BY <1>0, <1>6, IssueNext_Does
  <2>2. bill[B(p)].status = "PAID" /\ proc[p].back = "idle"
    BY <1>0, <1>b, <2>1 DEF Stands, Backs
  <2> QED BY <1>0, <1>b, <2>1, <2>2, Unopened_Same, Ends_Stands, GoesTo_Stands
<1>7. CASE IssueMark(p)
  <2>1. /\ proc[p].at = "issueMark" /\ B(p) \in Bills /\ UNCHANGED <<bill, pays>>
        /\ \A s \in Sales : sale'[s].on = sale[s].on
        /\ \/ Ends(p, proc[p].then)
           \/ Others(p) /\ KeepsBut(proc[p], proc'[p]) /\ proc'[p].at = "issueNext"
    BY <1>0, <1>7, IssueMark_Does
  <2>2. bill[B(p)].status = "PAID" /\ proc[p].back = "idle"
    BY <1>0, <1>b, <2>1 DEF Stands, Backs
  <2>3. Unopened'
    BY <1>0, <2>1 DEF Unopened, Of, SalesOn
  <2> QED BY <1>0, <1>b, <2>1, <2>2, <2>3, Ends_Stands, GoesTo_Stands
<1> QED BY <1>1, <1>2, <1>3, <1>4, <1>5, <1>6, <1>7 DEF PayStep

LEMMA ReverseStep_Stands ==
    ASSUME NEW p \in Tills, AloneInv(p), ReverseStep(p)
    PROVE  Stands(proc[p])' /\ Unopened' /\ Others(p)
<1>0. /\ BillTypes /\ Stands(proc[p]) /\ Unopened /\ Backs(proc[p]) /\ Fit(proc[p])
      /\ proc[p].back \in {"idle", "payReread", "splitNext"}
  BY Here, ProcFields_Typed DEF AloneInv, Stands
<1>b. B(p) = proc[p].b
  BY DEF B
<1>s. proc[p].at \in BillPlaces \ {"splitNext"} => bill[B(p)].status # "NONE"
  BY <1>0, <1>b DEF Stands
<1>1. CASE UndoDelete(p)
  <2>1. /\ proc[p].at = "undoDelete" /\ B(p) \in Bills
        /\ pays' = pays \ {r \in pays : r.id = proc[p].pay}
        /\ GoesTo(p, "undoStatus") \/ Ends(p, proc[p].catch)
        /\ UNCHANGED <<bill, sale>>
    BY <1>0, <1>1, UndoDelete_Does
  <2>2. bill[B(p)].status # "NONE" /\ proc[p].back = "idle"
    BY <1>0, <1>s, <2>1 DEF Backs, BillPlaces
  <2>3. Unopened'
    BY <1>0, <2>1 DEF Unopened, Of, SalesOn
  <2> QED BY <1>0, <1>b, <2>1, <2>2, <2>3, Ends_Stands, GoesTo_Stands DEF GoesTo
<1>2. ASSUME UndoStatus(p) \/ VoidOrder(p) \/ ReopenOrder(p)
      PROVE  Stands(proc[p])' /\ Unopened' /\ Others(p)
  <2>1. /\ proc[p].at \in {"undoStatus", "void", "reopen"} /\ B(p) \in Bills /\ OnlyBill(B(p))
        /\ bill'[B(p)].status \in {"OPEN", "VOID"}
        /\ Ends(p, proc[p].then) /\ UNCHANGED <<pays, sale>>
    BY <1>0, <1>2, UndoStatus_Does, VoidOrder_Does, ReopenOrder_Does
  <2>2. proc[p].back = "idle"
    BY <1>0, <2>1 DEF Backs
  <2>3. Unopened'
    BY <1>0, <2>1 DEF Unopened, Of, SalesOn, OnlyBill
  <2> QED BY <1>0, <2>1, <2>2, <2>3, Ends_Stands
<1>3. CASE Refund(p)
  <2>1. PICK r : /\ proc[p].at = "refund" /\ B(p) \in Bills
                 /\ GoesTo(p, "refundCards") \/ Ends(p, proc[p].then)
                 /\ NewRow(r) /\ r.bill = B(p) /\ UNCHANGED <<bill, sale>>
    BY <1>0, <1>3, Refund_Does
  <2>2. bill[B(p)].status \in {"OPEN", "PAID"} /\ proc[p].back = "idle"
    BY <1>0, <1>b, <2>1 DEF Stands, Backs
  <2>3. Unopened'
    BY <1>0, <2>1, <2>2, Unopened_Row DEF NewRow
  <2> QED BY <1>0, <1>b, <2>1, <2>2, <2>3, GoesTo_Stands, Ends_Stands DEF GoesTo
<1>4. CASE RefundCards(p)
  <2>1. /\ proc[p].at = "refundCards" /\ Ends(p, proc[p].then) /\ UNCHANGED <<bill, pays>>
        /\ \A s \in Sales : sale'[s].on = sale[s].on
    BY <1>0, <1>4, RefundCards_Does
  <2>2. proc[p].back = "idle"
    BY <1>0, <2>1 DEF Backs
  <2>3. Unopened'
    BY <1>0, <2>1 DEF Unopened, Of, SalesOn
  <2> QED BY <1>0, <2>1, <2>2, <2>3, Ends_Stands
<1> QED BY <1>1, <1>2, <1>3, <1>4 DEF ReverseStep

\* Whatever the one till does, what it read stands.
LEMMA Step_Stands ==
    ASSUME NEW p \in Tills, AloneInv(p), StepOf(p)
    PROVE  Alone(p)' /\ Stands(proc[p])' /\ Unopened' /\ Others(p)
<1>1. Stands(proc[p])' /\ Unopened' /\ Others(p)
  BY RingUp_Stands, SettleUp_Stands, LineStep_Stands, PayStep_Stands, ReverseStep_Stands DEF StepOf
<1> QED BY <1>1, Alone_Keeps DEF AloneInv

\* What a step of the one till may do to rows, and to bills that are void.
Steady(p) ==
    /\ pays' = pays /\ proc'[p].at # "undoStatus"
    /\ \A b \in Bills : bill[b].status = "VOID" => bill'[b].status = "VOID"

NewHere(p) ==
    /\ \E r : NewRow(r) /\ r.bill = proc[p].b /\ r.ref = proc[p].ref
    /\ proc[p].b \in Bills /\ bill[proc[p].b].status \in {"OPEN", "PAID"} /\ UNCHANGED bill
    /\ proc[p].at \in {"record", "refund"}
    /\ proc'[p].at \in {"status", "refundCards", "idle", "booked", "paid", "notBooked"}

LEMMA Ends_Places ==
    ASSUME BillTypes, NEW p \in Tills, NEW w \in {proc[p].then, proc[p].catch, proc[p].back}, Ends(p, w)
    PROVE  /\ proc'[p].at \in {"idle", "booked", "paid", "notBooked", "payReread", "splitNext"}
           /\ w # proc[p].back => proc'[p].at \in {"idle", "booked", "paid", "notBooked"}
<1>1. /\ proc[p].then \in {"idle", "booked", "paid"} /\ proc[p].catch \in {"idle", "notBooked"}
      /\ proc[p].back \in {"idle", "payReread", "splitNext"}
  BY Here, ProcFields_Typed
<1> QED BY <1>1, Idle_Fields DEF Ends, Rests, GoesTo

LEMMA Quiet_Steady ==
    ASSUME NEW p \in Tills, UNCHANGED <<bill, pays>>, proc'[p].at # "undoStatus"
    PROVE  Steady(p)
BY DEF Steady

LEMMA Head_Steady ==
    ASSUME NEW p \in Tills, NEW b \in Bills, OnlyBill(b), UNCHANGED pays, proc'[p].at # "undoStatus",
           bill[b].status = "VOID" => bill'[b].status = "VOID"
    PROVE  Steady(p)
BY DEF Steady, OnlyBill

LEMMA RingUp_Sorts ==
    ASSUME BillTypes, NEW p \in Tills, RingUp(p)
    PROVE  Steady(p)
<1>1. ASSUME NEW b \in Bills, CreateOrder(p, b) PROVE Steady(p)
  <2>1. proc[p].at = "idle" /\ bill[b].status = "NONE" /\ OnlyBill(b) /\ UNCHANGED <<pays, proc>>
    BY <1>1, CreateOrder_Does
  <2> QED BY <2>1, Head_Steady
<1>2. ASSUME NEW b \in Bills, NEW goods \in 0..MaxGoods, SetLinesRead(p, b, goods) PROVE Steady(p)
  BY <1>2, SetLinesRead_Does, Quiet_Steady DEF Asks, billVars
<1>3. ASSUME NEW b \in Bills, AddGiftCardSaleRead(p, b) PROVE Steady(p)
  <2>1. Asks(p, "addSale", b) /\ UNCHANGED <<bill, pays>>
    BY <1>3, Begin_Does DEF AddGiftCardSaleRead, billVars
  <2> QED BY <2>1, Quiet_Steady DEF Asks
<1>4. ASSUME NEW b \in Bills, SplitRead(p, b) PROVE Steady(p)
  BY <1>4, SplitRead_Does, Quiet_Steady DEF Asks, billVars
<1>5. ASSUME NEW b \in Bills, NEW source \in Bills, MergeRead(p, b, source) PROVE Steady(p)
  BY <1>5, MergeRead_Does, Quiet_Steady DEF Asks, billVars
<1>6. ASSUME NEW s \in Sales, RemoveGiftCardSaleRead(p, s) PROVE Steady(p)
  BY <1>6, RemoveGiftCardSaleRead_Does, Quiet_Steady DEF Asks, billVars
<1> QED BY <1>1, <1>2, <1>3, <1>4, <1>5, <1>6 DEF RingUp

LEMMA SettleUp_Sorts ==
    ASSUME BillTypes, NEW p \in Tills, SettleUp(p)
    PROVE  Steady(p)
<1>1. ASSUME NEW b \in Bills, NEW method \in TillTenders, NEW want \in 0..MaxGoods,
             NEW tip \in 0..MaxTip, PayOrder(p, b, method, want, tip)
      PROVE  Steady(p)
  <2>1. UNCHANGED <<bill, pays>> /\ (Rests(p) \/ Paying(p, b))
    BY <1>1, PayOrder_Does DEF billVars
  <2>2. proc'[p].at # "undoStatus"
    BY <2>1, Idle_Fields DEF Rests, Paying, DecidedOn
  <2> QED BY <2>1, <2>2, Quiet_Steady
<1>2. ASSUME NEW b \in Bills, NEW method \in {"CASH", "REFUND"}, NEW want \in 0..MaxGoods,
             RefundOrder(p, b, method, want)
      PROVE  Steady(p)
  BY <1>2, RefundOrder_Does, Idle_Fields, Quiet_Steady DEF Rests, Asks, billVars
<1>3. ASSUME NEW b \in Bills, VoidRead(p, b) \/ ReopenRead(p, b) PROVE Steady(p)
  <2>1. (Asks(p, "void", b) \/ Asks(p, "reopen", b)) /\ UNCHANGED <<bill, pays>>
    BY <1>3, Begin_Does DEF VoidRead, ReopenRead, billVars
  <2> QED BY <2>1, Quiet_Steady DEF Asks
<1>4. ASSUME NEW r \in pays, UndoRead(p, r) PROVE Steady(p)
  BY <1>4, UndoRead_Does, Quiet_Steady DEF Asks, billVars
<1> QED BY <1>1, <1>2, <1>3, <1>4 DEF SettleUp

LEMMA LineStep_Sorts ==
    ASSUME BillTypes, NEW p \in Tills, Stands(proc[p]), LineStep(p)
    PROVE  Steady(p) \/ MergeOrders(p)
<1>1. CASE SetLines(p)
  BY <1>1, SetLines_Does, Head_Steady DEF GoesTo, SameHead
<1>2. ASSUME NEW s \in Sales, AddGiftCardSale(p, s) PROVE Steady(p)
  BY <1>2, AddGiftCardSale_Does, Quiet_Steady DEF GoesTo
<1>3. CASE RemoveGiftCardSale(p)
  BY <1>3, RemoveGiftCardSale_Does, Quiet_Steady, Ends_Places
<1>4. CASE SyncRead(p)
  BY <1>4, SyncRead_Does, Quiet_Steady DEF billVars
<1>5. CASE SyncClear(p)
  BY <1>5, SyncClear_Does, Head_Steady DEF GoesTo, SameHead
<1>6. CASE SyncCreate(p)
  BY <1>6, SyncCreate_Does, Head_Steady DEF SameHead
<1>7. CASE RecomputeRead(p)
  BY <1>7, RecomputeRead_Does, Quiet_Steady DEF billVars
<1>8. CASE RecomputeWrite(p)
  BY <1>8, RecomputeWrite_Does, Head_Steady, Ends_Places
<1>9. ASSUME NEW c \in Bills, SplitChild(p, c) PROVE Steady(p)
  BY <1>9, SplitChild_Does, Head_Steady
<1>10. CASE SplitVoid(p)
  BY <1>10, SplitVoid_Does, Head_Steady, Ends_Places
<1> QED BY <1>1, <1>2, <1>3, <1>4, <1>5, <1>6, <1>7, <1>8, <1>9, <1>10 DEF LineStep

LEMMA PayStep_Sorts ==
    ASSUME BillTypes, NEW p \in Tills, Stands(proc[p]), PayStep(p)
    PROVE  Steady(p) \/ NewHere(p)
<1>b. B(p) = proc[p].b /\ proc[p].catch \in {"idle", "notBooked"}
  BY Here, ProcFields_Typed DEF B
<1>1. CASE PayReread(p)
  <2>1. /\ UNCHANGED <<bill, pays>>
        /\ \/ proc'[p] = IdleProc
           \/ proc'[p].at = proc[p].catch
           \/ DecidedOn(p, B(p))
    BY <1>1, PayReread_Does DEF billVars
  <2>2. proc'[p].at # "undoStatus"
    BY <1>b, <2>1, Idle_Fields DEF DecidedOn
  <2> QED BY <2>1, <2>2, Quiet_Steady
<1>2. CASE Debit(p)
  BY <1>2, Debit_Does, Quiet_Steady, Ends_Places DEF GoesTo
<1>3. CASE Record(p)
  <2>1. PICK r : /\ proc[p].at = "record" /\ B(p) \in Bills /\ GoesTo(p, "status")
                 /\ NewRow(r) /\ r.bill = B(p) /\ r.ref = proc[p].ref /\ UNCHANGED bill
    BY <1>3, Record_Does
  <2>2. bill[B(p)].status = "OPEN"
    BY <1>b, <2>1 DEF Stands
  <2> QED BY <1>b, <2>1, <2>2 DEF NewHere, GoesTo
<1>4. CASE SetStatus(p)
  <2>1. /\ proc[p].at = "status" /\ B(p) \in Bills /\ OnlyBill(B(p)) /\ UNCHANGED pays
        /\ GoesTo(p, "issueList") \/ Ends(p, proc[p].then)
    BY <1>4, SetStatus_Does
  <2>2. bill[B(p)].status = "OPEN"
    BY <1>b, <2>1 DEF Stands
  <2> QED BY <2>1, <2>2, Head_Steady, Ends_Places DEF GoesTo
<1>5. CASE IssueList(p)
  BY <1>5, IssueList_Does, Quiet_Steady, Ends_Places DEF billVars
<1>6. ASSUME NEW s \in Sales, IssueNext(p, s) PROVE Steady(p)
  <2>1. /\ UNCHANGED <<bill, pays>>
        /\ Ends(p, proc[p].then) \/ proc'[p].at \in {"issueNext", "issueMark"}
    BY <1>6, IssueNext_Does
  <2> QED BY <2>1, Quiet_Steady, Ends_Places
<1>7. CASE IssueMark(p)
  <2>1. UNCHANGED <<bill, pays>> /\ (Ends(p, proc[p].then) \/ proc'[p].at = "issueNext")
    BY <1>7, IssueMark_Does
  <2> QED BY <2>1, Quiet_Steady, Ends_Places
<1> QED BY <1>1, <1>2, <1>3, <1>4, <1>5, <1>6, <1>7 DEF PayStep

LEMMA ReverseStep_Sorts ==
    ASSUME BillTypes, NEW p \in Tills, Stands(proc[p]), ReverseStep(p)
    PROVE  Steady(p) \/ NewHere(p) \/ UndoDelete(p) \/ UndoStatus(p)
<1>b. B(p) = proc[p].b
  BY DEF B
<1>1. CASE VoidOrder(p)
  BY <1>1, VoidOrder_Does, Head_Steady, Ends_Places
<1>2. CASE ReopenOrder(p)
  <2>1. /\ proc[p].at = "reopen" /\ B(p) \in Bills /\ OnlyBill(B(p)) /\ UNCHANGED pays
        /\ Ends(p, proc[p].then)
    BY <1>2, ReopenOrder_Does
  <2>2. bill[B(p)].status = "PAID"
    BY <1>b, <2>1 DEF Stands
  <2> QED BY <2>1, <2>2, Head_Steady, Ends_Places
<1>3. CASE Refund(p)
  <2>1. PICK r : /\ proc[p].at = "refund" /\ B(p) \in Bills
                 /\ GoesTo(p, "refundCards") \/ Ends(p, proc[p].then)
                 /\ NewRow(r) /\ r.bill = B(p) /\ r.ref = proc[p].ref /\ UNCHANGED bill
    BY <1>3, Refund_Does
  <2>2. bill[B(p)].status \in {"OPEN", "PAID"}
    BY <1>b, <2>1 DEF Stands
  <2>3. proc'[p].at \in {"refundCards", "idle", "booked", "paid", "notBooked"} \/ proc[p].then = proc[p].back
    BY <2>1, Ends_Places DEF GoesTo
  <2>4. proc[p].back = "idle"
    BY <2>1, Here, ProcFields_Typed DEF Stands, Backs
  <2>5. proc'[p].at \in {"refundCards", "idle", "booked", "paid", "notBooked"}
    BY <2>1, <2>3, <2>4, Idle_Fields DEF Ends, Rests, GoesTo
  <2> QED BY <1>b, <2>1, <2>2, <2>5 DEF NewHere
<1>4. CASE RefundCards(p)
  BY <1>4, RefundCards_Does, Quiet_Steady, Ends_Places
<1> QED BY <1>1, <1>2, <1>3, <1>4 DEF ReverseStep

LEMMA Step_Sorts ==
    ASSUME BillTypes, NEW p \in Tills, Stands(proc[p]), StepOf(p)
    PROVE  Steady(p) \/ NewHere(p) \/ UndoDelete(p) \/ UndoStatus(p) \/ MergeOrders(p)
BY RingUp_Sorts, SettleUp_Sorts, LineStep_Sorts, PayStep_Sorts, ReverseStep_Sorts DEF StepOf

-----------------------------------------------------------------------------
(* What a step does to the rows and the sales of a bill *)

LEMMA Of_Typed ==
    ASSUME BillTypes, NEW b
    PROVE  /\ Of(b) \subseteq pays /\ IsFiniteSet(Of(b))
           /\ \A r \in Of(b) : r \in PaymentRecord /\ r.amt \in Int /\ r.tip \in Int
           /\ Collected(b) \in Int
<1>1. Of(b) \subseteq pays /\ {r \in Of(b) : r.amt > 0} \subseteq pays
  BY DEF Of
<1>2. \A r \in Of(b) : r \in PaymentRecord
  BY <1>1 DEF BillTypes, TypeOK
<1> QED BY <1>1, <1>2, Rows_Sum DEF Collected, PaymentRecord

\* What is collected is at least what is paid, refunds included.
LEMMA Collected_Least ==
    ASSUME BillTypes, NEW b
    PROVE  Collected(b) >= Paid(Of(b))
<1> DEFINE S == Of(b)
           P == {r \in S : r.amt > 0}
           f == [r \in S |-> r.amt]
           g == [r \in S |-> IF r.amt > 0 THEN r.amt ELSE 0]
           h == [r \in P |-> r.amt]
<1>1. IsFiniteSet(S) /\ IsFiniteSet(P) /\ P \in SUBSET S /\ S \in SUBSET S
  BY Of_Typed, FS_Subset
<1>2. \A r \in S : r.amt \in Int
  BY Of_Typed
<1>3. /\ \A r \in S : f[r] \in Int /\ g[r] \in Int /\ f[r] <= g[r]
      /\ \A r \in S \ P : g[r] = 0
      /\ \A r \in P : g[r] = h[r]
  BY <1>2
<1>4. Paid(Of(b)) = SumFunctionOnSet(f, S) /\ Collected(b) = SumFunctionOnSet(h, P)
  BY DEF Paid, Collected
<1> HIDE DEF f, g, h, P, S
<1>5. SumFunctionOnSet(f, S) <= SumFunctionOnSet(g, S)
  BY <1>1, <1>3, SumAtMost
<1>6. SumFunctionOnSet(g, P) = SumFunctionOnSet(g, S)
  BY <1>1, <1>3, SumRelevant
<1>7. SumFunctionOnSet(g, P) = SumFunctionOnSet(h, P)
  BY <1>1, <1>3, SumSame
<1>8. SumFunctionOnSet(f, S) \in Int /\ SumFunctionOnSet(g, S) \in Int
  BY <1>1, <1>3, SumType
<1> QED BY <1>4, <1>5, <1>6, <1>7, <1>8

\* A row more on a bill.
LEMMA Row_Here ==
    ASSUME BillTypes, NEW r, NewRow(r)
    PROVE  /\ Of(r.bill)' = Of(r.bill) \cup {r}
           /\ Paid(Of(r.bill))' = Paid(Of(r.bill)) + r.amt
           /\ Taken(r.bill)' = Taken(r.bill) + r.amt + r.tip
           /\ Collected(r.bill)' = IF r.amt > 0 THEN Collected(r.bill) + r.amt ELSE Collected(r.bill)
<1> DEFINE b == r.bill
           S == Of(b)
           P == {x \in S : x.amt > 0}
           T == S \cup {r}
<1>1. r \in PaymentRecord /\ r \notin pays /\ pays' = pays \cup {r}
  BY DEF NewRow
<1>2. r.amt \in Int /\ r.tip \in Int /\ r \notin S /\ r \notin P
  BY <1>1 DEF PaymentRecord, Of
<1>3. Of(r.bill)' = T
  BY <1>1 DEF Of
<1>4. /\ IsFiniteSet(S) /\ IsFiniteSet(P)
      /\ \A x \in S \cup {r} : x.amt \in Int /\ x.tip \in Int
      /\ \A x \in P \cup {r} : x.amt \in Int /\ x.tip \in Int
      /\ Paid(S) \in Int /\ Tips(S) \in Int
  BY <1>2, Of_Typed, Bill_Sums, FS_Subset
<1>5. Paid(T) = Paid(S) + r.amt /\ Tips(T) = Tips(S) + r.tip
  <2> HIDE DEF S
  <2> QED BY <1>2, <1>4, Paid_Add
<1>6. Taken(b) = Paid(S) + Tips(S) /\ Collected(b) = Paid(P)
  BY DEF Taken, Collected
<1>7. Paid(P \cup {r}) = Paid(P) + r.amt
  <2> HIDE DEF P
  <2> QED BY <1>2, <1>4, Paid_Add
<1>8. IF r.amt > 0 THEN {x \in T : x.amt > 0} = P \cup {r} ELSE {x \in T : x.amt > 0} = P
  BY <1>2
<1>9. Paid(Of(r.bill))' = Paid(T) /\ Taken(r.bill)' = Paid(T) + Tips(T) /\ Collected(r.bill)' = Paid({x \in T : x.amt > 0})
  BY <1>1, <1>3 DEF Taken, Collected, Paid, Tips
<1> DEFINE Q == {x \in T : x.amt > 0}
<1>10. Collected(r.bill)' = Paid(Q)
  BY <1>9
<1>11. IF r.amt > 0 THEN Q = P \cup {r} ELSE Q = P
  BY <1>8
<1> HIDE DEF P, Q
<1>12. Collected(r.bill)' = IF r.amt > 0 THEN Collected(b) + r.amt ELSE Collected(b)
  BY <1>6, <1>7, <1>10, <1>11
<1>13. Taken(r.bill)' = Taken(b) + r.amt + r.tip
  <2> HIDE DEF S, T
  <2> QED BY <1>2, <1>4, <1>5, <1>6, <1>9
<1> QED BY <1>3, <1>5, <1>9, <1>12, <1>13

\* The rows of the other bills.
SameRows(c) ==
    /\ Of(c)' = Of(c) /\ Paid(Of(c))' = Paid(Of(c)) /\ Taken(c)' = Taken(c)
    /\ Collected(c)' = Collected(c)

LEMMA Rows_Same ==
    ASSUME NEW c, Of(c)' = Of(c)
    PROVE  SameRows(c)
BY DEF SameRows, Paid, Tips, Taken, Collected

LEMMA Pays_Same ==
    ASSUME NEW c, UNCHANGED pays
    PROVE  SameRows(c)
<1>1. Of(c)' = Of(c)
  BY DEF Of
<1> QED BY <1>1, Rows_Same

LEMMA Row_Elsewhere ==
    ASSUME NEW r, NewRow(r), NEW c, c # r.bill
    PROVE  SameRows(c)
<1>1. Of(c)' = Of(c)
  BY DEF Of, NewRow
<1> QED BY <1>1, Rows_Same

LEMMA Undo_Elsewhere ==
    ASSUME BillTypes, NEW n, pays' = pays \ {r \in pays : r.id = n}, NEW b,
           \E r \in pays : r.id = n /\ r.bill = b, NEW c, c # b
    PROVE  SameRows(c)
<1>1. \A r \in pays : r.id = n => r.bill = b
  BY DEF BillTypes, RowIds
<1>2. Of(c)' = Of(c)
  BY <1>1 DEF Of
<1> QED BY <1>2, Rows_Same

LEMMA Merge_Elsewhere ==
    ASSUME BillTypes, NEW t \in Bills, NEW s \in Bills, t # s, MovedRows(t, s)
    PROVE  /\ \A c \in Bills \ {t, s} : SameRows(c)
           /\ Of(s)' = {}
<1>1. PICK h : /\ pays' = {h[r] : r \in pays}
               /\ \A r \in pays : /\ h[r] \in PaymentRecord
                                  /\ h[r].bill = IF r.bill = s THEN t ELSE r.bill
  BY Merge_Map
<1>2. Of(s)' = {}
  BY <1>1 DEF Of
<1>3. ASSUME NEW c \in Bills \ {t, s} PROVE SameRows(c)
  <2>1. \A r \in pays : r.bill # s => (IF r.bill = s THEN [r EXCEPT !.bill = t] ELSE r) = r
    OBVIOUS
  <2>2. \A r \in Of(c) : r \in pays'
    BY <2>1 DEF Of, MovedRows
  <2>3. \A r \in pays' : r.bill = c => r \in pays
    <3> SUFFICES ASSUME NEW r \in pays', r.bill = c PROVE r \in pays
      OBVIOUS
    <3>1. PICK x \in pays : r = IF x.bill = s THEN [x EXCEPT !.bill = t] ELSE x
      BY DEF MovedRows
    <3>2. CASE x.bill = s
      <4>1. x \in PaymentRecord
        BY DEF BillTypes, TypeOK
      <4>2. r.bill = t
        BY <3>1, <3>2, <4>1 DEF PaymentRecord
      <4> QED BY <4>2
    <3> QED BY <3>1, <3>2
  <2>4. Of(c)' = Of(c)
    BY <2>2, <2>3 DEF Of
  <2> QED BY <2>4, Rows_Same
<1> QED BY <1>2, <1>3

LEMMA Sales_Typed ==
    ASSUME NEW b
    PROVE  IsFiniteSet(SalesOn(b)) /\ Cardinality(SalesOn(b)) \in Nat
<1>1. IsFiniteSet(SalesOn(b))
  BY PosBillAssumption, FS_Subset DEF SalesOn
<1> QED BY <1>1, FS_CardinalityType

LEMMA Sales_Fewer ==
    ASSUME NEW b, SalesOn(b)' \subseteq SalesOn(b)
    PROVE  Cardinality(SalesOn(b)') <= Cardinality(SalesOn(b)) /\ Cardinality(SalesOn(b)') \in Nat
<1> DEFINE S == SalesOn(b)
           T == SalesOn(b)'
<1>1. IsFiniteSet(S) /\ T \in SUBSET S
  BY Sales_Typed
<1> HIDE DEF S, T
<1>2. IsFiniteSet(T) /\ Cardinality(T) <= Cardinality(S)
  BY <1>1, FS_Subset
<1>3. Cardinality(T) \in Nat
  BY <1>2, FS_CardinalityType
<1> QED BY <1>2, <1>3 DEF S, T

-----------------------------------------------------------------------------
(* A bill totals its lines, with one till at work *)

\* The steps between a change of the lines and the new total.
InEdit(q) == q.at \in {"syncRead", "syncClear", "syncCreate", "recRead", "recWrite"}

Sized(b) ==
    /\ bill[b].total = bill[b].goods + bill[b].gifts
    /\ Cardinality(SalesOn(b)) <= bill[b].gifts

\* Bills that somebody pays, may pay or has paid for.
InUse(b) == bill[b].status \in {"OPEN", "PAID"} \/ Of(b) # {}

LinesInv(q) ==
    /\ \A b \in Bills : InUse(b) => Sized(b) \/ (InEdit(q) /\ b = q.b)
    /\ q.at = "syncClear" => q.todo = SalesOn(q.b)
    /\ q.at = "syncCreate" => q.todo = SalesOn(q.b) /\ bill[q.b].gifts = 0
    /\ q.at \in {"recRead", "recWrite"} => Cardinality(SalesOn(q.b)) <= bill[q.b].gifts
    /\ q.at = "recWrite" => q.sum = bill[q.b].goods + bill[q.b].gifts
    /\ q.at = "undoStatus" => Sized(q.b)

\* Every bill in use totals its lines, and nobody is half way through one.
LEMMA Lines_Calm ==
    ASSUME NEW p \in Tills, ~InEdit(proc'[p]), proc'[p].at # "undoStatus",
           \A b \in Bills : InUse(b)' => Sized(b)'
    PROVE  LinesInv(proc[p])'
BY DEF LinesInv, InEdit

LEMMA Lines_Still ==
    ASSUME NEW p \in Tills, LinesInv(proc[p]), ~InEdit(proc[p]), ~InEdit(proc'[p]),
           proc'[p].at # "undoStatus", UNCHANGED bill, \A b \in Bills : Of(b)' # {} => InUse(b),
           \A b \in Bills : SalesOn(b)' = SalesOn(b)
    PROVE  LinesInv(proc[p])'
<1>1. \A b \in Bills : InUse(b)' => Sized(b)'
  BY DEF LinesInv, InUse, Sized
<1> QED BY <1>1, Lines_Calm

LEMMA Lines_Same ==
    ASSUME NEW p \in Tills, LinesInv(proc[p]), ~InEdit(proc[p]), ~InEdit(proc'[p]),
           proc'[p].at # "undoStatus", UNCHANGED <<bill, pays, sale>>
    PROVE  LinesInv(proc[p])'
<1>1. \A b \in Bills : Of(b)' = Of(b) /\ SalesOn(b)' = SalesOn(b)
  BY DEF Of, SalesOn
<1> QED BY <1>1, Lines_Still DEF InUse

\* One bill changes and is sized when it is used.
LEMMA Lines_One ==
    ASSUME NEW p \in Tills, LinesInv(proc[p]), NEW b \in Bills, OnlyBill(b), UNCHANGED <<pays, sale>>,
           InEdit(proc[p]) => proc[p].b = b,
           InUse(b)' => Sized(b)', ~InEdit(proc'[p]), proc'[p].at # "undoStatus"
    PROVE  LinesInv(proc[p])'
<1>1. \A c \in Bills : c # b => (InUse(c)' => Sized(c)')
  BY DEF LinesInv, InUse, Sized, OnlyBill, Of, SalesOn
<1> QED BY <1>1, Lines_Calm

\* One bill changes and is still being edited.
LEMMA Lines_Edit ==
    ASSUME NEW p \in Tills, LinesInv(proc[p]), NEW b \in Bills, OnlyBill(b), UNCHANGED <<pays, sale>>,
           InEdit(proc[p]) => proc[p].b = b, InEdit(proc'[p]), proc'[p].b = b
    PROVE  \A c \in Bills : InUse(c)' => Sized(c)' \/ (InEdit(proc[p])' /\ c = proc'[p].b)
BY DEF LinesInv, InUse, Sized, OnlyBill, Of, SalesOn, InEdit

LEMMA RingUp_Lines ==
    ASSUME NEW p \in Tills, AloneInv(p), LinesInv(proc[p]), RingUp(p)
    PROVE  LinesInv(proc[p])'
<1>0. BillTypes /\ Unopened
  BY DEF AloneInv
<1>1. ASSUME NEW b \in Bills, CreateOrder(p, b) PROVE LinesInv(proc[p])'
  <2>1. /\ proc[p].at = "idle" /\ bill[b].status = "NONE" /\ OnlyBill(b)
        /\ bill'[b].goods = bill[b].goods /\ bill'[b].gifts = bill[b].gifts /\ bill'[b].total = bill[b].total
        /\ UNCHANGED <<pays, sale, proc>>
    BY <1>0, <1>1, CreateOrder_Does
  <2>2. bill'[b].goods = 0 /\ bill'[b].gifts = 0 /\ bill'[b].total = 0 /\ SalesOn(b)' = {}
    BY <1>0, <2>1 DEF Unopened, SalesOn
  <2>3. Sized(b)'
    BY <2>2, FS_EmptySet DEF Sized
  <2> QED BY <2>1, <2>3, Lines_One DEF InEdit
<1>2. ASSUME NEW b \in Bills, NEW goods \in 0..MaxGoods, SetLinesRead(p, b, goods) PROVE LinesInv(proc[p])'
  BY <1>0, <1>2, SetLinesRead_Does, Lines_Same DEF Asks, billVars, InEdit
<1>3. ASSUME NEW b \in Bills, AddGiftCardSaleRead(p, b) PROVE LinesInv(proc[p])'
  BY <1>0, <1>3, Begin_Does, Lines_Same DEF AddGiftCardSaleRead, Asks, billVars, InEdit
<1>4. ASSUME NEW b \in Bills, SplitRead(p, b) PROVE LinesInv(proc[p])'
  BY <1>0, <1>4, SplitRead_Does, Lines_Same DEF Asks, billVars, InEdit
<1>5. ASSUME NEW b \in Bills, NEW source \in Bills, MergeRead(p, b, source) PROVE LinesInv(proc[p])'
  BY <1>0, <1>5, MergeRead_Does, Lines_Same DEF Asks, billVars, InEdit
<1>6. ASSUME NEW s \in Sales, RemoveGiftCardSaleRead(p, s) PROVE LinesInv(proc[p])'
  BY <1>0, <1>6, RemoveGiftCardSaleRead_Does, Lines_Same DEF Asks, billVars, InEdit
<1> QED BY <1>1, <1>2, <1>3, <1>4, <1>5, <1>6 DEF RingUp

LEMMA SettleUp_Lines ==
    ASSUME NEW p \in Tills, AloneInv(p), LinesInv(proc[p]), SettleUp(p)
    PROVE  LinesInv(proc[p])'
<1>0. BillTypes
  BY DEF AloneInv
<1>1. ASSUME NEW b \in Bills, NEW method \in TillTenders, NEW want \in 0..MaxGoods,
             NEW tip \in 0..MaxTip, PayOrder(p, b, method, want, tip)
      PROVE  LinesInv(proc[p])'
  <2>1. proc[p].at = "idle" /\ UNCHANGED <<bill, pays, sale>> /\ (Rests(p) \/ Paying(p, b))
    BY <1>0, <1>1, PayOrder_Does DEF billVars
  <2>2. CASE Rests(p)
    BY <2>1, <2>2, Idle_Fields, Lines_Same DEF Rests, InEdit
  <2>3. CASE Paying(p, b) /\ proc'[p].at # "recRead"
    BY <2>1, <2>3, Lines_Same DEF Paying, DecidedOn, InEdit
  <2>4. CASE Paying(p, b) /\ proc'[p].at = "recRead"
    <3>1. proc'[p].b = b /\ bill[b].status = "OPEN"
      BY <2>4 DEF Paying
    <3>2. Sized(b)
      BY <2>1, <3>1 DEF LinesInv, InUse, InEdit
    <3>3. OnlyBill(b)
      BY <2>1 DEF OnlyBill
    <3>4. \A c \in Bills : InUse(c)' => Sized(c)' \/ (InEdit(proc[p])' /\ c = proc'[p].b)
      BY <2>1, <2>4, <3>1, <3>3, Lines_Edit DEF InEdit
    <3>5. Cardinality(SalesOn(b)') <= bill'[b].gifts
      BY <2>1, <3>2 DEF Sized, SalesOn
    <3> QED BY <2>4, <3>1, <3>4, <3>5 DEF LinesInv, SalesOn
  <2> QED BY <2>1, <2>2, <2>3, <2>4
<1>2. ASSUME NEW b \in Bills, NEW method \in {"CASH", "REFUND"}, NEW want \in 0..MaxGoods,
             RefundOrder(p, b, method, want)
      PROVE  LinesInv(proc[p])'
  <2>1. proc[p].at = "idle" /\ UNCHANGED <<bill, pays, sale>> /\ (Rests(p) \/ Asks(p, "refund", b))
    BY <1>0, <1>2, RefundOrder_Does DEF billVars
  <2> QED BY <2>1, Idle_Fields, Lines_Same DEF Rests, Asks, InEdit
<1>3. ASSUME NEW b \in Bills, VoidRead(p, b) PROVE LinesInv(proc[p])'
  BY <1>0, <1>3, Begin_Does, Lines_Same DEF VoidRead, Asks, billVars, InEdit
<1>4. ASSUME NEW b \in Bills, ReopenRead(p, b) PROVE LinesInv(proc[p])'
  BY <1>0, <1>4, Begin_Does, Lines_Same DEF ReopenRead, Asks, billVars, InEdit
<1>5. ASSUME NEW r \in pays, UndoRead(p, r) PROVE LinesInv(proc[p])'
  BY <1>0, <1>5, UndoRead_Does, Lines_Same DEF Asks, billVars, InEdit
<1> QED BY <1>1, <1>2, <1>3, <1>4, <1>5 DEF SettleUp

LEMMA LineStep_Lines ==
    ASSUME NEW p \in Tills, AloneInv(p), LinesInv(proc[p]), LineStep(p)
    PROVE  LinesInv(proc[p])'
<1>0. BillTypes /\ Stands(proc[p]) /\ Unopened /\ B(p) = proc[p].b
  BY DEF AloneInv, B
<1>t. /\ bill \in [Bills -> BillRecord]
      /\ \A b \in Bills : bill[b].goods \in Nat /\ bill[b].gifts \in Nat /\ bill[b].total \in Nat
  BY <1>0, Here DEF BillRecord
<1>1. CASE SetLines(p)
  <2>1. /\ proc[p].at = "setLines" /\ GoesTo(p, "syncRead") /\ B(p) \in Bills /\ OnlyBill(B(p))
        /\ UNCHANGED <<pays, sale>>
    BY <1>0, <1>1, SetLines_Does
  <2>2. proc'[p].at = "syncRead" /\ proc'[p].b = B(p)
    BY <1>0, <2>1 DEF GoesTo, Keeps
  <2>3. \A c \in Bills : InUse(c)' => Sized(c)' \/ (InEdit(proc[p])' /\ c = proc'[p].b)
    BY <2>1, <2>2, Lines_Edit DEF InEdit
  <2> QED BY <2>2, <2>3 DEF LinesInv
<1>2. ASSUME NEW s \in Sales, AddGiftCardSale(p, s) PROVE LinesInv(proc[p])'
  <2>1. /\ proc[p].at = "addSale" /\ GoesTo(p, "syncRead") /\ B(p) \in Bills /\ Unsold(s)
        /\ \A x \in Sales : x # s => sale'[x] = sale[x]
        /\ sale'[s].on = B(p) /\ UNCHANGED <<bill, pays>>
    BY <1>0, <1>2, AddGiftCardSale_Does
  <2>2. proc'[p].at = "syncRead" /\ proc'[p].b = B(p)
    BY <1>0, <2>1 DEF GoesTo, Keeps
  <2>3. \A c \in Bills : c # B(p) => SalesOn(c)' = SalesOn(c)
    BY <2>1, PosBillAssumption DEF SalesOn, Unsold
  <2>4. \A c \in Bills : c # B(p) => (InUse(c)' => Sized(c)')
    BY <2>1, <2>3 DEF LinesInv, InUse, Sized, Of, InEdit
  <2> QED BY <2>2, <2>4 DEF LinesInv, InEdit
<1>3. CASE RemoveGiftCardSale(p)
  <2>1. /\ proc[p].at = "removeSale" /\ B(p) \in Bills /\ UNCHANGED <<bill, pays>>
        /\ \/ Ends(p, proc[p].catch) /\ UNCHANGED sale
           \/ /\ \E s \in proc[p].todo : /\ s \in Sales /\ sale'[s] = NoSaleYet
                                         /\ \A x \in Sales : x # s => sale'[x] = sale[x]
              /\ KeepsBut(proc[p], proc'[p]) /\ proc'[p].at = "syncRead"
    BY <1>0, <1>3, RemoveGiftCardSale_Does
  <2>2. CASE Ends(p, proc[p].catch) /\ UNCHANGED sale
    <3>1. proc[p].catch # proc[p].back \/ proc[p].catch = "idle"
      BY <1>0, Here, ProcFields_Typed
    <3>2. ~InEdit(proc'[p]) /\ proc'[p].at # "undoStatus"
      BY <1>0, <2>2, Ends_Places DEF InEdit
    <3> QED BY <2>1, <2>2, <3>2, Lines_Same DEF InEdit
  <2>3. CASE proc'[p].at = "syncRead"
    <3>1. PICK s \in Sales : sale'[s] = NoSaleYet /\ \A x \in Sales : x # s => sale'[x] = sale[x]
      BY <1>0, <2>1, <2>3, Here, Ends_Places
    <3>2. \A c \in Bills : SalesOn(c)' \subseteq SalesOn(c)
      BY <3>1, PosBillAssumption DEF SalesOn, NoSaleYet
    <3>3. ASSUME NEW c \in Bills, InUse(c)' PROVE Sized(c)'
      <4>1. Sized(c)
        BY <2>1, <3>3 DEF LinesInv, InUse, InEdit, Of
      <4>2. Cardinality(SalesOn(c)') <= Cardinality(SalesOn(c)) /\ Cardinality(SalesOn(c)') \in Nat
        BY <3>2, Sales_Fewer
      <4>3. Cardinality(SalesOn(c)) \in Nat /\ bill[c].gifts \in Nat
        BY <1>t, Sales_Typed
      <4>4. Cardinality(SalesOn(c)') <= bill[c].gifts
        BY <4>1, <4>2, <4>3 DEF Sized
      <4> QED BY <2>1, <4>1, <4>4 DEF Sized
    <3> QED BY <2>3, <3>3 DEF LinesInv
  <2> QED BY <2>1, <2>2, <2>3
<1>4. CASE SyncRead(p)
  <2>1. /\ proc[p].at = "syncRead" /\ B(p) \in Bills /\ UNCHANGED <<bill, pays, sale>>
        /\ proc'[p].b = B(p) /\ proc'[p].at = "syncClear" /\ proc'[p].todo = SalesOn(B(p))
    BY <1>0, <1>4, SyncRead_Does DEF KeepsBut, billVars
  <2>2. \A c \in Bills : InUse(c)' => Sized(c)' \/ (InEdit(proc[p])' /\ c = proc'[p].b)
    BY <1>0, <2>1, Lines_Edit DEF InEdit, OnlyBill
  <2>3. proc'[p].todo = SalesOn(proc[p].b)'
    BY <1>0, <2>1 DEF SalesOn
  <2> QED BY <1>0, <2>1, <2>2, <2>3 DEF LinesInv
<1>5. CASE SyncClear(p)
  <2>1. /\ proc[p].at = "syncClear" /\ B(p) \in Bills /\ OnlyBill(B(p)) /\ bill'[B(p)].gifts = 0
        /\ UNCHANGED <<pays, sale>>
        /\ IF proc[p].todo = {} THEN GoesTo(p, "recRead") ELSE GoesTo(p, "syncCreate")
    BY <1>0, <1>5, SyncClear_Does
  <2>2. /\ proc'[p].b = B(p) /\ proc'[p].todo = proc[p].todo
        /\ proc'[p].at = IF proc[p].todo = {} THEN "recRead" ELSE "syncCreate"
    BY <1>0, <2>1 DEF GoesTo, Keeps
  <2>3. \A c \in Bills : InUse(c)' => Sized(c)' \/ (InEdit(proc[p])' /\ c = proc'[p].b)
    BY <1>0, <2>1, <2>2, Lines_Edit DEF InEdit
  <2>b. PICK b \in Bills : b = B(p)
    BY <2>1
  <2>4. proc[p].todo = SalesOn(b)'
    BY <1>0, <2>1, <2>b DEF LinesInv, SalesOn
  <2>5. proc[p].todo = {} => Cardinality(SalesOn(b)') <= bill'[b].gifts
    BY <1>0, <2>1, <2>b, <2>4, FS_EmptySet
  <2> QED BY <1>0, <2>1, <2>b, <2>2, <2>3, <2>4, <2>5 DEF LinesInv, SalesOn
<1>6. CASE SyncCreate(p)
  <2>1. /\ proc[p].at = "syncCreate" /\ B(p) \in Bills /\ OnlyBill(B(p)) /\ UNCHANGED <<pays, sale>>
        /\ bill'[B(p)].gifts = bill[B(p)].gifts + Cardinality(proc[p].todo)
        /\ proc'[p].b = B(p) /\ proc'[p].at = "recRead"
    BY <1>0, <1>6, SyncCreate_Does DEF KeepsBut
  <2>2. \A c \in Bills : InUse(c)' => Sized(c)' \/ (InEdit(proc[p])' /\ c = proc'[p].b)
    BY <1>0, <2>1, Lines_Edit DEF InEdit
  <2>3. proc[p].todo = SalesOn(proc[p].b) /\ bill[B(p)].gifts = 0
    BY <1>0, <2>1 DEF LinesInv
  <2>b. PICK b \in Bills : b = B(p)
    BY <2>1
  <2>4. SalesOn(b)' = SalesOn(b) /\ proc[p].todo = SalesOn(b)
    BY <1>0, <2>1, <2>b, <2>3 DEF SalesOn
  <2>5. bill'[b].gifts = Cardinality(SalesOn(b))
    BY <2>1, <2>b, <2>3, <2>4, Sales_Typed
  <2>6. Cardinality(SalesOn(b)') <= bill'[b].gifts
    BY <2>4, <2>5, Sales_Typed
  <2> QED BY <1>0, <2>1, <2>b, <2>2, <2>6 DEF LinesInv, SalesOn
<1>7. CASE RecomputeRead(p)
  <2>1. /\ proc[p].at = "recRead" /\ B(p) \in Bills /\ UNCHANGED <<bill, pays, sale>>
        /\ proc'[p].b = B(p) /\ proc'[p].at = "recWrite"
        /\ proc'[p].sum = bill[B(p)].goods + bill[B(p)].gifts
    BY <1>0, <1>7, RecomputeRead_Does DEF KeepsBut, billVars
  <2>2. \A c \in Bills : InUse(c)' => Sized(c)' \/ (InEdit(proc[p])' /\ c = proc'[p].b)
    BY <1>0, <2>1, Lines_Edit DEF InEdit, OnlyBill
  <2>3. Cardinality(SalesOn(proc[p].b)') <= bill'[proc[p].b].gifts
    BY <1>0, <2>1 DEF LinesInv, SalesOn
  <2> QED BY <1>0, <2>1, <2>2, <2>3 DEF LinesInv
<1>8. CASE RecomputeWrite(p)
  <2>1. /\ proc[p].at = "recWrite" /\ B(p) \in Bills /\ OnlyBill(B(p)) /\ SameLines(B(p))
        /\ bill'[B(p)].total = proc[p].sum /\ Ends(p, proc[p].back) /\ UNCHANGED <<pays, sale>>
    BY <1>0, <1>8, RecomputeWrite_Does
  <2>b. PICK b \in Bills : b = B(p)
    BY <2>1
  <2>2. Sized(b)'
    <3>1. proc[p].sum = bill[b].goods + bill[b].gifts /\ Cardinality(SalesOn(b)) <= bill[b].gifts
      BY <1>0, <2>1, <2>b DEF LinesInv
    <3> QED BY <2>1, <2>b, <3>1 DEF Sized, SameLines, SalesOn
  <2>3. ~InEdit(proc'[p]) /\ proc'[p].at # "undoStatus"
    BY <1>0, <2>1, Ends_Places DEF InEdit
  <2> QED BY <1>0, <2>1, <2>b, <2>2, <2>3, Lines_One
<1>9. CASE MergeOrders(p)
  <2> DEFINE s == proc[p].other
  <2>1. /\ proc[p].at = "merge" /\ B(p) \in Bills /\ s \in Bills /\ B(p) # s
        /\ GoesTo(p, "recRead") /\ MovedRows(B(p), s)
        /\ \A c \in Bills \ {B(p), s} : bill'[c] = bill[c]
        /\ bill'[B(p)].gifts = bill[B(p)].gifts + bill[s].gifts
        /\ bill'[s].status = "VOID" /\ UNCHANGED sale
    BY <1>0, <1>9, MergeOrders_Does
  <2>2. /\ proc'[p].at = "recRead" /\ proc'[p].b = B(p)
    BY <1>0, <2>1 DEF GoesTo, Keeps
  <2>3. PICK t \in Bills : t = B(p)
    BY <2>1
  <2>4. PICK u \in Bills : u = s
    BY <2>1
  <2>5. (\A c \in Bills \ {t, u} : SameRows(c)) /\ Of(u)' = {}
    BY <1>0, <2>1, <2>3, <2>4, Merge_Elsewhere
  <2>6. \A c \in Bills \ {t, u} : InUse(c)' => Sized(c)'
    BY <2>1, <2>3, <2>4, <2>5 DEF LinesInv, InEdit, InUse, Sized, SameRows, SalesOn
  <2>7. ~InUse(u)'
    BY <2>1, <2>4, <2>5 DEF InUse
  <2>8. Sized(t)
    BY <1>0, <2>1, <2>3 DEF Stands, LinesInv, InUse, InEdit
  <2>9. Cardinality(SalesOn(t)') <= bill'[t].gifts
    <3>1. SalesOn(t)' = SalesOn(t)
      BY <2>1 DEF SalesOn
    <3>2. Cardinality(SalesOn(t)) \in Nat
      BY Sales_Typed
    <3> QED BY <1>t, <2>1, <2>3, <2>4, <2>8, <3>1, <3>2 DEF Sized
  <2> QED BY <2>2, <2>3, <2>6, <2>7, <2>9 DEF LinesInv, InEdit, SalesOn
<1>10. ASSUME NEW c \in Bills, SplitChild(p, c) PROVE LinesInv(proc[p])'
  <2>1. /\ proc[p].at = "splitNext" /\ bill[c].status = "NONE" /\ OnlyBill(c)
        /\ bill'[c].gifts = bill[c].gifts /\ proc'[p].at = "recRead" /\ proc'[p].b = c
        /\ UNCHANGED <<pays, sale>>
    BY <1>0, <1>10, SplitChild_Does
  <2>2. \A d \in Bills : InUse(d)' => Sized(d)' \/ (InEdit(proc[p])' /\ d = proc'[p].b)
    BY <2>1, Lines_Edit DEF InEdit
  <2>3. SalesOn(c)' = {} /\ bill'[c].gifts = 0
    BY <1>0, <2>1 DEF Unopened, SalesOn
  <2>4. Cardinality(SalesOn(c)') <= bill'[c].gifts
    BY <2>3, FS_EmptySet
  <2> QED BY <2>1, <2>2, <2>4 DEF LinesInv, SalesOn
<1>11. CASE SplitVoid(p)
  <2>1. /\ proc[p].at = "splitNext" /\ proc[p].other \in Bills /\ OnlyBill(proc[p].other)
        /\ bill'[proc[p].other].status = "VOID" /\ Ends(p, proc[p].then) /\ UNCHANGED <<pays, sale>>
    BY <1>0, <1>11, SplitVoid_Does
  <2>2. PICK o \in Bills : o = proc[p].other
    BY <2>1
  <2>3. ~InUse(o)'
    BY <1>0, <2>1, <2>2 DEF InUse, Stands, Of
  <2>4. ~InEdit(proc'[p]) /\ proc'[p].at # "undoStatus"
    BY <1>0, <2>1, Ends_Places DEF InEdit
  <2> QED BY <2>1, <2>2, <2>3, <2>4, Lines_One DEF InEdit
<1> QED BY <1>1, <1>2, <1>3, <1>4, <1>5, <1>6, <1>7, <1>8, <1>9, <1>10, <1>11 DEF LineStep

LEMMA PayStep_Lines ==
    ASSUME NEW p \in Tills, AloneInv(p), LinesInv(proc[p]), PayStep(p)
    PROVE  LinesInv(proc[p])'
<1>0. BillTypes /\ Stands(proc[p]) /\ B(p) = proc[p].b
  BY DEF AloneInv, B
<1>e. \A w \in {proc[p].then, proc[p].catch} : Ends(p, w) => ~InEdit(proc'[p]) /\ proc'[p].at # "undoStatus"
  BY <1>0, Ends_Places DEF InEdit
<1>1. CASE PayReread(p)
  <2>1. /\ proc[p].at = "payReread" /\ UNCHANGED <<bill, pays, sale>>
        /\ proc'[p] = IdleProc \/ proc'[p].at = proc[p].catch \/ DecidedOn(p, B(p))
    BY <1>0, <1>1, PayReread_Does DEF billVars
  <2>2. ~InEdit(proc'[p]) /\ proc'[p].at # "undoStatus"
    BY <1>0, <2>1, Here, ProcFields_Typed, Idle_Fields DEF InEdit, DecidedOn
  <2> QED BY <2>1, <2>2, Lines_Same DEF InEdit
<1>2. CASE Debit(p)
  BY <1>0, <1>2, <1>e, Debit_Does, Lines_Same DEF GoesTo, InEdit
<1>3. CASE Record(p)
  <2>1. /\ proc[p].at = "record" /\ B(p) \in Bills /\ GoesTo(p, "status") /\ UNCHANGED <<bill, sale>>
        /\ \E r : NewRow(r) /\ r.bill = B(p)
    BY <1>0, <1>3, Record_Does
  <2>2. bill[B(p)].status = "OPEN"
    BY <1>0, <2>1 DEF Stands
  <2>3. \A b \in Bills : Of(b)' # {} => InUse(b)
    BY <2>1, <2>2 DEF InUse, Of, NewRow
  <2> QED BY <2>1, <2>3, Lines_Still DEF GoesTo, InEdit, SalesOn
<1>4. CASE SetStatus(p)
  <2>1. /\ proc[p].at = "status" /\ B(p) \in Bills /\ OnlyBill(B(p)) /\ SameLines(B(p))
        /\ bill'[B(p)].total = bill[B(p)].total /\ UNCHANGED <<pays, sale>>
        /\ GoesTo(p, "issueList") \/ Ends(p, proc[p].then)
    BY <1>0, <1>4, SetStatus_Does
  <2>2. PICK b \in Bills : b = B(p)
    BY <2>1
  <2>3. Sized(b)
    BY <1>0, <2>1, <2>2 DEF Stands, LinesInv, InUse, InEdit
  <2>4. Sized(b)'
    BY <2>1, <2>2, <2>3 DEF Sized, SameLines, SalesOn
  <2>5. ~InEdit(proc'[p]) /\ proc'[p].at # "undoStatus"
    BY <1>e, <2>1 DEF GoesTo, InEdit
  <2> QED BY <2>1, <2>2, <2>4, <2>5, Lines_One DEF InEdit
<1>5. CASE IssueList(p)
  BY <1>0, <1>5, <1>e, IssueList_Does, Lines_Same DEF InEdit, billVars
<1>6. ASSUME NEW s \in Sales, IssueNext(p, s) PROVE LinesInv(proc[p])'
  BY <1>0, <1>6, <1>e, IssueNext_Does, Lines_Same DEF InEdit
<1>7. CASE IssueMark(p)
  <2>1. /\ proc[p].at = "issueMark" /\ UNCHANGED <<bill, pays>>
        /\ \A s \in Sales : sale'[s].on = sale[s].on
        /\ Ends(p, proc[p].then) \/ proc'[p].at = "issueNext"
    BY <1>0, <1>7, IssueMark_Does
  <2>2. \A b \in Bills : SalesOn(b)' = SalesOn(b) /\ (Of(b)' # {} => InUse(b))
    BY <2>1 DEF SalesOn, InUse, Of
  <2> QED BY <1>e, <2>1, <2>2, Lines_Still DEF InEdit
<1> QED BY <1>1, <1>2, <1>3, <1>4, <1>5, <1>6, <1>7 DEF PayStep

LEMMA ReverseStep_Lines ==
    ASSUME NEW p \in Tills, AloneInv(p), LinesInv(proc[p]), ReverseStep(p)
    PROVE  LinesInv(proc[p])'
<1>0. BillTypes /\ Stands(proc[p]) /\ B(p) = proc[p].b
  BY DEF AloneInv, B
<1>e. \A w \in {proc[p].then, proc[p].catch} : Ends(p, w) => ~InEdit(proc'[p]) /\ proc'[p].at # "undoStatus"
  BY <1>0, Ends_Places DEF InEdit
<1>1. CASE UndoDelete(p)
  <2>1. /\ proc[p].at = "undoDelete" /\ B(p) \in Bills /\ pays' \subseteq pays /\ UNCHANGED <<bill, sale>>
        /\ GoesTo(p, "undoStatus") \/ Ends(p, proc[p].catch)
    BY <1>0, <1>1, UndoDelete_Does
  <2>2. \A b \in Bills : (InUse(b)' => InUse(b)) /\ SalesOn(b)' = SalesOn(b)
    BY <2>1 DEF InUse, Of, SalesOn
  <2>3. \A b \in Bills : InUse(b) => Sized(b)'
    BY <2>1, <2>2 DEF LinesInv, InEdit, Sized
  <2>4. InUse(B(p))
    BY <1>0, <2>1 DEF Stands, InUse, Of
  <2>5. CASE GoesTo(p, "undoStatus")
    <3>1. proc'[p].at = "undoStatus" /\ proc'[p].b = B(p)
      BY <1>0, <2>5 DEF GoesTo, Keeps
    <3>2. PICK b \in Bills : b = B(p)
      BY <2>1
    <3>3. Sized(b)'
      BY <2>3, <2>4, <3>2
    <3> QED BY <2>2, <2>3, <3>1, <3>2, <3>3 DEF LinesInv, Sized, SalesOn
  <2>6. CASE Ends(p, proc[p].catch)
    BY <1>e, <2>2, <2>3, <2>6, Lines_Calm
  <2> QED BY <2>1, <2>5, <2>6
<1>2. CASE UndoStatus(p)
  <2>1. /\ proc[p].at = "undoStatus" /\ B(p) \in Bills /\ OnlyBill(B(p)) /\ SameLines(B(p))
        /\ bill'[B(p)].total = bill[B(p)].total /\ Ends(p, proc[p].then) /\ UNCHANGED <<pays, sale>>
    BY <1>0, <1>2, UndoStatus_Does
  <2>2. PICK b \in Bills : b = B(p)
    BY <2>1
  <2>3. Sized(b)
    BY <1>0, <2>1, <2>2 DEF LinesInv
  <2>4. Sized(b)'
    BY <2>1, <2>2, <2>3 DEF Sized, SameLines, SalesOn
  <2> QED BY <1>e, <2>1, <2>2, <2>4, Lines_One DEF InEdit
<1>3. CASE VoidOrder(p) \/ ReopenOrder(p)
  <2>1. /\ proc[p].at \in {"void", "reopen"} /\ B(p) \in Bills /\ OnlyBill(B(p)) /\ SameLines(B(p))
        /\ bill'[B(p)].total = bill[B(p)].total /\ Ends(p, proc[p].then) /\ UNCHANGED <<pays, sale>>
    BY <1>0, <1>3, VoidOrder_Does, ReopenOrder_Does
  <2>2. PICK b \in Bills : b = B(p)
    BY <2>1
  <2>3. Sized(b)
    BY <1>0, <2>1, <2>2 DEF Stands, LinesInv, InUse, InEdit
  <2>4. Sized(b)'
    BY <2>1, <2>2, <2>3 DEF Sized, SameLines, SalesOn
  <2> QED BY <1>e, <2>1, <2>2, <2>4, Lines_One DEF InEdit
<1>4. CASE Refund(p)
  <2>1. /\ proc[p].at = "refund" /\ B(p) \in Bills /\ UNCHANGED <<bill, sale>>
        /\ \E r : NewRow(r) /\ r.bill = B(p)
        /\ GoesTo(p, "refundCards") \/ Ends(p, proc[p].then)
    BY <1>0, <1>4, Refund_Does
  <2>2. bill[B(p)].status \in {"OPEN", "PAID"}
    BY <1>0, <2>1 DEF Stands
  <2>3. \A b \in Bills : Of(b)' # {} => InUse(b)
    BY <2>1, <2>2 DEF InUse, Of, NewRow
  <2> QED BY <1>e, <2>1, <2>3, Lines_Still DEF GoesTo, InEdit, SalesOn
<1>5. CASE RefundCards(p)
  <2>1. /\ proc[p].at = "refundCards" /\ Ends(p, proc[p].then) /\ UNCHANGED <<bill, pays>>
        /\ \A s \in Sales : sale'[s].on = sale[s].on
    BY <1>0, <1>5, RefundCards_Does
  <2>2. \A b \in Bills : SalesOn(b)' = SalesOn(b) /\ (Of(b)' # {} => InUse(b))
    BY <2>1 DEF SalesOn, InUse, Of
  <2> QED BY <1>e, <2>1, <2>2, Lines_Still DEF InEdit
<1> QED BY <1>1, <1>2, <1>3, <1>4, <1>5 DEF ReverseStep

LEMMA Step_Lines ==
    ASSUME NEW p \in Tills, AloneInv(p), LinesInv(proc[p]), StepOf(p)
    PROVE  LinesInv(proc[p])'
BY RingUp_Lines, SettleUp_Lines, LineStep_Lines, PayStep_Lines, ReverseStep_Lines DEF StepOf

-----------------------------------------------------------------------------
(* What a handler decided on is still right, with one till at work *)

Deciding == {"debit", "record", "status", "refund"}

MoneyInv(q) ==
    /\ q.at \in {"debit", "record"} =>
          q.amt >= 0 /\ (q.settle => q.amt >= bill[q.b].total - Paid(Of(q.b)))
    /\ q.at = "status" /\ q.settle => Paid(Of(q.b)) >= bill[q.b].total
    /\ q.at = "refund" => q.amt <= Taken(q.b) /\ q.tips <= q.amt

LEMMA Money_Elsewhere ==
    ASSUME NEW p \in Tills, proc'[p].at \notin Deciding
    PROVE  MoneyInv(proc[p])'
BY DEF MoneyInv, Deciding

LEMMA Money_Decided ==
    ASSUME NEW p \in Tills, NEW b \in Bills, proc'[p].b = b, DecidedOn(p, b), UNCHANGED <<bill, pays>>
    PROVE  MoneyInv(proc[p])'
<1>1. Paid(Of(b))' = Paid(Of(b))
  BY Pays_Same DEF SameRows
<1> QED BY <1>1 DEF DecidedOn, MoneyInv

LEMMA RingUp_Money ==
    ASSUME BillTypes, NEW p \in Tills, RingUp(p)
    PROVE  proc'[p].at \notin Deciding
<1>1. ASSUME NEW b \in Bills, CreateOrder(p, b) PROVE proc'[p].at = "idle"
  BY <1>1, CreateOrder_Does
<1>2. ASSUME NEW b \in Bills, NEW goods \in 0..MaxGoods, SetLinesRead(p, b, goods)
      PROVE  proc'[p].at = "setLines"
  BY <1>2, SetLinesRead_Does DEF Asks
<1>3. ASSUME NEW b \in Bills, AddGiftCardSaleRead(p, b) PROVE proc'[p].at = "addSale"
  BY <1>3, Begin_Does DEF AddGiftCardSaleRead, Asks
<1>4. ASSUME NEW b \in Bills, SplitRead(p, b) PROVE proc'[p].at = "splitNext"
  BY <1>4, SplitRead_Does DEF Asks
<1>5. ASSUME NEW b \in Bills, NEW source \in Bills, MergeRead(p, b, source) PROVE proc'[p].at = "merge"
  BY <1>5, MergeRead_Does DEF Asks
<1>6. ASSUME NEW s \in Sales, RemoveGiftCardSaleRead(p, s) PROVE proc'[p].at = "removeSale"
  BY <1>6, RemoveGiftCardSaleRead_Does DEF Asks
<1> QED BY <1>1, <1>2, <1>3, <1>4, <1>5, <1>6 DEF RingUp, Deciding

LEMMA SettleUp_Money ==
    ASSUME BillTypes, NEW p \in Tills, SettleUp(p)
    PROVE  MoneyInv(proc[p])'
<1>1. ASSUME NEW b \in Bills, NEW method \in TillTenders, NEW want \in 0..MaxGoods,
             NEW tip \in 0..MaxTip, PayOrder(p, b, method, want, tip)
      PROVE  MoneyInv(proc[p])'
  <2>1. UNCHANGED <<bill, pays>> /\ (Rests(p) \/ Paying(p, b))
    BY <1>1, PayOrder_Does DEF billVars
  <2>2. CASE Rests(p) \/ proc'[p].at = "recRead"
    BY <2>2, Money_Elsewhere, Idle_Fields DEF Rests, Deciding
  <2>3. CASE Paying(p, b) /\ proc'[p].at # "recRead"
    BY <2>1, <2>3, Money_Decided DEF Paying
  <2> QED BY <2>1, <2>2, <2>3
<1>2. ASSUME NEW b \in Bills, NEW method \in {"CASH", "REFUND"}, NEW want \in 0..MaxGoods,
             RefundOrder(p, b, method, want)
      PROVE  MoneyInv(proc[p])'
  <2>1. /\ UNCHANGED pays
        /\ \/ Rests(p)
           \/ /\ Asks(p, "refund", b) /\ proc'[p].amt <= Taken(b) /\ proc'[p].tips <= proc'[p].amt
    BY <1>2, RefundOrder_Does DEF billVars
  <2>2. CASE Rests(p)
    BY <2>2, Money_Elsewhere, Idle_Fields DEF Rests, Deciding
  <2>3. CASE Asks(p, "refund", b) /\ proc'[p].amt <= Taken(b) /\ proc'[p].tips <= proc'[p].amt
    <3>1. Taken(b)' = Taken(b)
      BY <2>1, Pays_Same DEF SameRows
    <3> QED BY <2>3, <3>1 DEF MoneyInv, Asks
  <2> QED BY <2>1, <2>2, <2>3
<1>3. ASSUME NEW b \in Bills, VoidRead(p, b) PROVE proc'[p].at \notin Deciding
  BY <1>3, Begin_Does DEF VoidRead, Asks, Deciding
<1>4. ASSUME NEW b \in Bills, ReopenRead(p, b) PROVE proc'[p].at \notin Deciding
  BY <1>4, Begin_Does DEF ReopenRead, Asks, Deciding
<1>5. ASSUME NEW r \in pays, UndoRead(p, r) PROVE proc'[p].at \notin Deciding
  BY <1>5, UndoRead_Does DEF Asks, Deciding
<1> QED BY <1>1, <1>2, <1>3, <1>4, <1>5, Money_Elsewhere DEF SettleUp

LEMMA LineStep_Money ==
    ASSUME BillTypes, NEW p \in Tills, LineStep(p)
    PROVE  proc'[p].at \notin Deciding
<1>e. \A w \in {proc[p].then, proc[p].catch, proc[p].back} : Ends(p, w) => proc'[p].at \notin Deciding
  BY Ends_Places DEF Deciding
<1>1. CASE SetLines(p)
  BY <1>1, SetLines_Does DEF GoesTo, Deciding
<1>2. ASSUME NEW s \in Sales, AddGiftCardSale(p, s) PROVE proc'[p].at \notin Deciding
  BY <1>2, AddGiftCardSale_Does DEF GoesTo, Deciding
<1>3. CASE RemoveGiftCardSale(p)
  BY <1>e, <1>3, RemoveGiftCardSale_Does DEF Deciding
<1>4. CASE SyncRead(p)
  BY <1>4, SyncRead_Does DEF Deciding
<1>5. CASE SyncClear(p)
  BY <1>5, SyncClear_Does DEF GoesTo, Deciding
<1>6. CASE SyncCreate(p)
  BY <1>6, SyncCreate_Does DEF Deciding
<1>7. CASE RecomputeRead(p)
  BY <1>7, RecomputeRead_Does DEF Deciding
<1>8. CASE RecomputeWrite(p)
  BY <1>e, <1>8, RecomputeWrite_Does
<1>9. CASE MergeOrders(p)
  BY <1>9, MergeOrders_Does DEF GoesTo, Deciding
<1>10. ASSUME NEW c \in Bills, SplitChild(p, c) PROVE proc'[p].at \notin Deciding
  BY <1>10, SplitChild_Does DEF Deciding
<1>11. CASE SplitVoid(p)
  BY <1>e, <1>11, SplitVoid_Does
<1> QED BY <1>1, <1>2, <1>3, <1>4, <1>5, <1>6, <1>7, <1>8, <1>9, <1>10, <1>11 DEF LineStep

LEMMA PayStep_Money ==
    ASSUME BillTypes, NEW p \in Tills, MoneyInv(proc[p]), PayStep(p)
    PROVE  MoneyInv(proc[p])'
<1>0. B(p) = proc[p].b
  BY DEF B
<1>e. \A w \in {proc[p].then, proc[p].catch} : Ends(p, w) => proc'[p].at \notin Deciding
  BY Ends_Places DEF Deciding
<1>1. CASE PayReread(p)
  <2>1. /\ B(p) \in Bills /\ UNCHANGED <<bill, pays>>
        /\ \/ proc'[p] = IdleProc
           \/ /\ SameRequest(proc[p], proc'[p])
              /\ (proc[p].catch # "idle" /\ proc'[p].at = proc[p].catch) \/ DecidedOn(p, B(p))
    BY <1>1, PayReread_Does DEF billVars
  <2>2. CASE proc'[p] = IdleProc \/ (proc[p].catch # "idle" /\ proc'[p].at = proc[p].catch)
    <3>1. proc[p].catch \in {"idle", "notBooked"}
      BY Here, ProcFields_Typed
    <3> QED BY <2>2, <3>1, Money_Elsewhere, Idle_Fields DEF Deciding
  <2>3. CASE SameRequest(proc[p], proc'[p]) /\ DecidedOn(p, B(p))
    BY <1>0, <2>1, <2>3, Money_Decided DEF SameRequest
  <2> QED BY <2>1, <2>2, <2>3
<1>2. CASE Debit(p)
  <2>1. /\ proc[p].at = "debit" /\ B(p) \in Bills /\ UNCHANGED <<bill, pays>>
        /\ GoesTo(p, "record") \/ Ends(p, proc[p].catch)
    BY <1>2, Debit_Does
  <2>2. CASE GoesTo(p, "record")
    <3>1. PICK b \in Bills : b = B(p)
      BY <2>1
    <3>2. Paid(Of(b))' = Paid(Of(b))
      BY <2>1, Pays_Same DEF SameRows
    <3>3. /\ proc'[p].at = "record" /\ proc'[p].b = b /\ proc'[p].amt = proc[p].amt
          /\ proc'[p].settle = proc[p].settle
      BY <1>0, <2>2, <3>1 DEF GoesTo, Keeps
    <3> QED BY <1>0, <2>1, <3>1, <3>2, <3>3 DEF MoneyInv
  <2> QED BY <1>e, <2>1, <2>2, Money_Elsewhere
<1>3. CASE Record(p)
  <2>1. /\ proc[p].at = "record" /\ B(p) \in Bills /\ GoesTo(p, "status") /\ UNCHANGED bill
    BY <1>3, Record_Does
  <2>2. PICK r : NewRow(r) /\ r.bill = B(p) /\ r.amt = proc[p].amt
    BY <1>3, Record_Does
  <2>3. PICK b \in Bills : b = B(p)
    BY <2>1
  <2>4. r.bill = b /\ Paid(Of(r.bill))' = Paid(Of(r.bill)) + r.amt
    BY <2>2, <2>3, Row_Here
  <2>5. Paid(Of(b))' = Paid(Of(b)) + proc[p].amt
    BY <2>2, <2>4
  <2>6. Paid(Of(b)) \in Int /\ proc[p].amt \in Int /\ bill[b].total \in Int
    BY Bill_Sums, Here, ProcFields_Typed, <2>3 DEF BillRecord
  <2>7. proc'[p].at = "status" /\ proc'[p].b = b /\ proc'[p].settle = proc[p].settle
    BY <1>0, <2>1, <2>3 DEF GoesTo, Keeps
  <2>8. proc[p].settle => proc[p].amt >= bill[b].total - Paid(Of(b))
    BY <1>0, <2>1, <2>3 DEF MoneyInv
  <2>9. proc[p].settle => Paid(Of(b))' >= bill'[b].total
    BY <2>1, <2>5, <2>6, <2>8
  <2> QED BY <2>7, <2>9 DEF MoneyInv
<1>4. CASE SetStatus(p)
  <2>1. GoesTo(p, "issueList") \/ Ends(p, proc[p].then)
    BY <1>4, SetStatus_Does
  <2> QED BY <1>e, <2>1, Money_Elsewhere DEF GoesTo, Deciding
<1>5. CASE IssueList(p)
  BY <1>e, <1>5, IssueList_Does, Money_Elsewhere DEF Deciding
<1>6. ASSUME NEW s \in Sales, IssueNext(p, s) PROVE MoneyInv(proc[p])'
  BY <1>e, <1>6, IssueNext_Does, Money_Elsewhere DEF Deciding
<1>7. CASE IssueMark(p)
  <2>1. Ends(p, proc[p].then) \/ proc'[p].at = "issueNext"
    BY <1>7, IssueMark_Does
  <2> QED BY <1>e, <2>1, Money_Elsewhere DEF Deciding
<1> QED BY <1>1, <1>2, <1>3, <1>4, <1>5, <1>6, <1>7 DEF PayStep

LEMMA ReverseStep_Money ==
    ASSUME BillTypes, NEW p \in Tills, ReverseStep(p)
    PROVE  proc'[p].at \notin Deciding
<1>e. \A w \in {proc[p].then, proc[p].catch} : Ends(p, w) => proc'[p].at \notin Deciding
  BY Ends_Places DEF Deciding
<1>1. CASE UndoDelete(p)
  BY <1>e, <1>1, UndoDelete_Does DEF GoesTo, Deciding
<1>2. CASE UndoStatus(p)
  BY <1>e, <1>2, UndoStatus_Does
<1>3. CASE VoidOrder(p) \/ ReopenOrder(p)
  BY <1>e, <1>3, VoidOrder_Does, ReopenOrder_Does
<1>4. CASE Refund(p)
  <2>1. GoesTo(p, "refundCards") \/ Ends(p, proc[p].then)
    BY <1>4, Refund_Does
  <2> QED BY <1>e, <2>1 DEF GoesTo, Deciding
<1>5. CASE RefundCards(p)
  BY <1>e, <1>5, RefundCards_Does
<1> QED BY <1>1, <1>2, <1>3, <1>4, <1>5 DEF ReverseStep

LEMMA Step_Decided ==
    ASSUME BillTypes, NEW p \in Tills, MoneyInv(proc[p]), StepOf(p)
    PROVE  MoneyInv(proc[p])'
BY RingUp_Money, SettleUp_Money, LineStep_Money, PayStep_Money, ReverseStep_Money, Money_Elsewhere
   DEF StepOf

-----------------------------------------------------------------------------
(* A bill that counts as paid was covered, with one till at work *)

Covers(b) == Collected(b) >= bill[b].total

\* But for a bill whose payment was just deleted.  A bill that is paid changes
\* its lines only when a card that was never issued is taken off.
CoverInv(q) ==
    /\ \A b \in Bills : bill[b].status = "PAID" => Covers(b) \/ (q.at = "undoStatus" /\ b = q.b)
    /\ InEdit(q) /\ bill[q.b].status = "PAID" =>
          /\ bill[q.b].goods + Cardinality(SalesOn(q.b)) <= Collected(q.b)
          /\ q.at \in {"recRead", "recWrite"} => bill[q.b].goods + bill[q.b].gifts <= Collected(q.b)

LEMMA Cover_Calm ==
    ASSUME NEW p \in Tills, ~InEdit(proc'[p]),
           \A b \in Bills : bill'[b].status = "PAID" => Covers(b)'
    PROVE  CoverInv(proc[p])'
BY DEF CoverInv, InEdit

LEMMA Cover_Same ==
    ASSUME NEW p \in Tills, CoverInv(proc[p]), proc[p].at # "undoStatus", ~InEdit(proc'[p]),
           UNCHANGED <<bill, pays>>
    PROVE  CoverInv(proc[p])'
<1>1. \A b \in Bills : Covers(b)' <=> Covers(b)
  BY Pays_Same DEF Covers, SameRows
<1> QED BY <1>1, Cover_Calm DEF CoverInv

\* One bill changes, and is not paid or is covered.
LEMMA Cover_One ==
    ASSUME NEW p \in Tills, CoverInv(proc[p]), NEW b \in Bills, OnlyBill(b), UNCHANGED pays,
           proc[p].at = "undoStatus" => proc[p].b = b,
           bill'[b].status = "PAID" => Covers(b)', ~InEdit(proc'[p])
    PROVE  CoverInv(proc[p])'
<1>1. \A c \in Bills : c # b /\ bill'[c].status = "PAID" => Covers(c)'
  BY Pays_Same DEF CoverInv, Covers, SameRows, OnlyBill
<1> QED BY <1>1, Cover_Calm

\* One bill is being edited.
LEMMA Cover_Edit ==
    ASSUME NEW p \in Tills, CoverInv(proc[p]), NEW b \in Bills, OnlyBill(b), UNCHANGED pays,
           proc[p].at # "undoStatus", InEdit(proc'[p]), proc'[p].b = b,
           bill'[b].total = bill[b].total, bill'[b].status = bill[b].status,
           bill[b].status = "PAID" =>
              /\ bill'[b].goods + Cardinality(SalesOn(b)') <= Collected(b)
              /\ proc'[p].at \in {"recRead", "recWrite"} => bill'[b].goods + bill'[b].gifts <= Collected(b)
    PROVE  CoverInv(proc[p])'
<1>1. \A c \in Bills : bill'[c].status = "PAID" => Covers(c)'
  <2>1. \A c \in Bills : bill[c].status = "PAID" => Covers(c)
    BY DEF CoverInv
  <2> QED BY <2>1, Pays_Same DEF Covers, SameRows, OnlyBill
<1>2. Collected(b)' = Collected(b)
  BY Pays_Same DEF SameRows
<1> QED BY <1>1, <1>2 DEF CoverInv, SalesOn

LEMMA RingUp_Cover ==
    ASSUME NEW p \in Tills, AloneInv(p), CoverInv(proc[p]), RingUp(p)
    PROVE  CoverInv(proc[p])'
<1>0. BillTypes
  BY DEF AloneInv
<1>1. ASSUME NEW b \in Bills, CreateOrder(p, b) PROVE CoverInv(proc[p])'
  <2>1. /\ proc[p].at = "idle" /\ OnlyBill(b) /\ bill'[b].status = "OPEN" /\ UNCHANGED <<pays, proc>>
    BY <1>0, <1>1, CreateOrder_Does
  <2> QED BY <2>1, Cover_One DEF InEdit
<1>2. ASSUME NEW b \in Bills, NEW goods \in 0..MaxGoods, SetLinesRead(p, b, goods) PROVE CoverInv(proc[p])'
  BY <1>0, <1>2, SetLinesRead_Does, Cover_Same DEF Asks, billVars, InEdit
<1>3. ASSUME NEW b \in Bills, AddGiftCardSaleRead(p, b) PROVE CoverInv(proc[p])'
  BY <1>0, <1>3, Begin_Does, Cover_Same DEF AddGiftCardSaleRead, Asks, billVars, InEdit
<1>4. ASSUME NEW b \in Bills, SplitRead(p, b) PROVE CoverInv(proc[p])'
  BY <1>0, <1>4, SplitRead_Does, Cover_Same DEF Asks, billVars, InEdit
<1>5. ASSUME NEW b \in Bills, NEW source \in Bills, MergeRead(p, b, source) PROVE CoverInv(proc[p])'
  BY <1>0, <1>5, MergeRead_Does, Cover_Same DEF Asks, billVars, InEdit
<1>6. ASSUME NEW s \in Sales, RemoveGiftCardSaleRead(p, s) PROVE CoverInv(proc[p])'
  BY <1>0, <1>6, RemoveGiftCardSaleRead_Does, Cover_Same DEF Asks, billVars, InEdit
<1> QED BY <1>1, <1>2, <1>3, <1>4, <1>5, <1>6 DEF RingUp

LEMMA SettleUp_Cover ==
    ASSUME NEW p \in Tills, AloneInv(p), CoverInv(proc[p]), SettleUp(p)
    PROVE  CoverInv(proc[p])'
<1>0. BillTypes
  BY DEF AloneInv
<1>1. ASSUME NEW b \in Bills, NEW method \in TillTenders, NEW want \in 0..MaxGoods,
             NEW tip \in 0..MaxTip, PayOrder(p, b, method, want, tip)
      PROVE  CoverInv(proc[p])'
  <2>1. proc[p].at = "idle" /\ UNCHANGED <<bill, pays, sale>> /\ (Rests(p) \/ Paying(p, b))
    BY <1>0, <1>1, PayOrder_Does DEF billVars
  <2>2. CASE Rests(p)
    BY <2>1, <2>2, Idle_Fields, Cover_Same DEF Rests, InEdit
  <2>3. CASE Paying(p, b) /\ proc'[p].at # "recRead"
    BY <2>1, <2>3, Cover_Same DEF Paying, DecidedOn, InEdit
  <2>4. CASE Paying(p, b) /\ proc'[p].at = "recRead"
    <3>1. proc'[p].b = b /\ bill[b].status = "OPEN" /\ OnlyBill(b) /\ InEdit(proc'[p])
      BY <2>1, <2>4 DEF Paying, OnlyBill, InEdit
    <3> QED BY <2>1, <3>1, Cover_Edit
  <2> QED BY <2>1, <2>2, <2>3, <2>4
<1>2. ASSUME NEW b \in Bills, NEW method \in {"CASH", "REFUND"}, NEW want \in 0..MaxGoods,
             RefundOrder(p, b, method, want)
      PROVE  CoverInv(proc[p])'
  <2>1. proc[p].at = "idle" /\ UNCHANGED <<bill, pays, sale>> /\ (Rests(p) \/ Asks(p, "refund", b))
    BY <1>0, <1>2, RefundOrder_Does DEF billVars
  <2> QED BY <2>1, Idle_Fields, Cover_Same DEF Rests, Asks, InEdit
<1>3. ASSUME NEW b \in Bills, VoidRead(p, b) PROVE CoverInv(proc[p])'
  BY <1>0, <1>3, Begin_Does, Cover_Same DEF VoidRead, Asks, billVars, InEdit
<1>4. ASSUME NEW b \in Bills, ReopenRead(p, b) PROVE CoverInv(proc[p])'
  BY <1>0, <1>4, Begin_Does, Cover_Same DEF ReopenRead, Asks, billVars, InEdit
<1>5. ASSUME NEW r \in pays, UndoRead(p, r) PROVE CoverInv(proc[p])'
  BY <1>0, <1>5, UndoRead_Does, Cover_Same DEF Asks, billVars, InEdit
<1> QED BY <1>1, <1>2, <1>3, <1>4, <1>5 DEF SettleUp

LEMMA LineStep_Cover ==
    ASSUME NEW p \in Tills, AloneInv(p), LinesInv(proc[p]), CoverInv(proc[p]), LineStep(p)
    PROVE  CoverInv(proc[p])'
<1>0. BillTypes /\ Stands(proc[p]) /\ B(p) = proc[p].b
  BY DEF AloneInv, B
<1>t. /\ bill \in [Bills -> BillRecord]
      /\ \A b \in Bills : /\ bill[b].goods \in Nat /\ bill[b].gifts \in Nat /\ bill[b].total \in Nat
                          /\ Collected(b) \in Int /\ Cardinality(SalesOn(b)) \in Nat
  BY <1>0, Here, Of_Typed, Sales_Typed DEF BillRecord
<1>e. \A w \in {proc[p].then, proc[p].catch, proc[p].back} : Ends(p, w) => ~InEdit(proc'[p])
  BY <1>0, Ends_Places DEF InEdit
<1>1. CASE SetLines(p)
  <2>1. /\ proc[p].at = "setLines" /\ GoesTo(p, "syncRead") /\ B(p) \in Bills /\ OnlyBill(B(p))
        /\ SameHead(B(p)) /\ UNCHANGED <<pays, sale>>
    BY <1>0, <1>1, SetLines_Does
  <2>2. PICK b \in Bills : b = B(p)
    BY <2>1
  <2>3. proc'[p].b = b /\ InEdit(proc'[p]) /\ bill[b].status = "OPEN"
    BY <1>0, <2>1, <2>2 DEF GoesTo, Keeps, InEdit, Stands
  <2> QED BY <2>1, <2>2, <2>3, Cover_Edit DEF SameHead
<1>2. ASSUME NEW s \in Sales, AddGiftCardSale(p, s) PROVE CoverInv(proc[p])'
  <2>1. /\ proc[p].at = "addSale" /\ GoesTo(p, "syncRead") /\ B(p) \in Bills /\ UNCHANGED <<bill, pays>>
    BY <1>0, <1>2, AddGiftCardSale_Does
  <2>2. PICK b \in Bills : b = B(p)
    BY <2>1
  <2>3. proc'[p].b = b /\ InEdit(proc'[p]) /\ bill[b].status = "OPEN" /\ OnlyBill(b)
    BY <1>0, <2>1, <2>2 DEF GoesTo, Keeps, InEdit, Stands, OnlyBill
  <2> QED BY <2>1, <2>3, Cover_Edit
<1>3. CASE RemoveGiftCardSale(p)
  <2>1. /\ proc[p].at = "removeSale" /\ B(p) \in Bills /\ UNCHANGED <<bill, pays>>
        /\ \/ Ends(p, proc[p].catch)
           \/ /\ \E s \in proc[p].todo : /\ s \in Sales /\ sale'[s] = NoSaleYet
                                         /\ \A x \in Sales : x # s => sale'[x] = sale[x]
              /\ KeepsBut(proc[p], proc'[p]) /\ proc'[p].at = "syncRead"
    BY <1>0, <1>3, RemoveGiftCardSale_Does
  <2>2. CASE Ends(p, proc[p].catch)
    BY <1>e, <2>1, <2>2, Cover_Same
  <2>3. CASE ~Ends(p, proc[p].catch)
    <3>1. PICK s \in Sales : sale'[s] = NoSaleYet /\ \A x \in Sales : x # s => sale'[x] = sale[x]
      BY <2>1, <2>3
    <3>2. PICK b \in Bills : b = B(p)
      BY <2>1
    <3>3. SalesOn(b)' \subseteq SalesOn(b)
      BY <3>1, PosBillAssumption DEF SalesOn, NoSaleYet
    <3>4. Cardinality(SalesOn(b)') <= Cardinality(SalesOn(b)) /\ Cardinality(SalesOn(b)') \in Nat
      BY <3>3, Sales_Fewer
    <3>5. bill[b].status = "PAID" => Sized(b) /\ Covers(b)
      BY <2>1 DEF LinesInv, CoverInv, InUse, InEdit
    <3>6. bill[b].status = "PAID" => bill[b].goods + Cardinality(SalesOn(b)') <= Collected(b)
      BY <1>t, <3>4, <3>5 DEF Sized, Covers
    <3>7. proc'[p].at = "syncRead" /\ proc'[p].b = b /\ InEdit(proc'[p]) /\ OnlyBill(b)
      BY <1>0, <2>1, <2>3, <3>2 DEF KeepsBut, InEdit, OnlyBill
    <3> QED BY <2>1, <3>6, <3>7, Cover_Edit
  <2> QED BY <2>1, <2>2, <2>3
<1>4. CASE SyncRead(p)
  <2>1. /\ proc[p].at = "syncRead" /\ B(p) \in Bills /\ UNCHANGED <<bill, pays, sale>>
        /\ proc'[p].b = B(p) /\ proc'[p].at = "syncClear"
    BY <1>0, <1>4, SyncRead_Does DEF KeepsBut, billVars
  <2>2. PICK b \in Bills : b = B(p)
    BY <2>1
  <2>3. InEdit(proc'[p]) /\ InEdit(proc[p]) /\ OnlyBill(b) /\ SalesOn(b)' = SalesOn(b)
    BY <2>1 DEF InEdit, OnlyBill, SalesOn
  <2>4. bill[b].status = "PAID" => bill[b].goods + Cardinality(SalesOn(b)) <= Collected(b)
    BY <1>0, <2>2, <2>3 DEF CoverInv
  <2> QED BY <2>1, <2>2, <2>3, <2>4, Cover_Edit
<1>5. CASE SyncClear(p)
  <2>1. /\ proc[p].at = "syncClear" /\ B(p) \in Bills /\ OnlyBill(B(p)) /\ bill'[B(p)].gifts = 0
        /\ SameHead(B(p)) /\ bill'[B(p)].goods = bill[B(p)].goods
        /\ UNCHANGED <<pays, sale>>
        /\ GoesTo(p, "recRead") \/ GoesTo(p, "syncCreate")
    BY <1>0, <1>5, SyncClear_Does
  <2>2. PICK b \in Bills : b = B(p)
    BY <2>1
  <2>3. proc'[p].b = b /\ InEdit(proc'[p]) /\ InEdit(proc[p]) /\ SalesOn(b)' = SalesOn(b)
    BY <1>0, <2>1, <2>2 DEF GoesTo, Keeps, InEdit, SalesOn
  <2>4. bill[b].status = "PAID" => bill[b].goods + Cardinality(SalesOn(b)) <= Collected(b)
    BY <1>0, <2>2, <2>3 DEF CoverInv
  <2>5. bill[b].status = "PAID" => bill'[b].goods + bill'[b].gifts <= Collected(b)
    BY <1>t, <2>1, <2>2, <2>4
  <2> QED BY <2>1, <2>2, <2>3, <2>4, <2>5, Cover_Edit DEF SameHead
<1>6. CASE SyncCreate(p)
  <2>1. /\ proc[p].at = "syncCreate" /\ B(p) \in Bills /\ OnlyBill(B(p)) /\ UNCHANGED <<pays, sale>>
        /\ SameHead(B(p)) /\ bill'[B(p)].goods = bill[B(p)].goods
        /\ bill'[B(p)].gifts = bill[B(p)].gifts + Cardinality(proc[p].todo)
        /\ proc'[p].b = B(p) /\ proc'[p].at = "recRead"
    BY <1>0, <1>6, SyncCreate_Does DEF KeepsBut
  <2>2. PICK b \in Bills : b = B(p)
    BY <2>1
  <2>3. InEdit(proc'[p]) /\ InEdit(proc[p]) /\ SalesOn(b)' = SalesOn(b)
    BY <2>1 DEF InEdit, SalesOn
  <2>4. bill[b].status = "PAID" => bill[b].goods + Cardinality(SalesOn(b)) <= Collected(b)
    BY <1>0, <2>2, <2>3 DEF CoverInv
  <2>5. bill'[b].gifts = Cardinality(SalesOn(b))
    BY <1>0, <1>t, <2>1, <2>2 DEF LinesInv
  <2> QED BY <2>1, <2>2, <2>3, <2>4, <2>5, Cover_Edit DEF SameHead
<1>7. CASE RecomputeRead(p)
  <2>1. /\ proc[p].at = "recRead" /\ B(p) \in Bills /\ UNCHANGED <<bill, pays, sale>>
        /\ proc'[p].b = B(p) /\ proc'[p].at = "recWrite"
    BY <1>0, <1>7, RecomputeRead_Does DEF KeepsBut, billVars
  <2>2. PICK b \in Bills : b = B(p)
    BY <2>1
  <2>3. InEdit(proc'[p]) /\ InEdit(proc[p]) /\ OnlyBill(b) /\ SalesOn(b)' = SalesOn(b)
    BY <2>1 DEF InEdit, OnlyBill, SalesOn
  <2>4. bill[b].status = "PAID" => /\ bill[b].goods + Cardinality(SalesOn(b)) <= Collected(b)
                                   /\ bill[b].goods + bill[b].gifts <= Collected(b)
    BY <1>0, <2>1, <2>2, <2>3 DEF CoverInv
  <2> QED BY <2>1, <2>2, <2>3, <2>4, Cover_Edit
<1>8. CASE RecomputeWrite(p)
  <2>1. /\ proc[p].at = "recWrite" /\ B(p) \in Bills /\ OnlyBill(B(p)) /\ bill'[B(p)].total = proc[p].sum
        /\ bill'[B(p)].status = bill[B(p)].status /\ Ends(p, proc[p].back) /\ UNCHANGED <<pays, sale>>
    BY <1>0, <1>8, RecomputeWrite_Does
  <2>2. PICK b \in Bills : b = B(p)
    BY <2>1
  <2>3. bill[b].status = "PAID" => bill[b].goods + bill[b].gifts <= Collected(b)
    BY <1>0, <2>1, <2>2 DEF CoverInv, InEdit
  <2>4. proc[p].sum = bill[b].goods + bill[b].gifts
    BY <1>0, <2>1, <2>2 DEF LinesInv
  <2>5. bill'[b].status = "PAID" => Covers(b)'
    <3>1. Collected(b)' = Collected(b)
      BY <2>1, Pays_Same DEF SameRows
    <3> QED BY <1>t, <2>1, <2>2, <2>3, <2>4, <3>1 DEF Covers
  <2> QED BY <1>e, <2>1, <2>2, <2>5, Cover_One
<1>9. CASE MergeOrders(p)
  <2>1. /\ proc[p].at = "merge" /\ B(p) \in Bills /\ proc[p].other \in Bills /\ B(p) # proc[p].other
        /\ GoesTo(p, "recRead") /\ MovedRows(B(p), proc[p].other)
        /\ \A c \in Bills \ {B(p), proc[p].other} : bill'[c] = bill[c]
        /\ SameHead(B(p)) /\ bill'[proc[p].other].status = "VOID"
    BY <1>0, <1>9, MergeOrders_Does
  <2>2. PICK t \in Bills : t = B(p)
    BY <2>1
  <2>3. PICK u \in Bills : u = proc[p].other
    BY <2>1
  <2>4. bill'[t].status = "OPEN" /\ bill'[u].status = "VOID"
    BY <1>0, <2>1, <2>2, <2>3 DEF Stands, SameHead
  <2>5. \A c \in Bills \ {t, u} : SameRows(c)
    BY <1>0, <2>1, <2>2, <2>3, Merge_Elsewhere
  <2>6. \A c \in Bills : bill'[c].status = "PAID" => Covers(c)'
    BY <2>1, <2>2, <2>3, <2>4, <2>5 DEF CoverInv, Covers, SameRows
  <2>7. proc'[p].b = t
    BY <1>0, <2>1, <2>2 DEF GoesTo, Keeps
  <2> QED BY <2>4, <2>6, <2>7 DEF CoverInv
<1>10. ASSUME NEW c \in Bills, SplitChild(p, c) PROVE CoverInv(proc[p])'
  <2>1. /\ proc[p].at = "splitNext" /\ OnlyBill(c) /\ bill'[c].status = "OPEN" /\ proc'[p].b = c
        /\ UNCHANGED pays
    BY <1>0, <1>10, SplitChild_Does
  <2>2. \A d \in Bills : bill'[d].status = "PAID" => Covers(d)'
    BY <2>1, Pays_Same DEF CoverInv, Covers, SameRows, OnlyBill
  <2> QED BY <2>1, <2>2 DEF CoverInv
<1>11. CASE SplitVoid(p)
  <2>1. /\ proc[p].at = "splitNext" /\ proc[p].other \in Bills /\ OnlyBill(proc[p].other)
        /\ bill'[proc[p].other].status = "VOID" /\ Ends(p, proc[p].then) /\ UNCHANGED <<pays, sale>>
    BY <1>0, <1>11, SplitVoid_Does
  <2> QED BY <1>e, <2>1, Cover_One
<1> QED BY <1>1, <1>2, <1>3, <1>4, <1>5, <1>6, <1>7, <1>8, <1>9, <1>10, <1>11 DEF LineStep

LEMMA PayStep_Cover ==
    ASSUME NEW p \in Tills, AloneInv(p), MoneyInv(proc[p]), CoverInv(proc[p]), PayStep(p)
    PROVE  CoverInv(proc[p])'
<1>0. BillTypes /\ Stands(proc[p]) /\ B(p) = proc[p].b
  BY DEF AloneInv, B
<1>e. \A w \in {proc[p].then, proc[p].catch} : Ends(p, w) => ~InEdit(proc'[p])
  BY <1>0, Ends_Places DEF InEdit
<1>1. CASE PayReread(p)
  <2>1. /\ proc[p].at = "payReread" /\ UNCHANGED <<bill, pays, sale>>
        /\ proc'[p] = IdleProc \/ proc'[p].at = proc[p].catch \/ DecidedOn(p, B(p))
    BY <1>0, <1>1, PayReread_Does DEF billVars
  <2>2. ~InEdit(proc'[p])
    BY <1>0, <2>1, Here, ProcFields_Typed, Idle_Fields DEF InEdit, DecidedOn
  <2> QED BY <2>1, <2>2, Cover_Same
<1>2. CASE Debit(p)
  BY <1>0, <1>2, <1>e, Debit_Does, Cover_Same DEF GoesTo, InEdit
<1>3. CASE Record(p)
  <2>1. /\ proc[p].at = "record" /\ GoesTo(p, "status") /\ UNCHANGED <<bill, sale>>
    BY <1>0, <1>3, Record_Does
  <2>2. PICK r : NewRow(r) /\ r.bill = B(p) /\ r.amt = proc[p].amt
    BY <1>0, <1>3, Record_Does
  <2>3. ASSUME NEW b \in Bills PROVE Collected(b)' >= Collected(b) /\ Collected(b)' \in Int
    <3>1. Collected(b) \in Int /\ r.amt \in Int
      BY <1>0, <2>2, Of_Typed, Here, ProcFields_Typed
    <3>2. CASE r.bill = b
      <4>1. Collected(b)' = IF r.amt > 0 THEN Collected(b) + r.amt ELSE Collected(b)
        <5>1. Collected(r.bill)' = IF r.amt > 0 THEN Collected(r.bill) + r.amt ELSE Collected(r.bill)
          BY <1>0, <2>2, Row_Here
        <5> QED BY <3>2, <5>1
      <4> QED BY <3>1, <4>1
    <3>3. CASE r.bill # b
      BY <2>2, <3>1, <3>3, Row_Elsewhere DEF SameRows
    <3> QED BY <3>2, <3>3
  <2>4. \A b \in Bills : /\ bill[b].status = "PAID" => Covers(b)
                         /\ Collected(b) \in Int /\ bill[b].total \in Int
    BY <1>0, <2>1, Of_Typed, Here DEF BillRecord, CoverInv
  <2>5. \A b \in Bills : bill'[b].status = "PAID" => Covers(b)'
    BY <2>1, <2>3, <2>4 DEF Covers
  <2> QED BY <2>1, <2>5, Cover_Calm DEF GoesTo, InEdit
<1>4. CASE SetStatus(p)
  <2>1. /\ proc[p].at = "status" /\ B(p) \in Bills /\ OnlyBill(B(p))
        /\ bill'[B(p)].total = bill[B(p)].total /\ UNCHANGED <<pays, sale>>
        /\ bill'[B(p)].status = IF proc[p].settle THEN "PAID" ELSE bill[B(p)].status
        /\ GoesTo(p, "issueList") \/ Ends(p, proc[p].then)
    BY <1>0, <1>4, SetStatus_Does
  <2>2. PICK b \in Bills : b = B(p)
    BY <2>1
  <2>3. bill[b].status = "OPEN" /\ (proc[p].settle => Paid(Of(b)) >= bill[b].total)
    BY <1>0, <2>1, <2>2 DEF Stands, MoneyInv
  <2>4. proc[p].settle => Collected(b) >= bill[b].total
    <3>1. Collected(b) >= Paid(Of(b)) /\ Collected(b) \in Int /\ Paid(Of(b)) \in Int /\ bill[b].total \in Int
      BY <1>0, Collected_Least, Of_Typed, Bill_Sums, Here DEF BillRecord
    <3> QED BY <2>3, <3>1
  <2>5. bill'[b].status = "PAID" => Covers(b)'
    BY <2>1, <2>2, <2>3, <2>4, Pays_Same DEF Covers, SameRows
  <2> QED BY <1>e, <2>1, <2>2, <2>5, Cover_One DEF GoesTo, InEdit
<1>5. CASE IssueList(p)
  BY <1>0, <1>5, <1>e, IssueList_Does, Cover_Same DEF InEdit, billVars
<1>6. ASSUME NEW s \in Sales, IssueNext(p, s) PROVE CoverInv(proc[p])'
  BY <1>0, <1>6, <1>e, IssueNext_Does, Cover_Same DEF InEdit
<1>7. CASE IssueMark(p)
  <2>1. /\ proc[p].at = "issueMark" /\ UNCHANGED <<bill, pays>>
        /\ Ends(p, proc[p].then) \/ proc'[p].at = "issueNext"
    BY <1>0, <1>7, IssueMark_Does
  <2> QED BY <1>e, <2>1, Cover_Same DEF InEdit
<1> QED BY <1>1, <1>2, <1>3, <1>4, <1>5, <1>6, <1>7 DEF PayStep

LEMMA ReverseStep_Cover ==
    ASSUME NEW p \in Tills, AloneInv(p), MoneyInv(proc[p]), CoverInv(proc[p]), ReverseStep(p)
    PROVE  CoverInv(proc[p])'
<1>0. BillTypes /\ Stands(proc[p]) /\ B(p) = proc[p].b
  BY DEF AloneInv, B
<1>e. \A w \in {proc[p].then, proc[p].catch} : Ends(p, w) => ~InEdit(proc'[p])
  BY <1>0, Ends_Places DEF InEdit
<1>1. CASE UndoDelete(p)
  <2>1. /\ proc[p].at = "undoDelete" /\ B(p) \in Bills /\ UNCHANGED <<bill, sale>>
        /\ pays' = pays \ {r \in pays : r.id = proc[p].pay}
        /\ IF \E r \in pays : r.id = proc[p].pay THEN GoesTo(p, "undoStatus") ELSE Ends(p, proc[p].catch)
    BY <1>0, <1>1, UndoDelete_Does
  <2>2. \E r \in pays : r.id = proc[p].pay /\ r.bill = B(p)
    BY <1>0, <2>1 DEF Stands
  <2>3. proc'[p].at = "undoStatus" /\ proc'[p].b = B(p)
    BY <1>0, <2>1, <2>2 DEF GoesTo, Keeps
  <2>4. \A c \in Bills : c # B(p) => SameRows(c)
    BY <1>0, <2>1, <2>2, Undo_Elsewhere
  <2>5. \A c \in Bills : bill'[c].status = "PAID" => Covers(c)' \/ c = proc'[p].b
    BY <2>1, <2>3, <2>4 DEF CoverInv, Covers, SameRows
  <2> QED BY <2>3, <2>5 DEF CoverInv, InEdit
<1>2. CASE UndoStatus(p)
  <2>1. /\ proc[p].at = "undoStatus" /\ B(p) \in Bills /\ OnlyBill(B(p)) /\ bill'[B(p)].status = "OPEN"
        /\ Ends(p, proc[p].then) /\ UNCHANGED <<pays, sale>>
    BY <1>0, <1>2, UndoStatus_Does
  <2> QED BY <1>0, <1>e, <2>1, Cover_One
<1>3. CASE VoidOrder(p) \/ ReopenOrder(p)
  <2>1. /\ proc[p].at \in {"void", "reopen"} /\ B(p) \in Bills /\ OnlyBill(B(p))
        /\ bill'[B(p)].status \in {"VOID", "OPEN"} /\ Ends(p, proc[p].then) /\ UNCHANGED <<pays, sale>>
    BY <1>0, <1>3, VoidOrder_Does, ReopenOrder_Does
  <2> QED BY <1>e, <2>1, Cover_One
<1>4. CASE Refund(p)
  <2>1. /\ proc[p].at = "refund" /\ UNCHANGED <<bill, sale>>
        /\ GoesTo(p, "refundCards") \/ Ends(p, proc[p].then)
    BY <1>0, <1>4, Refund_Does
  <2>2. PICK r : NewRow(r) /\ r.bill = B(p) /\ r.amt = proc[p].tips - proc[p].amt
    BY <1>0, <1>4, Refund_Does
  <2>3. r.amt \in Int /\ ~(r.amt > 0)
    <3>1. proc[p].tips \in Int /\ proc[p].amt \in Int /\ proc[p].tips <= proc[p].amt
      BY <1>0, <2>1, Here, ProcFields_Typed DEF MoneyInv
    <3> QED BY <2>2, <3>1
  <2>4. ASSUME NEW b \in Bills PROVE Collected(b)' = Collected(b)
    <3>1. CASE r.bill = b
      <4>1. Collected(r.bill)' = IF r.amt > 0 THEN Collected(r.bill) + r.amt ELSE Collected(r.bill)
        BY <1>0, <2>2, Row_Here
      <4> QED BY <2>3, <3>1, <4>1
    <3>2. CASE r.bill # b
      BY <2>2, <3>2, Row_Elsewhere DEF SameRows
    <3> QED BY <3>1, <3>2
  <2>5. \A b \in Bills : bill'[b].status = "PAID" => Covers(b)'
    BY <2>1, <2>4 DEF CoverInv, Covers
  <2> QED BY <1>e, <2>1, <2>5, Cover_Calm DEF GoesTo, InEdit
<1>5. CASE RefundCards(p)
  <2>1. /\ proc[p].at = "refundCards" /\ Ends(p, proc[p].then) /\ UNCHANGED <<bill, pays>>
    BY <1>0, <1>5, RefundCards_Does
  <2> QED BY <1>e, <2>1, Cover_Same
<1> QED BY <1>1, <1>2, <1>3, <1>4, <1>5 DEF ReverseStep

LEMMA Step_Cover ==
    ASSUME NEW p \in Tills, AloneInv(p), LinesInv(proc[p]), MoneyInv(proc[p]), CoverInv(proc[p]), StepOf(p)
    PROVE  CoverInv(proc[p])'
BY RingUp_Cover, SettleUp_Cover, LineStep_Cover, PayStep_Cover, ReverseStep_Cover DEF StepOf

-----------------------------------------------------------------------------
(* A live card belongs to a sale that is marked as issued, with one till at work *)

Pending(b) == {s \in SalesOn(b) : ~sale[s].issued}

\* But for the sale whose card was activated last and is marked next.
CardInv(q) ==
    /\ \A s \in Sales : cards[s] > 0 => sale[s].issued \/ (q.at = "issueMark" /\ q.doing = {s})
    /\ q.at \in {"issueNext", "issueMark"} => q.todo \subseteq Pending(q.b)
    /\ q.at = "issueMark" => \E s \in Pending(q.b) : q.doing = {s} /\ s \notin q.todo
    /\ q.at = "removeSale" => \A s \in q.todo : ~sale[s].issued

\* Where a request works off sales one by one.
OnSales(q) == q.at \in {"issueNext", "issueMark", "removeSale"}

LEMMA Card_Calm ==
    ASSUME NEW p \in Tills, ~OnSales(proc'[p]), \A s \in Sales : cards'[s] > 0 => sale'[s].issued
    PROVE  CardInv(proc[p])'
BY DEF CardInv, OnSales

LEMMA Card_Same ==
    ASSUME NEW p \in Tills, CardInv(proc[p]), proc[p].at # "issueMark", ~OnSales(proc'[p]),
           UNCHANGED <<sale, cards>>
    PROVE  CardInv(proc[p])'
BY Card_Calm DEF CardInv

LEMMA RingUp_Card ==
    ASSUME NEW p \in Tills, AloneInv(p), CardInv(proc[p]), RingUp(p)
    PROVE  CardInv(proc[p])'
<1>0. BillTypes
  BY DEF AloneInv
<1>1. ASSUME NEW b \in Bills, CreateOrder(p, b) PROVE CardInv(proc[p])'
  BY <1>0, <1>1, CreateOrder_Does, Card_Same DEF OnSales
<1>2. ASSUME NEW b \in Bills, NEW goods \in 0..MaxGoods, SetLinesRead(p, b, goods) PROVE CardInv(proc[p])'
  BY <1>0, <1>2, SetLinesRead_Does, Card_Same DEF Asks, billVars, OnSales
<1>3. ASSUME NEW b \in Bills, AddGiftCardSaleRead(p, b) PROVE CardInv(proc[p])'
  BY <1>0, <1>3, Begin_Does, Card_Same DEF AddGiftCardSaleRead, Asks, billVars, OnSales
<1>4. ASSUME NEW b \in Bills, SplitRead(p, b) PROVE CardInv(proc[p])'
  BY <1>0, <1>4, SplitRead_Does, Card_Same DEF Asks, billVars, OnSales
<1>5. ASSUME NEW b \in Bills, NEW source \in Bills, MergeRead(p, b, source) PROVE CardInv(proc[p])'
  BY <1>0, <1>5, MergeRead_Does, Card_Same DEF Asks, billVars, OnSales
<1>6. ASSUME NEW s \in Sales, RemoveGiftCardSaleRead(p, s) PROVE CardInv(proc[p])'
  <2>1. /\ proc[p].at = "idle" /\ proc'[p].at = "removeSale" /\ proc'[p].todo = {s} /\ ~sale[s].issued
        /\ UNCHANGED <<sale, cards>>
    BY <1>0, <1>6, RemoveGiftCardSaleRead_Does DEF Asks, billVars
  <2> QED BY <2>1 DEF CardInv
<1> QED BY <1>1, <1>2, <1>3, <1>4, <1>5, <1>6 DEF RingUp

LEMMA SettleUp_Card ==
    ASSUME NEW p \in Tills, AloneInv(p), CardInv(proc[p]), SettleUp(p)
    PROVE  CardInv(proc[p])'
<1>0. BillTypes
  BY DEF AloneInv
<1>1. ASSUME NEW b \in Bills, NEW method \in TillTenders, NEW want \in 0..MaxGoods,
             NEW tip \in 0..MaxTip, PayOrder(p, b, method, want, tip)
      PROVE  CardInv(proc[p])'
  <2>1. proc[p].at = "idle" /\ UNCHANGED <<sale, cards>> /\ (Rests(p) \/ Paying(p, b))
    BY <1>0, <1>1, PayOrder_Does DEF billVars
  <2> QED BY <2>1, Idle_Fields, Card_Same DEF Rests, Paying, DecidedOn, OnSales
<1>2. ASSUME NEW b \in Bills, NEW method \in {"CASH", "REFUND"}, NEW want \in 0..MaxGoods,
             RefundOrder(p, b, method, want)
      PROVE  CardInv(proc[p])'
  <2>1. proc[p].at = "idle" /\ UNCHANGED <<sale, cards>> /\ (Rests(p) \/ Asks(p, "refund", b))
    BY <1>0, <1>2, RefundOrder_Does DEF billVars
  <2> QED BY <2>1, Idle_Fields, Card_Same DEF Rests, Asks, OnSales
<1>3. ASSUME NEW b \in Bills, VoidRead(p, b) PROVE CardInv(proc[p])'
  BY <1>0, <1>3, Begin_Does, Card_Same DEF VoidRead, Asks, billVars, OnSales
<1>4. ASSUME NEW b \in Bills, ReopenRead(p, b) PROVE CardInv(proc[p])'
  BY <1>0, <1>4, Begin_Does, Card_Same DEF ReopenRead, Asks, billVars, OnSales
<1>5. ASSUME NEW r \in pays, UndoRead(p, r) PROVE CardInv(proc[p])'
  BY <1>0, <1>5, UndoRead_Does, Card_Same DEF Asks, billVars, OnSales
<1> QED BY <1>1, <1>2, <1>3, <1>4, <1>5 DEF SettleUp

LEMMA LineStep_Card ==
    ASSUME NEW p \in Tills, AloneInv(p), CardInv(proc[p]), LineStep(p)
    PROVE  CardInv(proc[p])'
<1>0. BillTypes
  BY DEF AloneInv
<1>e. \A w \in {proc[p].then, proc[p].catch, proc[p].back} : Ends(p, w) => ~OnSales(proc'[p])
  BY <1>0, Ends_Places DEF OnSales
<1>1. CASE SetLines(p)
  BY <1>0, <1>1, SetLines_Does, Card_Same DEF GoesTo, OnSales
<1>2. ASSUME NEW s \in Sales, AddGiftCardSale(p, s) PROVE CardInv(proc[p])'
  <2>1. /\ proc[p].at = "addSale" /\ GoesTo(p, "syncRead") /\ UNCHANGED cards
        /\ \A x \in Sales : sale'[x].issued = sale[x].issued
    BY <1>0, <1>2, AddGiftCardSale_Does
  <2> QED BY <2>1, Card_Calm DEF CardInv, GoesTo, OnSales
<1>3. CASE RemoveGiftCardSale(p)
  <2>1. /\ proc[p].at = "removeSale" /\ UNCHANGED cards
        /\ \/ Ends(p, proc[p].catch) /\ UNCHANGED sale
           \/ /\ \E s \in proc[p].todo : s \in Sales /\ \A x \in Sales : x # s => sale'[x] = sale[x]
              /\ proc'[p].at = "syncRead"
    BY <1>0, <1>3, RemoveGiftCardSale_Does
  <2>2. ~OnSales(proc'[p])
    BY <1>e, <2>1 DEF OnSales
  <2>3. \A x \in Sales : cards[x] > 0 => sale[x].issued /\ x \notin proc[p].todo
    BY <2>1 DEF CardInv
  <2>4. \A x \in Sales : cards'[x] > 0 => sale'[x].issued
    BY <2>1, <2>3
  <2> QED BY <2>2, <2>4, Card_Calm
<1>4. CASE SyncRead(p) \/ RecomputeRead(p)
  BY <1>0, <1>4, SyncRead_Does, RecomputeRead_Does, Card_Same DEF billVars, OnSales
<1>5. CASE SyncClear(p)
  BY <1>0, <1>5, SyncClear_Does, Card_Same DEF GoesTo, OnSales
<1>6. CASE SyncCreate(p)
  BY <1>0, <1>6, SyncCreate_Does, Card_Same DEF OnSales
<1>7. CASE RecomputeWrite(p)
  BY <1>0, <1>7, <1>e, RecomputeWrite_Does, Card_Same
<1>8. CASE MergeOrders(p)
  BY <1>0, <1>8, MergeOrders_Does, Card_Same DEF GoesTo, OnSales
<1>9. ASSUME NEW c \in Bills, SplitChild(p, c) PROVE CardInv(proc[p])'
  BY <1>0, <1>9, SplitChild_Does, Card_Same DEF OnSales
<1>10. CASE SplitVoid(p)
  BY <1>0, <1>10, <1>e, SplitVoid_Does, Card_Same
<1> QED BY <1>1, <1>2, <1>3, <1>4, <1>5, <1>6, <1>7, <1>8, <1>9, <1>10 DEF LineStep

LEMMA PayStep_Card ==
    ASSUME NEW p \in Tills, AloneInv(p), CardInv(proc[p]), PayStep(p)
    PROVE  CardInv(proc[p])'
<1>0. BillTypes /\ B(p) = proc[p].b
  BY DEF AloneInv, B
<1>e. \A w \in {proc[p].then, proc[p].catch} : Ends(p, w) => ~OnSales(proc'[p])
  BY <1>0, Ends_Places DEF OnSales
<1>1. CASE PayReread(p)
  <2>1. /\ proc[p].at = "payReread" /\ UNCHANGED <<sale, cards>>
        /\ proc'[p] = IdleProc \/ proc'[p].at = proc[p].catch \/ DecidedOn(p, B(p))
    BY <1>0, <1>1, PayReread_Does DEF billVars
  <2>2. ~OnSales(proc'[p])
    BY <1>0, <2>1, Here, ProcFields_Typed, Idle_Fields DEF OnSales, DecidedOn
  <2> QED BY <2>1, <2>2, Card_Same
<1>2. CASE Debit(p)
  BY <1>0, <1>2, <1>e, Debit_Does, Card_Same DEF GoesTo, OnSales
<1>3. CASE Record(p)
  BY <1>0, <1>3, Record_Does, Card_Same DEF GoesTo, OnSales
<1>4. CASE SetStatus(p)
  BY <1>0, <1>4, <1>e, SetStatus_Does, Card_Same DEF GoesTo, OnSales
<1>5. CASE IssueList(p)
  <2>1. /\ proc[p].at = "issueList" /\ B(p) \in Bills /\ UNCHANGED <<bill, sale, cards>>
        /\ \/ Ends(p, proc[p].then)
           \/ /\ proc'[p].at = "issueNext" /\ proc'[p].b = proc[p].b
              /\ proc'[p].todo = {s \in SalesOn(B(p)) : ~sale[s].issued}
    BY <1>0, <1>5, IssueList_Does DEF billVars, KeepsBut
  <2>2. CASE Ends(p, proc[p].then)
    BY <1>e, <2>1, <2>2, Card_Same
  <2>3. CASE proc'[p].at = "issueNext" /\ proc'[p].b = proc[p].b
             /\ proc'[p].todo = {s \in SalesOn(B(p)) : ~sale[s].issued}
    BY <1>0, <2>1, <2>3 DEF CardInv, Pending, SalesOn
  <2> QED BY <2>1, <2>2, <2>3
<1>6. ASSUME NEW s \in Sales, IssueNext(p, s) PROVE CardInv(proc[p])'
  <2>1. /\ proc[p].at = "issueNext" /\ s \in proc[p].todo /\ UNCHANGED sale
        /\ \/ /\ cards' = [cards EXCEPT ![s] = IF cards[s] = 2 THEN 2 ELSE cards[s] + 1]
              /\ proc'[p].b = proc[p].b /\ proc'[p].at = "issueMark"
              /\ proc'[p].todo = proc[p].todo \ {s} /\ proc'[p].doing = {s}
           \/ Ends(p, proc[p].then) /\ UNCHANGED cards
           \/ /\ proc'[p].b = proc[p].b /\ proc'[p].at = "issueNext"
              /\ proc'[p].todo = proc[p].todo \ {s} /\ UNCHANGED cards
    BY <1>0, <1>6, IssueNext_Does DEF KeepsBut
  <2>2. proc[p].todo \subseteq Pending(proc[p].b) /\ \A x \in Sales : cards[x] > 0 => sale[x].issued
    BY <2>1 DEF CardInv
  <2>3. CASE Ends(p, proc[p].then) /\ UNCHANGED cards
    BY <1>e, <2>1, <2>3, Card_Same
  <2>4. CASE /\ cards' = [cards EXCEPT ![s] = IF cards[s] = 2 THEN 2 ELSE cards[s] + 1]
             /\ proc'[p].b = proc[p].b /\ proc'[p].at = "issueMark"
             /\ proc'[p].todo = proc[p].todo \ {s} /\ proc'[p].doing = {s}
    <3>1. Pending(proc[p].b)' = Pending(proc[p].b)
      BY <2>1, <2>4 DEF Pending, SalesOn
    <3>2. cards \in [Sales -> 0..2]
      BY <1>0 DEF BillTypes, TypeOK
    <3>3. \A x \in Sales : x # s => cards'[x] = cards[x]
      BY <2>4, <3>2
    <3> QED BY <2>1, <2>2, <2>4, <3>1, <3>3 DEF CardInv
  <2>5. CASE /\ proc'[p].b = proc[p].b /\ proc'[p].at = "issueNext"
             /\ proc'[p].todo = proc[p].todo \ {s} /\ UNCHANGED cards
    <3>1. Pending(proc[p].b)' = Pending(proc[p].b)
      BY <2>1, <2>5 DEF Pending, SalesOn
    <3> QED BY <2>1, <2>2, <2>5, <3>1 DEF CardInv
  <2> QED BY <2>1, <2>3, <2>4, <2>5
<1>7. CASE IssueMark(p)
  <2>1. /\ proc[p].at = "issueMark" /\ B(p) \in Bills /\ UNCHANGED cards
        /\ \A s \in Sales : /\ sale'[s].on = sale[s].on
                            /\ s \in proc[p].doing /\ sale[s].on # NoBill => sale'[s].issued
                            /\ ~(s \in proc[p].doing /\ sale[s].on # NoBill) => sale'[s].issued = sale[s].issued
        /\ \/ Ends(p, proc[p].then)
           \/ proc'[p].b = proc[p].b /\ proc'[p].at = "issueNext" /\ proc'[p].todo = proc[p].todo
    BY <1>0, <1>7, IssueMark_Does DEF KeepsBut
  <2>2. PICK s \in Pending(proc[p].b) : proc[p].doing = {s} /\ s \notin proc[p].todo
    BY <2>1 DEF CardInv
  <2>3. s \in Sales /\ sale[s].on \in Bills /\ sale[s].on # NoBill
    BY <1>0, <2>1, <2>2, PosBillAssumption DEF Pending, SalesOn
  <2>4. /\ \A x \in Sales : cards[x] > 0 => sale[x].issued \/ x = s
        /\ proc[p].todo \subseteq Pending(proc[p].b)
    BY <2>1, <2>2, <2>3 DEF CardInv
  <2>5. sale'[s].issued /\ \A x \in Sales : x # s => sale'[x].issued = sale[x].issued
    BY <2>1, <2>2, <2>3
  <2>6. \A x \in Sales : cards'[x] > 0 => sale'[x].issued
    BY <2>1, <2>4, <2>5
  <2>7. CASE Ends(p, proc[p].then)
    BY <1>e, <2>6, <2>7, Card_Calm
  <2>8. CASE proc'[p].b = proc[p].b /\ proc'[p].at = "issueNext" /\ proc'[p].todo = proc[p].todo
    <3>1. \A x \in proc[p].todo : x \in Sales /\ sale[x].on = proc[p].b /\ ~sale[x].issued /\ x # s
      BY <2>2, <2>4 DEF Pending, SalesOn
    <3>2. \A x \in proc'[p].todo : x \in Sales /\ sale'[x].on = proc'[p].b /\ ~sale'[x].issued
      BY <2>1, <2>5, <2>8, <3>1
    <3> QED BY <2>6, <2>8, <3>2 DEF CardInv, Pending, SalesOn
  <2> QED BY <2>1, <2>7, <2>8
<1> QED BY <1>1, <1>2, <1>3, <1>4, <1>5, <1>6, <1>7 DEF PayStep

LEMMA ReverseStep_Card ==
    ASSUME NEW p \in Tills, AloneInv(p), CardInv(proc[p]), ReverseStep(p)
    PROVE  CardInv(proc[p])'
<1>0. BillTypes
  BY DEF AloneInv
<1>e. \A w \in {proc[p].then, proc[p].catch} : Ends(p, w) => ~OnSales(proc'[p])
  BY <1>0, Ends_Places DEF OnSales
<1>1. CASE UndoDelete(p)
  BY <1>0, <1>1, <1>e, UndoDelete_Does, Card_Same DEF GoesTo, OnSales
<1>2. CASE UndoStatus(p) \/ VoidOrder(p) \/ ReopenOrder(p)
  BY <1>0, <1>2, <1>e, UndoStatus_Does, VoidOrder_Does, ReopenOrder_Does, Card_Same
<1>3. CASE Refund(p)
  BY <1>0, <1>3, <1>e, Refund_Does, Card_Same DEF GoesTo, OnSales
<1>4. CASE RefundCards(p)
  <2>1. /\ proc[p].at = "refundCards" /\ Ends(p, proc[p].then)
        /\ \A s \in Sales : /\ sale'[s].issued = sale[s].issued
                            /\ cards'[s] = cards[s] \/ sale[s].issued
    BY <1>0, <1>4, RefundCards_Does
  <2> QED BY <1>e, <2>1, Card_Calm DEF CardInv
<1> QED BY <1>1, <1>2, <1>3, <1>4 DEF ReverseStep

LEMMA Step_Card ==
    ASSUME NEW p \in Tills, AloneInv(p), CardInv(proc[p]), StepOf(p)
    PROVE  CardInv(proc[p])'
BY RingUp_Card, SettleUp_Card, LineStep_Card, PayStep_Card, ReverseStep_Card DEF StepOf

-----------------------------------------------------------------------------
(* A split adds up, with one till at work *)

\* The parts so far, each with its share of the whole.
PartsDone(q) ==
    \/ q.kids = {}
    \/ \E c \in Bills : /\ q.kids = {c} /\ bill[c].status # "NONE" /\ bill[c].total = Share(q.want, 0)
    \/ \E c, d \in Bills : /\ c # d /\ q.kids = {c, d}
                           /\ bill[c].total = Share(q.want, 0) /\ bill[d].total = Share(q.want, 1)

\* The last of the parts has its line and not yet its total.
PartOpen(q) ==
    /\ bill[q.b].gifts = 0
    /\ \/ q.kids = {q.b} /\ bill[q.b].goods = Share(q.want, 0)
       \/ \E c \in Bills : /\ c # q.b /\ q.kids = {c, q.b}
                           /\ bill[c].total = Share(q.want, 0) /\ bill[q.b].goods = Share(q.want, 1)

Splitting(q) == q.at = "splitNext" \/ q.back = "splitNext"

SplitInv(q) ==
    Splitting(q) =>
        /\ q.want = bill[q.other].goods + bill[q.other].gifts
        /\ q.other \notin q.kids
        /\ IF q.at = "splitNext" THEN PartsDone(q) ELSE PartOpen(q)
        /\ q.at = "recWrite" => q.sum = bill[q.b].goods + bill[q.b].gifts

LEMMA Split_None ==
    ASSUME NEW p \in Tills, ~Splitting(proc'[p])
    PROVE  SplitInv(proc[p])'
BY DEF SplitInv, Splitting

LEMMA Split_Off ==
    ASSUME NEW p \in Tills, Backs(proc'[p]), proc'[p].at \notin {"recRead", "recWrite", "splitNext"}
    PROVE  SplitInv(proc[p])'
BY Split_None DEF Splitting, Backs

LEMMA RingUp_Split ==
    ASSUME NEW p \in Tills, AloneInv(p), Backs(proc'[p]), RingUp(p)
    PROVE  SplitInv(proc[p])'
<1>0. BillTypes
  BY DEF AloneInv
<1>1. ASSUME NEW b \in Bills, CreateOrder(p, b) PROVE SplitInv(proc[p])'
  BY <1>0, <1>1, CreateOrder_Does, Split_Off
<1>2. ASSUME NEW b \in Bills, NEW goods \in 0..MaxGoods, SetLinesRead(p, b, goods) PROVE SplitInv(proc[p])'
  BY <1>0, <1>2, SetLinesRead_Does, Split_Off DEF Asks
<1>3. ASSUME NEW b \in Bills, AddGiftCardSaleRead(p, b) PROVE SplitInv(proc[p])'
  BY <1>0, <1>3, Begin_Does, Split_Off DEF AddGiftCardSaleRead, Asks
<1>4. ASSUME NEW b \in Bills, SplitRead(p, b) PROVE SplitInv(proc[p])'
  <2>1. /\ proc'[p].at = "splitNext" /\ proc'[p].other = b /\ proc'[p].kids = {}
        /\ proc'[p].want = bill[b].goods + bill[b].gifts /\ UNCHANGED bill
    BY <1>0, <1>4, SplitRead_Does DEF Asks, billVars
  <2> QED BY <2>1 DEF SplitInv, Splitting, PartsDone
<1>5. ASSUME NEW b \in Bills, NEW source \in Bills, MergeRead(p, b, source) PROVE SplitInv(proc[p])'
  BY <1>0, <1>5, MergeRead_Does, Split_Off DEF Asks
<1>6. ASSUME NEW s \in Sales, RemoveGiftCardSaleRead(p, s) PROVE SplitInv(proc[p])'
  BY <1>0, <1>6, RemoveGiftCardSaleRead_Does, Split_Off DEF Asks
<1> QED BY <1>1, <1>2, <1>3, <1>4, <1>5, <1>6 DEF RingUp

LEMMA SettleUp_Split ==
    ASSUME NEW p \in Tills, AloneInv(p), Backs(proc'[p]), SettleUp(p)
    PROVE  SplitInv(proc[p])'
<1>0. BillTypes
  BY DEF AloneInv
<1>1. ASSUME NEW b \in Bills, NEW method \in TillTenders, NEW want \in 0..MaxGoods,
             NEW tip \in 0..MaxTip, PayOrder(p, b, method, want, tip)
      PROVE  SplitInv(proc[p])'
  <2>1. Rests(p) \/ Paying(p, b)
    BY <1>0, <1>1, PayOrder_Does
  <2> QED BY <2>1, Idle_Fields, Split_None DEF Rests, Paying, DecidedOn, Splitting
<1>2. ASSUME NEW b \in Bills, NEW method \in {"CASH", "REFUND"}, NEW want \in 0..MaxGoods,
             RefundOrder(p, b, method, want)
      PROVE  SplitInv(proc[p])'
  <2>1. Rests(p) \/ Asks(p, "refund", b)
    BY <1>0, <1>2, RefundOrder_Does
  <2> QED BY <2>1, Idle_Fields, Split_None DEF Rests, Asks, Splitting
<1>3. ASSUME NEW b \in Bills, VoidRead(p, b) PROVE SplitInv(proc[p])'
  BY <1>0, <1>3, Begin_Does, Split_Off DEF VoidRead, Asks
<1>4. ASSUME NEW b \in Bills, ReopenRead(p, b) PROVE SplitInv(proc[p])'
  BY <1>0, <1>4, Begin_Does, Split_Off DEF ReopenRead, Asks
<1>5. ASSUME NEW r \in pays, UndoRead(p, r) PROVE SplitInv(proc[p])'
  BY <1>0, <1>5, UndoRead_Does, Split_Off DEF Asks
<1> QED BY <1>1, <1>2, <1>3, <1>4, <1>5 DEF SettleUp

LEMMA PayStep_Split ==
    ASSUME NEW p \in Tills, AloneInv(p), Backs(proc'[p]), PayStep(p)
    PROVE  SplitInv(proc[p])'
<1>0. BillTypes
  BY DEF AloneInv
<1>e. \A w \in {proc[p].then, proc[p].catch} :
         Ends(p, w) => proc'[p].at \notin {"recRead", "recWrite", "splitNext"}
  <2> SUFFICES ASSUME Ends(p, proc[p].then) \/ Ends(p, proc[p].catch)
               PROVE  proc'[p].at \notin {"recRead", "recWrite", "splitNext"}
    OBVIOUS
  <2> QED BY <1>0, Here, ProcFields_Typed, Idle_Fields DEF Ends, Rests, GoesTo
<1>1. CASE PayReread(p)
  <2>1. proc'[p] = IdleProc \/ proc'[p].at = proc[p].catch \/ DecidedOn(p, B(p))
    BY <1>0, <1>1, PayReread_Does
  <2>2. proc'[p].at \notin {"recRead", "recWrite", "splitNext"}
    BY <1>0, <2>1, Here, ProcFields_Typed, Idle_Fields DEF DecidedOn
  <2> QED BY <2>2, Split_Off
<1>2. CASE Debit(p)
  BY <1>0, <1>2, <1>e, Debit_Does, Split_Off DEF GoesTo
<1>3. CASE Record(p)
  BY <1>0, <1>3, Record_Does, Split_Off DEF GoesTo
<1>4. CASE SetStatus(p)
  BY <1>0, <1>4, <1>e, SetStatus_Does, Split_Off DEF GoesTo
<1>5. CASE IssueList(p)
  BY <1>0, <1>5, <1>e, IssueList_Does, Split_Off
<1>6. ASSUME NEW s \in Sales, IssueNext(p, s) PROVE SplitInv(proc[p])'
  BY <1>0, <1>6, <1>e, IssueNext_Does, Split_Off
<1>7. CASE IssueMark(p)
  BY <1>0, <1>7, <1>e, IssueMark_Does, Split_Off
<1> QED BY <1>1, <1>2, <1>3, <1>4, <1>5, <1>6, <1>7 DEF PayStep

LEMMA ReverseStep_Split ==
    ASSUME NEW p \in Tills, AloneInv(p), Backs(proc'[p]), ReverseStep(p)
    PROVE  SplitInv(proc[p])'
<1>0. BillTypes
  BY DEF AloneInv
<1>e. \A w \in {proc[p].then, proc[p].catch} :
         Ends(p, w) => proc'[p].at \notin {"recRead", "recWrite", "splitNext"}
  <2> SUFFICES ASSUME Ends(p, proc[p].then) \/ Ends(p, proc[p].catch)
               PROVE  proc'[p].at \notin {"recRead", "recWrite", "splitNext"}
    OBVIOUS
  <2> QED BY <1>0, Here, ProcFields_Typed, Idle_Fields DEF Ends, Rests, GoesTo
<1>1. CASE UndoDelete(p)
  BY <1>0, <1>1, <1>e, UndoDelete_Does, Split_Off DEF GoesTo
<1>2. CASE UndoStatus(p) \/ VoidOrder(p) \/ ReopenOrder(p)
  BY <1>0, <1>2, <1>e, UndoStatus_Does, VoidOrder_Does, ReopenOrder_Does, Split_Off
<1>3. CASE Refund(p)
  BY <1>0, <1>3, <1>e, Refund_Does, Split_Off DEF GoesTo
<1>4. CASE RefundCards(p)
  BY <1>0, <1>4, <1>e, RefundCards_Does, Split_Off
<1> QED BY <1>1, <1>2, <1>3, <1>4 DEF ReverseStep

\* The next part: a bill that was never used, with a share as its line.
LEMMA SplitChild_Split ==
    ASSUME NEW p \in Tills, AloneInv(p), SplitInv(proc[p]), NEW c \in Bills, SplitChild(p, c)
    PROVE  SplitInv(proc[p])'
<1>0. BillTypes /\ Unopened /\ Stands(proc[p])
  BY DEF AloneInv
<1>1. /\ proc[p].at = "splitNext" /\ bill[c].status = "NONE" /\ Cardinality(proc[p].kids) < 2
      /\ OnlyBill(c) /\ bill'[c].gifts = bill[c].gifts
      /\ bill'[c].goods = Share(proc[p].want, Cardinality(proc[p].kids))
      /\ proc'[p].at = "recRead" /\ proc'[p].b = c
      /\ proc'[p].kids = proc[p].kids \cup {c} /\ proc'[p].other = proc[p].other
      /\ proc'[p].want = proc[p].want
  BY <1>0, SplitChild_Does DEF Ways
<1>2. /\ proc[p].want = bill[proc[p].other].goods + bill[proc[p].other].gifts
      /\ proc[p].other \notin proc[p].kids /\ PartsDone(proc[p])
  BY <1>1 DEF SplitInv, Splitting
<1>3. proc[p].other \in Bills /\ proc[p].other # c /\ bill'[proc[p].other] = bill[proc[p].other]
  BY <1>0, <1>1, Here DEF Stands, OnlyBill, Fit
<1>4. bill'[c].gifts = 0
  BY <1>0, <1>1 DEF Unopened
<1>5. PartOpen(proc[p])'
  <2>1. CASE proc[p].kids = {}
    BY <1>1, <1>4, <2>1, FS_EmptySet DEF PartOpen
  <2>2. ASSUME NEW d \in Bills, proc[p].kids = {d}, bill[d].status # "NONE",
               bill[d].total = Share(proc[p].want, 0)
        PROVE  PartOpen(proc[p])'
    <3>1. Cardinality(proc[p].kids) = 1
      BY <2>2, FS_Singleton
    <3>2. d # c /\ bill'[d] = bill[d] /\ proc'[p].kids = {d, c}
      BY <1>1, <2>2 DEF OnlyBill
    <3> QED BY <1>1, <1>4, <2>2, <3>1, <3>2 DEF PartOpen
  <2>3. ASSUME NEW d \in Bills, NEW e \in Bills, d # e, proc[p].kids = {d, e} PROVE FALSE
    <3>1. Cardinality({e}) = 1 /\ IsFiniteSet({e})
      BY FS_Singleton
    <3>2. Cardinality({e} \cup {d}) = 2
      BY <2>3, <3>1, FS_AddElement
    <3>3. {e} \cup {d} = proc[p].kids
      BY <2>3
    <3> QED BY <1>1, <3>2, <3>3
  <2> QED BY <1>2, <2>1, <2>2, <2>3 DEF PartsDone
<1> QED BY <1>1, <1>2, <1>3, <1>5 DEF SplitInv, Splitting

LEMMA Recompute_Split ==
    ASSUME NEW p \in Tills, AloneInv(p), SplitInv(proc[p]), Backs(proc'[p]),
           RecomputeRead(p) \/ RecomputeWrite(p)
    PROVE  SplitInv(proc[p])'
<1>0. BillTypes /\ Stands(proc[p]) /\ B(p) = proc[p].b
  BY DEF AloneInv, B
<1>1. CASE RecomputeRead(p)
  <2>1. /\ proc[p].at = "recRead" /\ UNCHANGED bill /\ proc'[p].at = "recWrite"
        /\ proc'[p].sum = bill[proc[p].b].goods + bill[proc[p].b].gifts /\ KeepsBut(proc[p], proc'[p])
    BY <1>0, <1>1, RecomputeRead_Does DEF billVars
  <2>2. Splitting(proc'[p]) => PartOpen(proc[p])
    BY <2>1 DEF SplitInv, Splitting, KeepsBut
  <2>3. PartOpen(proc[p]) => PartOpen(proc[p])'
    BY <2>1 DEF PartOpen, KeepsBut
  <2> QED BY <2>1, <2>2, <2>3 DEF SplitInv, Splitting, KeepsBut
<1>2. CASE RecomputeWrite(p)
  <2>1. /\ proc[p].at = "recWrite" /\ B(p) \in Bills /\ OnlyBill(B(p)) /\ SameLines(B(p))
        /\ bill'[B(p)].status = bill[B(p)].status /\ bill'[B(p)].total = proc[p].sum
        /\ Ends(p, proc[p].back)
    BY <1>0, <1>2, RecomputeWrite_Does
  <2>2. CASE proc[p].back # "splitNext"
    <3>1. ~Splitting(proc'[p])
      BY <1>0, <2>1, <2>2, Here, ProcFields_Typed, Idle_Fields DEF Ends, Rests, GoesTo, Keeps, Splitting
    <3> QED BY <3>1, Split_None
  <2>3. CASE proc[p].back = "splitNext"
    <3>1. PICK b \in Bills : b = proc[p].b
      BY <1>0, <2>1
    <3>2. /\ proc'[p].at = "splitNext" /\ proc'[p].kids = proc[p].kids /\ proc'[p].want = proc[p].want
          /\ proc'[p].other = proc[p].other
      BY <2>1, <2>3 DEF Ends, GoesTo, Keeps
    <3>3. /\ proc[p].want = bill[proc[p].other].goods + bill[proc[p].other].gifts
          /\ proc[p].other \notin proc[p].kids /\ PartOpen(proc[p])
          /\ proc[p].sum = bill[b].goods + bill[b].gifts
      BY <2>1, <2>3, <3>1 DEF SplitInv, Splitting
    <3>4. proc[p].other \in Bills /\ proc[p].other # b /\ bill'[proc[p].other] = bill[proc[p].other]
      BY <1>0, <2>1, <2>3, <3>1, Here DEF Stands, OnlyBill, Fit
    <3>5. bill[b].status # "NONE" /\ bill[b].goods \in Nat /\ bill[b].gifts = 0
      BY <1>0, <2>1, <3>1, <3>3, Here DEF Stands, BillPlaces, PartOpen, BillRecord
    <3>6. bill'[b].total = bill[b].goods /\ bill'[b].status # "NONE"
      BY <1>0, <2>1, <3>1, <3>3, <3>5
    <3>7. PartsDone(proc[p])'
      <4>1. CASE proc[p].kids = {b} /\ bill[b].goods = Share(proc[p].want, 0)
        BY <3>1, <3>2, <3>6, <4>1 DEF PartsDone
      <4>2. ASSUME NEW c \in Bills, c # b, proc[p].kids = {c, b}, bill[c].total = Share(proc[p].want, 0),
                   bill[b].goods = Share(proc[p].want, 1)
            PROVE  PartsDone(proc[p])'
        <5>1. bill'[c] = bill[c]
          BY <1>0, <2>1, <3>1, <4>2 DEF OnlyBill
        <5> QED BY <3>2, <3>6, <4>2, <5>1 DEF PartsDone
      <4> QED BY <3>1, <3>3, <4>1, <4>2 DEF PartOpen
    <3> QED BY <3>2, <3>3, <3>4, <3>7 DEF SplitInv, Splitting
  <2> QED BY <2>2, <2>3
<1> QED BY <1>1, <1>2

LEMMA LineStep_Split ==
    ASSUME NEW p \in Tills, AloneInv(p), SplitInv(proc[p]), Backs(proc'[p]), LineStep(p)
    PROVE  SplitInv(proc[p])'
<1>0. BillTypes /\ Stands(proc[p])
  BY DEF AloneInv
<1>e. \A w \in {proc[p].then, proc[p].catch} :
         Ends(p, w) => proc'[p].at \notin {"recRead", "recWrite", "splitNext"}
  <2> SUFFICES ASSUME Ends(p, proc[p].then) \/ Ends(p, proc[p].catch)
               PROVE  proc'[p].at \notin {"recRead", "recWrite", "splitNext"}
    OBVIOUS
  <2> QED BY <1>0, Here, ProcFields_Typed, Idle_Fields DEF Ends, Rests, GoesTo
<1>b. proc[p].at \notin {"recRead", "recWrite", "splitNext"} => proc[p].back # "splitNext"
  BY <1>0 DEF Stands, Backs
<1>1. CASE SetLines(p)
  BY <1>0, <1>1, SetLines_Does, Split_Off DEF GoesTo
<1>2. ASSUME NEW s \in Sales, AddGiftCardSale(p, s) PROVE SplitInv(proc[p])'
  BY <1>0, <1>2, AddGiftCardSale_Does, Split_Off DEF GoesTo
<1>3. CASE RemoveGiftCardSale(p)
  BY <1>0, <1>3, <1>e, RemoveGiftCardSale_Does, Split_Off
<1>4. CASE SyncRead(p)
  BY <1>0, <1>4, SyncRead_Does, Split_Off
<1>5. CASE SyncClear(p)
  <2>1. proc[p].at = "syncClear" /\ (GoesTo(p, "recRead") \/ GoesTo(p, "syncCreate"))
    BY <1>0, <1>5, SyncClear_Does
  <2> QED BY <1>b, <2>1, Split_None DEF GoesTo, Keeps, Splitting
<1>6. CASE SyncCreate(p)
  <2>1. proc[p].at = "syncCreate" /\ proc'[p].at = "recRead" /\ proc'[p].back = proc[p].back
    BY <1>0, <1>6, SyncCreate_Does DEF KeepsBut
  <2> QED BY <1>b, <2>1, Split_None DEF Splitting
<1>7. CASE RecomputeRead(p) \/ RecomputeWrite(p)
  BY <1>7, Recompute_Split
<1>8. CASE MergeOrders(p)
  <2>1. proc[p].at = "merge" /\ GoesTo(p, "recRead")
    BY <1>0, <1>8, MergeOrders_Does
  <2> QED BY <1>b, <2>1, Split_None DEF GoesTo, Keeps, Splitting
<1>9. ASSUME NEW c \in Bills, SplitChild(p, c) PROVE SplitInv(proc[p])'
  BY <1>9, SplitChild_Split
<1>10. CASE SplitVoid(p)
  BY <1>0, <1>10, <1>e, SplitVoid_Does, Split_Off
<1> QED BY <1>1, <1>2, <1>3, <1>4, <1>5, <1>6, <1>7, <1>8, <1>9, <1>10 DEF LineStep

LEMMA Step_Split ==
    ASSUME NEW p \in Tills, AloneInv(p), SplitInv(proc[p]), StepOf(p)
    PROVE  SplitInv(proc[p])'
<1>1. Backs(proc'[p])
  <2>1. Stands(proc[p])'
    BY Step_Stands
  <2> QED BY <2>1 DEF Stands, Backs
<1> QED BY <1>1, RingUp_Split, SettleUp_Split, LineStep_Split, PayStep_Split, ReverseStep_Split DEF StepOf

\* Nothing of the whole is lost or added.
LEMMA Share_Whole ==
    ASSUME NEW n \in Nat
    PROVE  Share(n, 0) + Share(n, 1) = n
BY DEF Share, Ways

LEMMA Split_Sum ==
    ASSUME BillTypes, NEW p \in Tills, SplitInv(proc[p]), At(p, "splitNext"), Cardinality(proc[p].kids) = Ways
    PROVE  SumFunctionOnSet([c \in Bills |-> bill[c].total], proc[p].kids)
                = bill[proc[p].other].goods + bill[proc[p].other].gifts
<1> DEFINE f == [c \in Bills |-> bill[c].total]
<1>1. /\ proc[p].want = bill[proc[p].other].goods + bill[proc[p].other].gifts
      /\ PartsDone(proc[p])
  BY DEF SplitInv, Splitting, At
<1>2. proc[p].kids # {} /\ \A c : proc[p].kids # {c}
  <2>1. Cardinality(proc[p].kids) = 2
    BY DEF Ways
  <2>2. Cardinality({}) = 0 /\ \A c : Cardinality({c}) = 1
    BY FS_EmptySet, FS_Singleton
  <2> QED BY <2>1, <2>2
<1>3. PICK c, d \in Bills : /\ c # d /\ proc[p].kids = {c, d}
                            /\ bill[c].total = Share(proc[p].want, 0) /\ bill[d].total = Share(proc[p].want, 1)
  BY <1>1, <1>2 DEF PartsDone
<1>4. \A x \in Bills : f[x] \in Int
  BY Here DEF BillRecord
<1>5. f[c] = Share(proc[p].want, 0) /\ f[d] = Share(proc[p].want, 1)
  BY <1>3
<1>6. proc[p].want \in Nat
  BY Here, ProcFields_Typed
<1> HIDE DEF f
<1>7. IsFiniteSet({c, d}) /\ {c, d} \ {c} = {d} /\ {d} \ {d} = {} /\ IsFiniteSet({d})
  <2>1. IsFiniteSet({d})
    BY FS_Singleton
  <2>2. IsFiniteSet({d} \cup {c})
    BY <2>1, FS_AddElement
  <2>3. {d} \cup {c} = {c, d} /\ {c, d} \ {c} = {d} /\ {d} \ {d} = {}
    BY <1>3
  <2> QED BY <2>1, <2>2, <2>3
<1>8. SumFunctionOnSet(f, {c, d}) = f[c] + SumFunctionOnSet(f, {c, d} \ {c})
  BY <1>3, <1>4, <1>7, SumRemove
<1>9. SumFunctionOnSet(f, {d}) = f[d] + SumFunctionOnSet(f, {d} \ {d})
  BY <1>3, <1>4, <1>7, SumRemove
<1>10. SumFunctionOnSet(f, {c, d}) = f[c] + f[d]
  <2>1. SumFunctionOnSet(f, {d}) = f[d]
    <3>1. SumFunctionOnSet(f, {d} \ {d}) = 0
      <4>1. SumFunctionOnSet(f, {}) = 0
        BY SumEmpty
      <4> QED BY <1>7, <4>1
    <3>2. f[d] \in Int
      BY <1>4
    <3> QED BY <1>9, <3>1, <3>2
  <2> QED BY <1>7, <1>8, <2>1
<1> QED BY <1>1, <1>3, <1>5, <1>6, <1>10, Share_Whole DEF f

-----------------------------------------------------------------------------
(* One till at work: what it and the bills are like after every step *)

TillInv(p) ==
    AloneInv(p) /\ LinesInv(proc[p]) /\ MoneyInv(proc[p]) /\ CoverInv(proc[p]) /\ CardInv(proc[p])

LEMMA Alone_Step ==
    ASSUME NEW p \in Tills, AloneInv(p), StepOf(p)
    PROVE  AloneInv(p)'
<1>1. BillTypes'
  BY Step_Types DEF AloneInv
<1>2. Alone(p)' /\ Stands(proc[p])' /\ Unopened'
  BY Step_Stands
<1> QED BY <1>1, <1>2 DEF AloneInv

LEMMA Till_Step ==
    ASSUME NEW p \in Tills, TillInv(p), StepOf(p)
    PROVE  TillInv(p)'
<1>1. /\ AloneInv(p) /\ LinesInv(proc[p]) /\ MoneyInv(proc[p]) /\ CoverInv(proc[p]) /\ CardInv(proc[p])
      /\ BillTypes
  BY DEF TillInv, AloneInv
<1>2. AloneInv(p)'
  BY <1>1, Alone_Step
<1>3. LinesInv(proc[p])'
  BY <1>1, Step_Lines
<1>4. MoneyInv(proc[p])'
  BY <1>1, Step_Decided
<1>5. CoverInv(proc[p])'
  BY <1>1, Step_Cover
<1>6. CardInv(proc[p])'
  BY <1>1, Step_Card
<1> QED BY <1>2, <1>3, <1>4, <1>5, <1>6 DEF TillInv

LEMMA Till_Stutter ==
    ASSUME NEW p \in Tills, TillInv(p), UNCHANGED vars
    PROVE  TillInv(p)'
<1>1. AloneInv(p)'
  BY DEF vars, TillInv, AloneInv, BillTypes, TypeOK, RowIds, LiveCards, Alone, Stands, Backs, Unopened,
         Of, SalesOn
<1>2. \A b \in Bills : SameRows(b) /\ SalesOn(b)' = SalesOn(b)
  BY Pays_Same DEF vars, SalesOn
<1>3. LinesInv(proc[p])'
  <2>1. \A b \in Bills : (InUse(b)' <=> InUse(b)) /\ (Sized(b)' <=> Sized(b))
    BY <1>2 DEF vars, InUse, Sized, SameRows
  <2> QED BY <2>1 DEF vars, TillInv, LinesInv, InEdit, Sized, SalesOn
<1>4. MoneyInv(proc[p])' /\ CoverInv(proc[p])' /\ CardInv(proc[p])'
  BY DEF vars, TillInv, MoneyInv, CoverInv, CardInv, Covers, Collected, Paid, Tips, Taken, Of, SalesOn,
         InEdit, Pending
<1> QED BY <1>1, <1>3, <1>4 DEF TillInv

LEMMA Alone_Start ==
    ASSUME Start, NEW p \in Tills, Alone(p), proc[p] = IdleProc
    PROVE  AloneInv(p)
<1>1. BillTypes
  BY Start_Types
<1>2. NoBillYet.goods = 0 /\ NoBillYet.gifts = 0 /\ NoBillYet.total = 0 /\ NoSaleYet.on = NoBill
  BY DEF NoBillYet, NoSaleYet
<1>3. Unopened
  BY <1>2, PosBillAssumption DEF Start, Unopened, Of, SalesOn
<1>4. Stands(proc[p])
  BY Idle_Fields DEF Stands, Backs, BillPlaces
<1> QED BY <1>1, <1>3, <1>4 DEF AloneInv

LEMMA Till_Start ==
    ASSUME Start, NEW p \in Tills, Alone(p), proc[p] = IdleProc
    PROVE  TillInv(p)
<1>1. AloneInv(p)
  BY Alone_Start
<1>2. \A b \in Bills : bill[b].status = "NONE" /\ Of(b) = {}
  BY DEF Start, NoBillYet, Of
<1>3. LinesInv(proc[p]) /\ MoneyInv(proc[p]) /\ CoverInv(proc[p])
  BY <1>2, Idle_Fields DEF LinesInv, MoneyInv, CoverInv, InUse, InEdit
<1>4. CardInv(proc[p])
  BY Idle_Fields DEF Start, CardInv
<1> QED BY <1>1, <1>3, <1>4 DEF TillInv

\* A till that takes a step takes part afterwards.
LEMMA Step_Partakes ==
    ASSUME BillTypes, NEW p \in Tills, StepOf(p)
    PROVE  proc'[p].at # "away"
<1>1. Own(p) /\ proc[p].at # "away"
  BY Step_Own, Away_Rests
<1> QED BY <1>1, Here, ProcFields_Typed DEF Own, Plain, Follows, BillPlaces

TillsInv == BillTypes /\ (OneTill => \E p \in Tills : TillInv(p))

LEMMA TillsInv_Step ==
    ASSUME TillsInv, Step
    PROVE  TillsInv' /\ (OneTill' => OneTill)
<1>1. PICK q \in Tills : StepOf(q)
  BY DEF Step
<1>2. BillTypes /\ BillTypes' /\ Own(q) /\ proc[q].at # "away" /\ proc'[q].at # "away"
  BY <1>1, Step_Types, Step_Own, Away_Rests, Step_Partakes DEF TillsInv
<1>3. OneTill' => OneTill
  <2> SUFFICES ASSUME OneTill' PROVE OneTill
    OBVIOUS
  <2>1. PICK p \in Tills : \A o \in Tills \ {p} : proc'[o].at = "away"
    BY DEF OneTill, At
  <2>2. p = q
    BY <1>2, <2>1
  <2>3. \A o \in Tills \ {p} : proc[o].at = "away"
    BY <1>2, <2>1, <2>2 DEF Own
  <2> QED BY <2>3 DEF OneTill, At
<1>4. CASE OneTill
  <2>1. PICK p \in Tills : TillInv(p)
    BY <1>4 DEF TillsInv
  <2>2. p = q
    BY <1>2, <2>1 DEF TillInv, AloneInv, Alone
  <2>3. TillInv(p)'
    BY <1>1, <2>1, <2>2, Till_Step
  <2> QED BY <1>2, <1>3, <2>3 DEF TillsInv
<1> QED BY <1>2, <1>3, <1>4 DEF TillsInv

LEMMA TillsInv_Next == TillsInv /\ [Step]_vars => TillsInv'
<1> SUFFICES ASSUME TillsInv, [Step]_vars PROVE TillsInv'
  OBVIOUS
<1>1. CASE Step
  BY <1>1, TillsInv_Step
<1>2. CASE UNCHANGED vars
  <2>1. BillTypes'
    BY <1>2 DEF TillsInv, BillTypes, TypeOK, RowIds, LiveCards, vars
  <2>2. OneTill' => OneTill
    BY <1>2 DEF OneTill, At, vars
  <2>3. CASE OneTill
    <3>1. PICK p \in Tills : TillInv(p)
      BY <2>3 DEF TillsInv
    <3>2. TillInv(p)'
      BY <1>2, <3>1, Till_Stutter
    <3> QED BY <2>1, <3>2 DEF TillsInv
  <2> QED BY <2>1, <2>2, <2>3 DEF TillsInv
<1> QED BY <1>1, <1>2

LEMMA TillsInv_Init == TillsInit => TillsInv
<1> SUFFICES ASSUME TillsInit PROVE TillsInv
  OBVIOUS
<1>1. PICK working \in (SUBSET Tills) \ {{}} :
         proc = [p \in Tills |-> IF p \in working THEN IdleProc ELSE Away]
  BY DEF TillsInit
<1>2. proc = [p \in Tills |-> IF p \in Tills \ working THEN Away ELSE IdleProc]
  BY <1>1 DEF Away
<1>3. Start
  BY <1>2 DEF TillsInit, Start
<1>4. ASSUME OneTill PROVE \E p \in Tills : TillInv(p)
  <2>1. PICK w \in Tills : \A o \in Tills \ {w} : proc[o].at = "away"
    BY <1>4 DEF OneTill, At
  <2>2. working \subseteq {w}
    BY <1>1, <2>1, Idle_Fields
  <2>3. proc[w] = IdleProc /\ Alone(w)
    BY <1>1, <2>1, <2>2 DEF Alone
  <2> QED BY <1>3, <2>3, Till_Start
<1> QED BY <1>3, <1>4, Start_Types DEF TillsInv

LEMMA Till_Covered ==
    ASSUME NEW p \in Tills, TillInv(p), Idle(p) \/ At(p, "away")
    PROVE  PaidInFull
BY DEF TillInv, CoverInv, Covers, PaidInFull, Idle, At

\* payOrder: "The order closes when the payments (excluding tips) cover the
\* total".  With one request at a time, whatever lines are edited, gift cards
\* added and removed, bills split and merged, payments undone, refunded and
\* reopened in between: between requests every bill that counts as paid had at
\* least its total collected.
THEOREM PaidIsCovered == TillsSpec => []CoveredAlone
<1>1. TillsInv => CoveredAlone
  BY Till_Covered DEF TillsInv, CoveredAlone
<1> QED BY <1>1, TillsInv_Init, TillsInv_Next, PTL DEF TillsSpec

\* The same for a register with a single till.
THEOREM OneTillCovers ==
    ASSUME NEW p, Tills = {p}
    PROVE  Spec => []Covered
<1>1. Init => TillInv(p)
  <2> SUFFICES ASSUME Init PROVE TillInv(p)
    OBVIOUS
  <2>1. proc = [q \in Tills |-> IF q \in {} THEN Away ELSE IdleProc] /\ {} \in SUBSET Tills
    BY DEF Init
  <2>2. Start /\ Alone(p) /\ proc[p] = IdleProc
    BY <2>1 DEF Init, Start, Alone
  <2> QED BY <2>2, Till_Start
<1>2. TillInv(p) /\ [Step]_vars => TillInv(p)'
  BY Till_Step, Till_Stutter DEF Step
<1>3. TillInv(p) => Covered
  BY Till_Covered DEF Covered, AllIdle
<1> QED BY <1>1, <1>2, <1>3, PTL DEF Spec

-----------------------------------------------------------------------------
(* What a step of one till may do to refunds and cards *)

LEMMA Step_Writes ==
    ASSUME NEW p \in Tills, StepOf(p)
    PROVE  UNCHANGED written \/ Record(p) \/ Refund(p)
<1>1. CASE RingUp(p)
  BY <1>1 DEF RingUp, CreateOrder, SetLinesRead, AddGiftCardSaleRead, SplitRead, MergeRead,
              RemoveGiftCardSaleRead, billVars
<1>2. CASE SettleUp(p)
  BY <1>2 DEF SettleUp, PayOrder, RefundOrder, VoidRead, ReopenRead, UndoRead, billVars
<1>3. CASE LineStep(p)
  BY <1>3 DEF LineStep, SetLines, AddGiftCardSale, RemoveGiftCardSale, SyncRead, SyncClear, SyncCreate,
              RecomputeRead, RecomputeWrite, MergeOrders, SplitChild, SplitVoid, billVars
<1>4. CASE PayStep(p)
  BY <1>4 DEF PayStep, PayReread, Debit, SetStatus, IssueList, IssueNext, IssueMark, billVars
<1>5. CASE ReverseStep(p)
  BY <1>5 DEF ReverseStep, UndoDelete, UndoStatus, VoidOrder, ReopenOrder, RefundCards, billVars
<1> QED BY <1>1, <1>2, <1>3, <1>4, <1>5 DEF StepOf

LEMMA Step_Activates ==
    ASSUME BillTypes, NEW p \in Tills, StepOf(p)
    PROVE  (\A s \in Sales : cards'[s] <= cards[s]) \/ \E s \in Sales : IssueNext(p, s)
<1>1. \A s \in Sales : cards[s] <= cards[s]
  BY DEF BillTypes, TypeOK
<1>2. UNCHANGED cards \/ RefundCards(p) \/ \E s \in Sales : IssueNext(p, s)
  <2>1. CASE RingUp(p)
    BY <2>1 DEF RingUp, CreateOrder, SetLinesRead, AddGiftCardSaleRead, SplitRead, MergeRead,
                RemoveGiftCardSaleRead, billVars
  <2>2. CASE SettleUp(p)
    BY <2>2 DEF SettleUp, PayOrder, RefundOrder, VoidRead, ReopenRead, UndoRead, billVars
  <2>3. CASE LineStep(p)
    BY <2>3 DEF LineStep, SetLines, AddGiftCardSale, RemoveGiftCardSale, SyncRead, SyncClear, SyncCreate,
                RecomputeRead, RecomputeWrite, MergeOrders, SplitChild, SplitVoid, billVars
  <2>4. CASE PayStep(p)
    BY <2>4 DEF PayStep, PayReread, Debit, Record, SetStatus, IssueList, IssueMark, billVars
  <2>5. CASE ReverseStep(p)
    BY <2>5 DEF ReverseStep, UndoDelete, UndoStatus, VoidOrder, ReopenOrder, Refund, billVars
  <2> QED BY <2>1, <2>2, <2>3, <2>4, <2>5 DEF StepOf
<1> QED BY <1>1, <1>2, RefundCards_Does

LEMMA Till_Refunds ==
    ASSUME NEW p \in Tills, TillInv(p), StepOf(p)
    PROVE  RefundsWithin
<1>0. BillTypes /\ MoneyInv(proc[p]) /\ B(p) = proc[p].b
  BY DEF TillInv, AloneInv, B
<1> SUFFICES ASSUME NEW b \in Bills, written' # written, Taken(b)' < Taken(b) PROVE Taken(b)' >= 0
  BY DEF RefundsWithin
<1>1. CASE Record(p)
  <2>1. PICK r : /\ NewRow(r) /\ r.bill = B(p) /\ r.amt = proc[p].amt /\ r.tip = proc[p].tip
                 /\ proc[p].at = "record"
    BY <1>0, <1>1, Record_Does
  <2>2. CASE r.bill = b
    <3>1. Taken(r.bill)' = Taken(r.bill) + r.amt + r.tip
      BY <1>0, <2>1, Row_Here
    <3>2. Taken(b)' = Taken(b) + r.amt + r.tip
      BY <2>2, <3>1
    <3>3. Taken(b) \in Int /\ r.amt \in Int /\ r.amt >= 0 /\ r.tip \in Nat
      BY <1>0, <2>1, Bill_Sums, Here, ProcFields_Typed DEF MoneyInv
    <3> QED BY <3>2, <3>3
  <2>3. CASE r.bill # b
    <3>1. Taken(b)' = Taken(b) /\ Taken(b) \in Int
      BY <1>0, <2>1, <2>3, Row_Elsewhere, Bill_Sums DEF SameRows
    <3> QED BY <3>1
  <2> QED BY <2>2, <2>3
<1>2. CASE Refund(p)
  <2>1. PICK r : /\ NewRow(r) /\ r.bill = B(p) /\ r.amt = proc[p].tips - proc[p].amt /\ r.tip = -proc[p].tips
                 /\ proc[p].at = "refund"
    BY <1>0, <1>2, Refund_Does
  <2>2. CASE r.bill = b
    <3>1. Taken(r.bill)' = Taken(r.bill) + r.amt + r.tip
      BY <1>0, <2>1, Row_Here
    <3>2. Taken(b)' = Taken(b) + r.amt + r.tip
      BY <2>2, <3>1
    <3>3. Taken(b) \in Int /\ proc[p].amt \in Int /\ proc[p].tips \in Int
      BY <1>0, Bill_Sums, Here, ProcFields_Typed
    <3>4. proc[p].amt <= Taken(b)
      BY <1>0, <2>1, <2>2 DEF MoneyInv
    <3> QED BY <2>1, <3>2, <3>3, <3>4
  <2>3. CASE r.bill # b
    <3>1. Taken(b)' = Taken(b) /\ Taken(b) \in Int
      BY <1>0, <2>1, <2>3, Row_Elsewhere, Bill_Sums DEF SameRows
    <3> QED BY <3>1
  <2> QED BY <2>2, <2>3
<1> QED BY <1>1, <1>2, Step_Writes

\* applyRefund: "Only ... was paid on this bill".  With one request at a time no
\* refund gives back more than what is left of what was taken on its bill, after
\* any number of payments, earlier refunds, merges and undone payments.
THEOREM RefundsAreBounded == TillsSpec => RefundBounded
<1>1. TillsInv /\ [Step]_vars => [OneTill => RefundsWithin]_vars
  <2> SUFFICES ASSUME TillsInv, Step, OneTill PROVE RefundsWithin
    OBVIOUS
  <2>1. PICK q \in Tills : StepOf(q)
    BY DEF Step
  <2>2. PICK p \in Tills : TillInv(p)
    BY DEF TillsInv
  <2>3. p = q
    BY <2>1, <2>2, Away_Rests DEF TillInv, AloneInv, Alone
  <2> QED BY <2>1, <2>2, <2>3, Till_Refunds
<1> QED BY <1>1, TillsInv_Init, TillsInv_Next, PTL DEF TillsSpec, RefundBounded

LEMMA Till_Cards ==
    ASSUME NEW p \in Tills, TillInv(p), StepOf(p), NEW s \in Sales, cards'[s] > cards[s]
    PROVE  /\ cards[s] = 0
           /\ \E b \in Bills :
                 /\ sale[s].on = b
                 /\ bill[b].status = "PAID"
                 /\ Collected(b) >= bill[b].total
                 /\ bill[b].total >= bill[b].goods + Cardinality(SalesOn(b))
<1>0. /\ BillTypes /\ Stands(proc[p]) /\ LinesInv(proc[p]) /\ CoverInv(proc[p]) /\ CardInv(proc[p])
      /\ B(p) = proc[p].b /\ cards \in [Sales -> 0..2]
  BY DEF TillInv, AloneInv, B, BillTypes, TypeOK
<1>1. BillTypes'
  BY <1>0, Step_Types
<1>2. cards'[s] \in 0..2 /\ cards[s] \in 0..2
  BY <1>0, <1>1 DEF BillTypes, TypeOK
<1>3. PICK x \in Sales : IssueNext(p, x)
  BY <1>0, <1>2, Step_Activates
<1>4. /\ proc[p].at = "issueNext" /\ B(p) \in Bills /\ x \in proc[p].todo
      /\ \A y \in Sales : y # x => cards'[y] = cards[y]
  BY <1>0, <1>3, IssueNext_Does
<1>5. x = s
  BY <1>2, <1>4
<1>6. PICK b \in Bills : b = B(p)
  BY <1>4
<1>7. sale[s].on = b /\ ~sale[s].issued
  BY <1>0, <1>4, <1>5, <1>6 DEF CardInv, Pending, SalesOn
<1>8. cards[s] = 0
  BY <1>0, <1>2, <1>4, <1>7 DEF CardInv
<1>9. bill[b].status = "PAID" /\ Collected(b) >= bill[b].total
  BY <1>0, <1>4, <1>6 DEF Stands, CoverInv, Covers
<1>10. bill[b].total = bill[b].goods + bill[b].gifts /\ Cardinality(SalesOn(b)) <= bill[b].gifts
  BY <1>0, <1>4, <1>9 DEF LinesInv, InUse, InEdit, Sized
<1>11. bill[b].goods \in Nat /\ bill[b].gifts \in Nat /\ Cardinality(SalesOn(b)) \in Nat
  BY <1>0, <1>4, <1>6, Here, Sales_Typed DEF BillRecord
<1> QED BY <1>7, <1>8, <1>9, <1>10, <1>11

\* issuePendingGiftCards and payOrder's "an unpaid or voided bill must never put
\* a live card in someone's hand".  With one request at a time, whatever is
\* settled, reopened, refunded and settled again: a card is activated once, for
\* a sale on a bill that is settled and covered, and the bill's total has the
\* goods and every card sold on it.
THEOREM CardsWerePaidFor == TillsSpec /\ OneTill => CardsArePaidFor
<1> DEFINE Inv == \E p \in Tills : TillInv(p)
<1>1. TillsInit /\ OneTill => Inv
  BY TillsInv_Init DEF TillsInv
<1>2. Inv /\ [Step]_vars => Inv'
  <2> SUFFICES ASSUME NEW p \in Tills, TillInv(p), [Step]_vars PROVE TillInv(p)'
    OBVIOUS
  <2>1. CASE Step
    <3>1. PICK q \in Tills : StepOf(q)
      BY <2>1 DEF Step
    <3>2. p = q
      BY <3>1, Away_Rests DEF TillInv, AloneInv, Alone
    <3> QED BY <3>1, <3>2, Till_Step
  <2> QED BY <2>1, Till_Stutter
<1>3. Inv /\ [Step]_vars
        => [\A s \in Sales : cards'[s] > cards[s] =>
              /\ cards[s] = 0
              /\ \E b \in Bills :
                    /\ sale[s].on = b
                    /\ bill[b].status = "PAID"
                    /\ Collected(b) >= bill[b].total
                    /\ bill[b].total >= bill[b].goods + Cardinality(SalesOn(b))]_vars
  <2> SUFFICES ASSUME NEW p \in Tills, TillInv(p), Step, NEW s \in Sales, cards'[s] > cards[s]
               PROVE  /\ cards[s] = 0
                      /\ \E b \in Bills :
                            /\ sale[s].on = b
                            /\ bill[b].status = "PAID"
                            /\ Collected(b) >= bill[b].total
                            /\ bill[b].total >= bill[b].goods + Cardinality(SalesOn(b))
    OBVIOUS
  <2>1. PICK q \in Tills : StepOf(q)
    BY DEF Step
  <2>2. p = q
    BY <2>1, Away_Rests DEF TillInv, AloneInv, Alone
  <2> QED BY <2>1, <2>2, Till_Cards
<1> HIDE DEF Inv
<1> QED BY <1>1, <1>2, <1>3, PTL DEF TillsSpec, CardsArePaidFor

LEMMA Alone_Crash ==
    ASSUME NEW p \in Tills, AloneInv(p), Crash(p)
    PROVE  AloneInv(p)'
<1>1. BillTypes
  BY DEF AloneInv
<1>2. BillTypes'
  BY <1>1, Crash_Types
<1>3. proc'[p] = IdleProc /\ UNCHANGED <<bill, pays, sale>> /\ \A q \in Tills : q # p => proc'[q] = proc[q]
  BY <1>1, Here DEF Crash, billVars
<1>4. Stands(proc[p])'
  BY <1>3, Idle_Fields DEF Stands, Backs, BillPlaces
<1>5. Alone(p)' /\ Unopened'
  BY <1>3 DEF Alone, AloneInv, Unopened, Of, SalesOn
<1> QED BY <1>2, <1>4, <1>5 DEF AloneInv

\* splitEvenly's "the parts stop adding back up to the whole, which is the one
\* thing a split must never do".  On a register with one till whose requests may
\* die at any step, and whatever the whole is: when the last part has its total
\* and the parent is about to be voided, the parts add up to the parent's lines.
THEOREM PartsAddUp ==
    ASSUME NEW w, Tills = {w}
    PROVE  CrashingSpec => []SplitAddsUp
<1> DEFINE Inv == AloneInv(w) /\ SplitInv(proc[w])
           Next == Step \/ \E p \in Tills : Crash(p)
<1>1. Init => Inv
  <2> SUFFICES ASSUME Init PROVE Inv
    OBVIOUS
  <2>1. proc = [q \in Tills |-> IF q \in {} THEN Away ELSE IdleProc] /\ {} \in SUBSET Tills
    BY DEF Init
  <2>2. Start /\ Alone(w) /\ proc[w] = IdleProc
    BY <2>1 DEF Init, Start, Alone
  <2>3. SplitInv(proc[w])
    BY <2>2, Idle_Fields DEF SplitInv, Splitting
  <2> QED BY <2>2, <2>3, Alone_Start
<1>2. Inv /\ [Next]_vars => Inv'
  <2> SUFFICES ASSUME Inv, [Next]_vars PROVE Inv'
    OBVIOUS
  <2>1. CASE Step
    BY <2>1, Alone_Step, Step_Split DEF Step
  <2>2. CASE \E p \in Tills : Crash(p)
    <3>1. Crash(w) /\ AloneInv(w)'
      BY <2>2, Alone_Crash
    <3>2. proc'[w] = IdleProc
      BY <3>1, Here DEF Crash, AloneInv
    <3>3. SplitInv(proc[w])'
      BY <3>2, Idle_Fields, Split_None DEF Splitting
    <3> QED BY <3>1, <3>3
  <2>3. CASE UNCHANGED vars
    <3>1. AloneInv(w)'
      BY <2>3 DEF vars, AloneInv, BillTypes, TypeOK, RowIds, LiveCards, Alone, Stands, Backs, Unopened,
             Of, SalesOn
    <3>2. SplitInv(proc[w])'
      BY <2>3 DEF vars, SplitInv, Splitting, PartsDone, PartOpen
    <3> QED BY <3>1, <3>2
  <2> QED BY <2>1, <2>2, <2>3
<1>3. Inv => SplitAddsUp
  BY Split_Sum DEF SplitAddsUp, AloneInv
<1> QED BY <1>1, <1>2, <1>3, PTL DEF CrashingSpec

-----------------------------------------------------------------------------
(* Requests that die: one till that sells no gift cards and undoes no payment *)

\* Only bills that are not paid are edited.
EditsOpen(q) == InEdit(q) => bill[q.b].status # "PAID"

LEMMA LineStep_Open ==
    ASSUME NEW p \in Tills, AloneInv(p), CoverInv(proc[p]), EditsOpen(proc[p]), Sales = {}, LineStep(p)
    PROVE  CoverInv(proc[p])' /\ EditsOpen(proc[p])'
<1>0. BillTypes /\ Stands(proc[p]) /\ B(p) = proc[p].b
  BY DEF AloneInv, B
<1>e. \A w \in {proc[p].then, proc[p].catch, proc[p].back} : Ends(p, w) => ~InEdit(proc'[p])
  BY <1>0, Ends_Places DEF InEdit
<1>1. ASSUME proc[p].at \in {"setLines", "syncRead", "syncClear", "syncCreate", "recRead"},
             B(p) \in Bills, OnlyBill(B(p)), SameHead(B(p)), UNCHANGED pays,
             InEdit(proc'[p]), proc'[p].b = proc[p].b
      PROVE  CoverInv(proc[p])' /\ EditsOpen(proc[p])'
  <2>1. PICK b \in Bills : b = B(p)
    BY <1>1
  <2>2. bill[b].status # "PAID"
    BY <1>0, <1>1, <2>1 DEF EditsOpen, InEdit, Stands
  <2>3. bill'[b].status # "PAID"
    BY <1>1, <2>1, <2>2 DEF SameHead
  <2> QED BY <1>0, <1>1, <2>1, <2>2, <2>3, Cover_Edit DEF SameHead, EditsOpen
<1>2. CASE SetLines(p)
  BY <1>0, <1>1, <1>2, SetLines_Does DEF GoesTo, Keeps, InEdit
<1>3. CASE SyncRead(p)
  BY <1>0, <1>1, <1>3, SyncRead_Does DEF KeepsBut, billVars, InEdit, OnlyBill, SameHead
<1>4. CASE SyncClear(p)
  BY <1>0, <1>1, <1>4, SyncClear_Does DEF GoesTo, Keeps, InEdit
<1>5. CASE SyncCreate(p)
  BY <1>0, <1>1, <1>5, SyncCreate_Does DEF KeepsBut, InEdit
<1>6. CASE RecomputeRead(p)
  BY <1>0, <1>1, <1>6, RecomputeRead_Does DEF KeepsBut, billVars, InEdit, OnlyBill, SameHead
<1>7. CASE RecomputeWrite(p)
  <2>1. /\ proc[p].at = "recWrite" /\ B(p) \in Bills /\ OnlyBill(B(p))
        /\ bill'[B(p)].status = bill[B(p)].status /\ Ends(p, proc[p].back) /\ UNCHANGED pays
    BY <1>0, <1>7, RecomputeWrite_Does
  <2>2. PICK b \in Bills : b = B(p)
    BY <2>1
  <2>3. bill'[b].status # "PAID"
    BY <1>0, <2>1, <2>2 DEF EditsOpen, InEdit
  <2>4. ~InEdit(proc'[p])
    BY <1>e, <2>1
  <2> QED BY <2>1, <2>2, <2>3, <2>4, Cover_One DEF EditsOpen
<1>8. CASE MergeOrders(p)
  <2>1. /\ proc[p].at = "merge" /\ B(p) \in Bills /\ proc[p].other \in Bills /\ B(p) # proc[p].other
        /\ GoesTo(p, "recRead") /\ MovedRows(B(p), proc[p].other)
        /\ \A c \in Bills \ {B(p), proc[p].other} : bill'[c] = bill[c]
        /\ SameHead(B(p)) /\ bill'[proc[p].other].status = "VOID"
    BY <1>0, <1>8, MergeOrders_Does
  <2>2. PICK t \in Bills : t = B(p)
    BY <2>1
  <2>3. PICK u \in Bills : u = proc[p].other
    BY <2>1
  <2>4. bill'[t].status = "OPEN" /\ bill'[u].status = "VOID"
    BY <1>0, <2>1, <2>2, <2>3 DEF Stands, SameHead
  <2>5. \A c \in Bills \ {t, u} : SameRows(c)
    BY <1>0, <2>1, <2>2, <2>3, Merge_Elsewhere
  <2>6. \A c \in Bills : bill'[c].status = "PAID" => Covers(c)'
    BY <2>1, <2>2, <2>3, <2>4, <2>5 DEF CoverInv, Covers, SameRows
  <2>7. proc'[p].b = t
    BY <1>0, <2>1, <2>2 DEF GoesTo, Keeps
  <2> QED BY <2>4, <2>6, <2>7 DEF CoverInv, EditsOpen
<1>9. ASSUME NEW c \in Bills, SplitChild(p, c) PROVE CoverInv(proc[p])' /\ EditsOpen(proc[p])'
  <2>1. /\ proc[p].at = "splitNext" /\ OnlyBill(c) /\ bill'[c].status = "OPEN" /\ proc'[p].b = c
        /\ UNCHANGED pays
    BY <1>0, <1>9, SplitChild_Does
  <2>2. \A d \in Bills : bill'[d].status = "PAID" => Covers(d)'
    BY <2>1, Pays_Same DEF CoverInv, Covers, SameRows, OnlyBill
  <2> QED BY <2>1, <2>2 DEF CoverInv, EditsOpen
<1>10. CASE SplitVoid(p)
  <2>1. /\ proc[p].at = "splitNext" /\ proc[p].other \in Bills /\ OnlyBill(proc[p].other)
        /\ bill'[proc[p].other].status = "VOID" /\ Ends(p, proc[p].then) /\ UNCHANGED <<pays, sale>>
    BY <1>0, <1>10, SplitVoid_Does
  <2> QED BY <1>e, <2>1, Cover_One DEF EditsOpen
<1>11. CASE RemoveGiftCardSale(p)
  <2>1. Ends(p, proc[p].catch) /\ proc[p].at = "removeSale" /\ UNCHANGED <<bill, pays>>
    BY <1>0, <1>11, RemoveGiftCardSale_Does
  <2> QED BY <1>e, <2>1, Cover_Same DEF EditsOpen
<1> QED BY <1>2, <1>3, <1>4, <1>5, <1>6, <1>7, <1>8, <1>9, <1>10, <1>11 DEF LineStep

\* Other requests begin no edit, but for the first payment of an open bill.
LEMMA Other_Open ==
    ASSUME NEW p \in Tills, AloneInv(p), EditsOpen(proc[p]),
           RingUp(p) \/ SettleUp(p) \/ PayStep(p) \/ ReverseStep(p)
    PROVE  EditsOpen(proc[p])'
<1>0. BillTypes
  BY DEF AloneInv
<1>e. \A w \in {proc[p].then, proc[p].catch} : Ends(p, w) => ~InEdit(proc'[p])
  BY <1>0, Ends_Places DEF InEdit
<1>1. CASE RingUp(p)
  <2>1. ASSUME NEW b \in Bills, CreateOrder(p, b) PROVE ~InEdit(proc'[p])
    BY <1>0, <2>1, CreateOrder_Does DEF InEdit
  <2>2. ASSUME NEW b \in Bills, NEW goods \in 0..MaxGoods, SetLinesRead(p, b, goods)
        PROVE  ~InEdit(proc'[p])
    BY <1>0, <2>2, SetLinesRead_Does DEF Asks, InEdit
  <2>3. ASSUME NEW b \in Bills, AddGiftCardSaleRead(p, b) PROVE ~InEdit(proc'[p])
    BY <1>0, <2>3, Begin_Does DEF AddGiftCardSaleRead, Asks, InEdit
  <2>4. ASSUME NEW b \in Bills, SplitRead(p, b) PROVE ~InEdit(proc'[p])
    BY <1>0, <2>4, SplitRead_Does DEF Asks, InEdit
  <2>5. ASSUME NEW b \in Bills, NEW source \in Bills, MergeRead(p, b, source) PROVE ~InEdit(proc'[p])
    BY <1>0, <2>5, MergeRead_Does DEF Asks, InEdit
  <2>6. ASSUME NEW s \in Sales, RemoveGiftCardSaleRead(p, s) PROVE ~InEdit(proc'[p])
    BY <1>0, <2>6, RemoveGiftCardSaleRead_Does DEF Asks, InEdit
  <2> QED BY <1>1, <2>1, <2>2, <2>3, <2>4, <2>5, <2>6 DEF RingUp, EditsOpen
<1>2. CASE SettleUp(p)
  <2>1. ASSUME NEW b \in Bills, NEW method \in TillTenders, NEW want \in 0..MaxGoods,
               NEW tip \in 0..MaxTip, PayOrder(p, b, method, want, tip)
        PROVE  EditsOpen(proc[p])'
    <3>1. UNCHANGED bill /\ (Rests(p) \/ Paying(p, b))
      BY <1>0, <2>1, PayOrder_Does DEF billVars
    <3> QED BY <3>1, Idle_Fields DEF Rests, Paying, EditsOpen, InEdit
  <2>2. ASSUME NEW b \in Bills, NEW method \in {"CASH", "REFUND"}, NEW want \in 0..MaxGoods,
               RefundOrder(p, b, method, want)
        PROVE  EditsOpen(proc[p])'
    <3>1. Rests(p) \/ Asks(p, "refund", b)
      BY <1>0, <2>2, RefundOrder_Does
    <3> QED BY <3>1, Idle_Fields DEF Rests, Asks, EditsOpen, InEdit
  <2>3. ASSUME NEW b \in Bills, VoidRead(p, b) \/ ReopenRead(p, b) PROVE EditsOpen(proc[p])'
    BY <1>0, <2>3, Begin_Does DEF VoidRead, ReopenRead, Asks, EditsOpen, InEdit
  <2>4. ASSUME NEW r \in pays, UndoRead(p, r) PROVE EditsOpen(proc[p])'
    BY <1>0, <2>4, UndoRead_Does DEF Asks, EditsOpen, InEdit
  <2> QED BY <1>2, <2>1, <2>2, <2>3, <2>4 DEF SettleUp
<1>3. CASE PayStep(p)
  <2>1. CASE PayReread(p)
    <3>1. proc'[p] = IdleProc \/ proc'[p].at = proc[p].catch \/ DecidedOn(p, B(p))
      BY <1>0, <2>1, PayReread_Does
    <3> QED BY <1>0, <3>1, Here, ProcFields_Typed, Idle_Fields DEF InEdit, DecidedOn, EditsOpen
  <2>2. CASE Debit(p) \/ Record(p) \/ SetStatus(p)
    BY <1>0, <1>e, <2>2, Debit_Does, Record_Does, SetStatus_Does DEF GoesTo, InEdit, EditsOpen
  <2>3. CASE IssueList(p) \/ IssueMark(p)
    BY <1>0, <1>e, <2>3, IssueList_Does, IssueMark_Does DEF InEdit, EditsOpen
  <2>4. ASSUME NEW s \in Sales, IssueNext(p, s) PROVE EditsOpen(proc[p])'
    BY <1>0, <1>e, <2>4, IssueNext_Does DEF InEdit, EditsOpen
  <2> QED BY <1>3, <2>1, <2>2, <2>3, <2>4 DEF PayStep
<1>4. CASE ReverseStep(p)
  BY <1>0, <1>e, <1>4, UndoDelete_Does, UndoStatus_Does, VoidOrder_Does, ReopenOrder_Does, Refund_Does,
     RefundCards_Does DEF ReverseStep, GoesTo, InEdit, EditsOpen
<1> QED BY <1>1, <1>2, <1>3, <1>4

\* The status of a bill is taken back only when its payment was deleted.
LEMMA Undoing_Follows ==
    ASSUME NEW p \in Tills, AloneInv(p), StepOf(p), proc'[p].at = "undoStatus"
    PROVE  proc[p].at = "undoDelete"
<1>0. BillTypes /\ Stands(proc[p])
  BY DEF AloneInv
<1>1. CASE Steady(p) \/ NewHere(p)
  BY <1>1 DEF Steady, NewHere
<1>2. CASE UndoDelete(p)
  BY <1>0, <1>2, UndoDelete_Does
<1>3. CASE UndoStatus(p)
  BY <1>0, <1>3, UndoStatus_Does, Ends_Places
<1>4. CASE MergeOrders(p)
  BY <1>0, <1>4, MergeOrders_Does DEF GoesTo
<1> QED BY <1>0, <1>1, <1>2, <1>3, <1>4, Step_Sorts

NobodyUndoes == \A p \in Tills : proc[p].at # "undoDelete"

QuietInv(p) ==
    /\ AloneInv(p) /\ MoneyInv(proc[p]) /\ CoverInv(proc[p]) /\ EditsOpen(proc[p])
    /\ proc[p].at # "undoStatus"

LEMMA Quiet_Step ==
    ASSUME NEW p \in Tills, QuietInv(p), NobodyUndoes, Sales = {}, StepOf(p)
    PROVE  QuietInv(p)'
<1>0. AloneInv(p) /\ BillTypes /\ MoneyInv(proc[p]) /\ CoverInv(proc[p]) /\ EditsOpen(proc[p])
  BY DEF QuietInv, AloneInv
<1>1. AloneInv(p)'
  BY <1>0, Alone_Step
<1>2. MoneyInv(proc[p])'
  BY <1>0, Step_Decided
<1>3. CoverInv(proc[p])' /\ EditsOpen(proc[p])'
  <2>1. CASE LineStep(p)
    BY <1>0, <2>1, LineStep_Open
  <2>2. CASE ~LineStep(p)
    BY <1>0, <2>2, Other_Open, RingUp_Cover, SettleUp_Cover, PayStep_Cover, ReverseStep_Cover DEF StepOf
  <2> QED BY <2>1, <2>2
<1>4. proc'[p].at # "undoStatus"
  BY <1>0, Undoing_Follows DEF NobodyUndoes
<1> QED BY <1>1, <1>2, <1>3, <1>4 DEF QuietInv

\* Nothing that a bill counts for is in a request that dies.
LEMMA Quiet_Crash ==
    ASSUME NEW p \in Tills, QuietInv(p), Crash(p)
    PROVE  QuietInv(p)'
<1>0. AloneInv(p) /\ BillTypes /\ CoverInv(proc[p]) /\ proc[p].at # "undoStatus"
  BY DEF QuietInv, AloneInv
<1>1. proc'[p] = IdleProc /\ UNCHANGED <<bill, pays, sale>>
  BY <1>0, Here DEF Crash, billVars
<1>2. AloneInv(p)'
  BY <1>0, Alone_Crash
<1>3. MoneyInv(proc[p])' /\ EditsOpen(proc[p])'
  BY <1>1, Idle_Fields DEF MoneyInv, EditsOpen, InEdit
<1>4. CoverInv(proc[p])'
  BY <1>0, <1>1, Idle_Fields, Cover_Same DEF InEdit
<1> QED BY <1>1, <1>2, <1>3, <1>4, Idle_Fields DEF QuietInv

\* The same when requests die at any step, at a till that sells no gift cards and
\* undoes no payment.  (A request that dies between the deletion of a payment and
\* the status of its bill leaves the bill paid; one that dies between a sale of
\* a gift card and its line leaves a bill whose total grows at the next edit.)
THEOREM CrashesCover ==
    ASSUME NEW w, Tills = {w}, Sales = {}
    PROVE  CrashingSpec /\ []NobodyUndoes => []Covered
<1> DEFINE Next == Step \/ \E p \in Tills : Crash(p)
<1>1. Init => QuietInv(w)
  <2> SUFFICES ASSUME Init PROVE QuietInv(w)
    OBVIOUS
  <2>1. proc = [q \in Tills |-> IF q \in {} THEN Away ELSE IdleProc] /\ {} \in SUBSET Tills
    BY DEF Init
  <2>2. Start /\ Alone(w) /\ proc[w] = IdleProc
    BY <2>1 DEF Init, Start, Alone
  <2>3. TillInv(w)
    BY <2>2, Till_Start
  <2> QED BY <2>2, <2>3, Idle_Fields DEF TillInv, QuietInv, EditsOpen, InEdit
<1>2. QuietInv(w) /\ NobodyUndoes /\ [Next]_vars => QuietInv(w)'
  <2> SUFFICES ASSUME QuietInv(w), NobodyUndoes, [Next]_vars PROVE QuietInv(w)'
    OBVIOUS
  <2>1. CASE Step
    BY <2>1, Quiet_Step DEF Step
  <2>2. CASE \E p \in Tills : Crash(p)
    BY <2>2, Quiet_Crash
  <2>3. CASE UNCHANGED vars
    <3>1. AloneInv(w)'
      BY <2>3 DEF vars, QuietInv, AloneInv, BillTypes, TypeOK, RowIds, LiveCards, Alone, Stands, Backs,
                  Unopened, Of, SalesOn
    <3>2. MoneyInv(proc[w])' /\ CoverInv(proc[w])' /\ EditsOpen(proc[w])' /\ proc'[w].at # "undoStatus"
      BY <2>3 DEF vars, QuietInv, MoneyInv, CoverInv, Covers, Collected, Paid, Tips, Taken, Of, SalesOn,
                  InEdit, EditsOpen
    <3> QED BY <3>1, <3>2 DEF QuietInv
  <2> QED BY <2>1, <2>2, <2>3
<1>3. QuietInv(w) => Covered
  BY DEF QuietInv, CoverInv, Covers, Covered, AllIdle, Idle, At, PaidInFull
<1> QED BY <1>1, <1>2, <1>3, PTL DEF CrashingSpec
=============================================================================
