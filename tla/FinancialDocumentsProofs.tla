----------------------- MODULE FinancialDocumentsProofs -----------------------
(***************************************************************************)
(* Theorems about FinancialDocuments, for any number of requests, cards    *)
(* and documents, with transactions that fail and requests that die.       *)
(***************************************************************************)
EXTENDS FinancialDocuments, SumTheorems, SequenceTheorems

-----------------------------------------------------------------------------
(* The inductive invariant *)

\* What a request knows at its stage, when there are n documents.
Fits(q, n) ==
    /\ q \in Request
    /\ q.sale <= n
    /\ q.at \in {"check", "number", "insert"} /\ q.series = "sale" => q.card \in Cards /\ q.sale = 0
    /\ q.series = "credit" => q.at \in {"number", "insert"} /\ q.sale # 0
    /\ q.at \in {"reconcile", "credit", "email"} => q.sale # 0
    /\ q.at = "email" => q.source \in {"AUTO_STRIPE", "CATCH_UP"}

Fitting == \A r \in Requests : Fits(proc[r], Len(doc))

\* The row of a series is held by the transaction that has its number in hand.
Holds(q, s) == q.at = "insert" /\ q.series = s
Locked ==
    /\ \A r \in Requests, s \in Series : holder[s] = r <=> Holds(proc[r], s)
    /\ \A s \in Series : holder[s] # Nobody => last[s] > 0

\* The one request that may still mail a receipt.
Mails(q) == q.source \in {"AUTO_STRIPE", "CATCH_UP"} /\ q.sale # 0
Mailed ==
    /\ \A r \in Requests : Mails(proc[r]) => doc[proc[r].sale].mails = 0
    /\ \A r, q \in Requests :
          Mails(proc[r]) /\ Mails(proc[q]) /\ proc[r].sale = proc[q].sale => r = q
    /\ \A i \in Documents : doc[i].mails <= 1

OneLive == \A c \in Cards : \A i, j \in LiveSales(c) : i = j

IInv == DocumentsTypeOK /\ Fitting /\ Locked /\ Mailed /\ OneLive /\ GapFree

-----------------------------------------------------------------------------
(* Requests that move without touching a document *)

LEMMA IdleFits == \A n \in Nat : Fits(Idle, n)
BY DEF Fits, Idle, Request, Sources, Series

\* A request goes to a stage outside a transaction.
LEMMA Moves ==
    ASSUME IInv, NEW r \in Requests, NEW q, Fits(q, Len(doc)), proc[r].at # "insert", q.at # "insert",
           Mails(q) => Mails(proc[r]) /\ q.sale = proc[r].sale,
           proc' = [proc EXCEPT ![r] = q], paid' \subseteq Cards, UNCHANGED <<refund, doc, last, holder>>
    PROVE  IInv'
<1> USE DEF IInv
<1>1. DocumentsTypeOK'
  BY DEF DocumentsTypeOK, Fits
<1>2. proc \in [Requests -> Request] /\ proc'[r] = q /\ \A p \in Requests : p # r => proc'[p] = proc[p]
  BY DEF DocumentsTypeOK
<1>3. Fitting'
  BY <1>2 DEF Fitting, Fits, Request
<1>4. Locked'
  BY <1>2 DEF Locked, Holds
<1>5. Mailed'
  BY <1>2 DEF Mailed, Mails, Documents
<1>6. OneLive' /\ GapFree'
  BY DEF OneLive, LiveSales, GapFree, Documents
<1> QED BY <1>1, <1>3, <1>4, <1>5, <1>6

\* What is left of a catch-up.
LEMMA OverGoes ==
    ASSUME IInv, NEW r \in Requests, Over(r)
    PROVE  \E q : /\ proc' = [proc EXCEPT ![r] = q]
                  /\ q.at \in {"idle", "check"} /\ q.sale = 0
                  /\ \A n \in Nat : Fits(q, n)
<1> DEFINE todo == proc[r].todo
           c == CHOOSE c \in todo : TRUE
           next == [Idle EXCEPT !.at = "check", !.source = "CATCH_UP", !.card = c, !.todo = todo \ {c}]
<1>1. CASE todo = {}
  BY <1>1, IdleFits DEF Over, Idle
<1>2. CASE todo # {}
  <2>1. todo \subseteq Cards /\ c \in todo
    BY <1>2 DEF IInv, DocumentsTypeOK, Request
  <2>2. proc' = [proc EXCEPT ![r] = next]
    BY <1>2 DEF Over
  <2>3. next.at = "check" /\ next.sale = 0 /\ \A n \in Nat : Fits(next, n)
    <3> HIDE DEF c, todo
    <3>1. next.at = "check" /\ next.sale = 0 /\ next.card = c /\ next.series = "sale"
      BY DEF Idle
    <3>2. next \in Request
      <4>1. Idle \in Request
        BY IdleFits DEF Fits
      <4> QED BY <2>1, <4>1 DEF Request, Sources
    <3> HIDE DEF next
    <3> QED BY <2>1, <3>1, <3>2 DEF Fits
  <2> HIDE DEF next
  <2> QED BY <2>2, <2>3
<1> QED BY <1>1, <1>2

LEMMA OverMoves ==
    ASSUME IInv, NEW r \in Requests, Over(r), proc[r].at # "insert", paid' \subseteq Cards,
           UNCHANGED <<refund, doc, last, holder>>
    PROVE  IInv'
<1>1. PICK q : /\ proc' = [proc EXCEPT ![r] = q]
               /\ q.at \in {"idle", "check"} /\ q.sale = 0
               /\ \A n \in Nat : Fits(q, n)
  BY OverGoes
<1>2. Len(doc) \in Nat
  BY DEF IInv, DocumentsTypeOK
<1> QED BY <1>1, <1>2, Moves DEF Mails

-----------------------------------------------------------------------------
(* Numbers *)

Rows(s) == {i \in Documents : doc[i].series = s}

LEMMA RowsFinite == ASSUME DocumentsTypeOK, NEW s PROVE IsFiniteSet(Rows(s)) /\ Cardinality(Rows(s)) \in Nat
<1>1. Len(doc) \in Nat
  BY DEF DocumentsTypeOK
<1>2. IsFiniteSet(1..Len(doc)) /\ Rows(s) \subseteq 1..Len(doc)
  BY <1>1, FS_Interval DEF Rows, Documents
<1> QED BY <1>2, FS_Subset, FS_CardinalityType

\* No document comes, none changes its series or number.
LEMMA NumberFrame ==
    ASSUME GapFree, Documents' = Documents,
           \A i \in Documents : doc'[i].series = doc[i].series /\ doc'[i].number = doc[i].number,
           UNCHANGED <<last, holder>>
    PROVE  GapFree'
<1>1. \A s : Rows(s)' = Rows(s)
  BY DEF Rows
<1>2. \A s \in Series : \A i \in Rows(s) : doc[i].number = Cardinality({j \in Rows(s) : j <= i})
  BY DEF GapFree, Rows
<1>3. \A s \in Series : \A i \in Rows(s) : doc'[i].number = doc[i].number
  BY DEF Rows
<1>4. \A s \in Series : last[s] = Cardinality(Rows(s)) + (IF holder[s] = Nobody THEN 0 ELSE 1)
  BY DEF GapFree, Rows
<1>5. \A s \in Series : \A i \in Rows(s)' : doc'[i].number = Cardinality({j \in Rows(s)' : j <= i})
  BY <1>1, <1>2, <1>3
<1>6. \A s \in Series : last'[s] = Cardinality(Rows(s)') + (IF holder'[s] = Nobody THEN 0 ELSE 1)
  BY <1>1, <1>4
<1> QED BY <1>5, <1>6 DEF GapFree, Rows

LEMMA NumberTaken ==
    ASSUME IInv, NEW r \in Requests, TakeNumber(r), r # Nobody
    PROVE  GapFree'
<1> DEFINE s == proc[r].series
<1>1. s \in Series /\ holder[s] = Nobody /\ doc' = doc
  BY DEF IInv, DocumentsTypeOK, Request, TakeNumber
<1>2. last' = [last EXCEPT ![s] = last[s] + 1] /\ holder' = [holder EXCEPT ![s] = r]
  BY DEF TakeNumber
<1>3. last \in [Series -> Nat] /\ holder \in [Series -> Requests \cup {Nobody}]
  BY DEF IInv, DocumentsTypeOK
<1>4. \A t \in Series : Cardinality(Rows(t)) \in Nat
  BY RowsFinite DEF IInv
<1>5. \A t \in Series : last[t] = Cardinality(Rows(t)) + (IF holder[t] = Nobody THEN 0 ELSE 1)
  BY DEF IInv, GapFree, Rows
<1> HIDE DEF s
<1>6. \A t \in Series : last'[t] = Cardinality(Rows(t)) + (IF holder'[t] = Nobody THEN 0 ELSE 1)
  BY <1>1, <1>2, <1>3, <1>4, <1>5
<1>7. \A t : Rows(t)' = Rows(t)
  BY <1>1 DEF Rows, Documents
<1> QED BY <1>1, <1>6, <1>7 DEF IInv, GapFree, Rows, Documents

LEMMA NumberBack ==
    ASSUME IInv, NEW r \in Requests, RollBack(r), r # Nobody
    PROVE  GapFree' /\ last' \in [Series -> Nat] /\ holder' \in [Series -> Requests \cup {Nobody}]
<1>1. last \in [Series -> Nat] /\ holder \in [Series -> Requests \cup {Nobody}]
  BY DEF IInv, DocumentsTypeOK
<1>2. \A t \in Series : Cardinality(Rows(t)) \in Nat
  BY RowsFinite DEF IInv
<1>3. \A t \in Series : last[t] = Cardinality(Rows(t)) + (IF holder[t] = Nobody THEN 0 ELSE 1)
  BY DEF IInv, GapFree, Rows
<1>4. \A t \in Series : last'[t] = Cardinality(Rows(t)) + (IF holder'[t] = Nobody THEN 0 ELSE 1)
  BY <1>1, <1>2, <1>3 DEF RollBack
<1>5. \A t : Rows(t)' = Rows(t)
  BY DEF RollBack, Rows, Documents
<1>6. GapFree'
  BY <1>4, <1>5 DEF IInv, GapFree, Rows, Documents, RollBack
<1>7. \A t \in Series : holder[t] = r => last[t] - 1 \in Nat
  BY <1>1, <1>2, <1>3
<1> QED BY <1>1, <1>6, <1>7 DEF RollBack

LEMMA NumberUsed ==
    ASSUME IInv, NEW r \in Requests, r # Nobody, NEW s \in Series, holder[s] = r,
           NEW rec, rec.series = s, rec.number = last[s], doc' = Append(doc, rec),
           holder' = [holder EXCEPT ![s] = Nobody], last' = last
    PROVE  GapFree'
<1> DEFINE n == Len(doc)
<1>1. n \in Nat /\ Documents = 1..n /\ Documents' = 1..(n + 1)
  BY DEF IInv, DocumentsTypeOK, Documents
<1>2. doc'[n + 1] = rec /\ \A i \in 1..n : doc'[i] = doc[i]
  BY DEF IInv, DocumentsTypeOK
<1>3. Rows(s)' = Rows(s) \cup {n + 1} /\ \A t \in Series : t # s => Rows(t)' = Rows(t)
  BY <1>1, <1>2 DEF Rows
<1>4. IsFiniteSet(Rows(s)) /\ n + 1 \notin Rows(s) /\ Cardinality(Rows(s)) \in Nat
  <2>1. n + 1 \notin Rows(s)
    BY <1>1 DEF Rows
  <2> QED BY <2>1, RowsFinite DEF IInv
<1>5. Cardinality(Rows(s)') = Cardinality(Rows(s)) + 1
  BY <1>3, <1>4, FS_AddElement
<1>6. last[s] = Cardinality(Rows(s)) + 1
  BY DEF IInv, GapFree, Rows
<1>7. \A t \in Series : last'[t] = Cardinality(Rows(t)') + (IF holder'[t] = Nobody THEN 0 ELSE 1)
  <2>1. holder' \in [Series -> Requests \cup {Nobody}] /\ holder'[s] = Nobody
    BY DEF IInv, DocumentsTypeOK
  <2>2. \A t \in Series : t # s => holder'[t] = holder[t]
    BY DEF IInv, DocumentsTypeOK
  <2>3. \A t \in Series : last[t] = Cardinality(Rows(t)) + (IF holder[t] = Nobody THEN 0 ELSE 1)
    BY DEF IInv, GapFree, Rows
  <2>4. last'[s] = Cardinality(Rows(s)')
    BY <1>5, <1>6
  <2>5. last'[s] = Cardinality(Rows(s)') + 0
    BY <1>4, <1>5, <2>4
  <2> QED BY <1>3, <2>1, <2>2, <2>3, <2>5
<1>8. ASSUME NEW t \in Series, NEW i \in Rows(t)'
      PROVE  doc'[i].number = Cardinality({j \in Rows(t)' : j <= i})
  <2>1. CASE i = n + 1
    <3>1. t = s /\ {j \in Rows(t)' : j <= i} = Rows(s)'
      BY <1>1, <1>2, <1>8, <2>1 DEF Rows
    <3> QED BY <1>2, <1>5, <1>6, <2>1, <3>1
  <2>2. CASE i # n + 1
    <3>1. i \in Rows(t) /\ {j \in Rows(t)' : j <= i} = {j \in Rows(t) : j <= i}
      BY <1>1, <1>2, <1>3, <1>8, <2>2 DEF Rows
    <3>2. doc'[i].number = doc[i].number
      BY <1>1, <1>2, <3>1 DEF Rows
    <3> QED BY <3>1, <3>2 DEF IInv, GapFree, Rows
  <2> QED BY <2>1, <2>2
<1> QED BY <1>7, <1>8 DEF GapFree, Rows

-----------------------------------------------------------------------------
(* Requests between transactions *)

LEMMA SalesKnown ==
    ASSUME IInv, NEW c \in Cards, LiveSales(c) # {}
    PROVE  Max(LiveSales(c)) \in Documents
<1>1. PICK i \in LiveSales(c) : LiveSales(c) = {i}
  BY DEF IInv, OneLive
<1>2. i \in Documents /\ i \in Nat
  BY <1>1 DEF LiveSales, Documents, IInv, DocumentsTypeOK
<1> QED BY <1>1, <1>2 DEF Max

LEMMA StartStep ==
    ASSUME IInv, NEW r \in Requests, Start(r)
    PROVE  IInv'
<1> USE DEF IInv, DocumentsTypeOK
<1>1. ASSUME NEW q, Fits(q, Len(doc)), proc[r].at = "idle", q.at # "insert", ~Mails(q),
             proc' = [proc EXCEPT ![r] = q], paid' \subseteq Cards, UNCHANGED <<refund, doc, last, holder>>
      PROVE  IInv'
  BY <1>1, Moves
<1>2. /\ Idle \in Request /\ Len(doc) \in Nat
      /\ Idle.series = "sale" /\ Idle.sale = 0 /\ Idle.source = "MANUAL"
  <2>1. Len(doc) \in Nat
    OBVIOUS
  <2>2. Idle \in Request
    BY <2>1, IdleFits DEF Fits
  <2> QED BY <2>1, <2>2 DEF Idle
<1>3. ASSUME NEW c \in Cards, Issue(r, c) PROVE IInv'
  <2> DEFINE q == [Idle EXCEPT !.at = "check", !.card = c]
  <2>1. Fits(q, Len(doc)) /\ q.at = "check" /\ q.source = "MANUAL"
    <3>1. q \in Request
      BY <1>2 DEF Request, Sources
    <3>2. q.at = "check" /\ q.source = "MANUAL" /\ q.sale = 0 /\ q.card = c /\ q.series = "sale"
      BY <1>2 DEF Request
    <3> HIDE DEF q
    <3> QED BY <1>2, <3>1, <3>2 DEF Fits, Documents
  <2>2. proc' = [proc EXCEPT ![r] = q]
    BY <1>3 DEF Issue
  <2> HIDE DEF q
  <2> QED BY <1>1, <1>3, <2>1, <2>2 DEF Issue, Mails
<1>4. ASSUME NEW c \in Cards, CardPaid(r, c) PROVE IInv'
  <2> DEFINE q == [Idle EXCEPT !.at = "check", !.source = "AUTO_STRIPE", !.card = c]
  <2>1. Fits(q, Len(doc)) /\ q.at = "check" /\ q.sale = 0
    <3>1. q \in Request
      BY <1>2 DEF Request, Sources
    <3>2. q.at = "check" /\ q.sale = 0 /\ q.card = c /\ q.series = "sale"
      BY <1>2 DEF Request
    <3> HIDE DEF q
    <3> QED BY <1>2, <3>1, <3>2 DEF Fits, Documents
  <2>2. proc' = [proc EXCEPT ![r] = q]
    BY <1>4 DEF CardPaid
  <2> HIDE DEF q
  <2> QED BY <1>1, <1>4, <2>1, <2>2 DEF CardPaid, Mails
<1>5. CASE CatchUp(r)
  <2> DEFINE c == CHOOSE c \in Missed : TRUE
             q == [Idle EXCEPT !.at = "check", !.source = "CATCH_UP", !.card = c, !.todo = Missed \ {c}]
  <2>1. c \in Missed /\ Missed \subseteq Cards
    BY <1>5 DEF CatchUp, Missed
  <2>2. Fits(q, Len(doc)) /\ q.at = "check" /\ q.sale = 0
    <3> HIDE DEF c
    <3>1. q \in Request
      BY <1>2, <2>1 DEF Request, Sources
    <3>2. q.at = "check" /\ q.sale = 0 /\ q.card = c /\ q.series = "sale"
      BY <1>2 DEF Request
    <3> HIDE DEF q
    <3> QED BY <1>2, <2>1, <3>1, <3>2 DEF Fits, Documents
  <2>3. proc' = [proc EXCEPT ![r] = q]
    BY <1>5 DEF CatchUp
  <2> HIDE DEF q
  <2> QED BY <1>1, <1>5, <2>2, <2>3 DEF CatchUp, Mails
<1>6. ASSUME NEW f \in Refunds, RefundEvent(r, f) PROVE IInv'
  <2> DEFINE i == Max(LiveSales(refund[f].card))
             q == [Idle EXCEPT !.at = "reconcile", !.source = "STRIPE_REFUND", !.sale = i]
  <2>1. i \in Documents
    BY <1>6, SalesKnown DEF RefundEvent
  <2>2. Fits(q, Len(doc)) /\ q.at = "reconcile" /\ q.source = "STRIPE_REFUND"
    <3> HIDE DEF i
    <3>1. q \in Request
      <4>1. i \in Nat
        BY <2>1 DEF Documents
      <4> QED BY <1>2, <4>1 DEF Request, Sources
    <3>2. q.at = "reconcile" /\ q.source = "STRIPE_REFUND" /\ q.sale = i /\ q.series = "sale"
      BY <1>2 DEF Request
    <3> HIDE DEF q
    <3> QED BY <1>2, <2>1, <3>1, <3>2 DEF Fits, Documents
  <2>3. proc' = [proc EXCEPT ![r] = q]
    BY <1>6 DEF RefundEvent
  <2> HIDE DEF q
  <2> QED BY <1>1, <1>6, <2>2, <2>3 DEF RefundEvent, Mails
<1>7. ASSUME NEW i \in Documents, NEW amount \in 1..Price, NEW f \in Refunds \cup {NoRefund},
             ManualCredit(r, i, amount, f)
      PROVE  IInv'
  <2> DEFINE q == [Idle EXCEPT !.at = "credit", !.sale = i, !.amount = amount, !.refund = f]
  <2>1. Fits(q, Len(doc)) /\ q.at = "credit" /\ q.source = "MANUAL"
    <3>1. q \in Request
      <4>1. i \in Nat /\ amount \in Nat
        BY <1>2, DocumentsAssumption DEF Documents, DocumentsAssumption
      <4> QED BY <1>2, <4>1 DEF Request, Sources
    <3>2. q.at = "credit" /\ q.source = "MANUAL" /\ q.sale = i /\ q.series = "sale"
      BY <1>2 DEF Request
    <3> HIDE DEF q
    <3> QED BY <1>2, <1>7, <3>1, <3>2 DEF Fits, Documents
  <2>2. proc' = [proc EXCEPT ![r] = q]
    BY <1>7 DEF ManualCredit
  <2> HIDE DEF q
  <2> QED BY <1>1, <1>7, <2>1, <2>2 DEF ManualCredit, Mails
<1> QED BY <1>3, <1>4, <1>5, <1>6, <1>7 DEF Start

LEMMA BetweenStep ==
    ASSUME IInv, NEW r \in Requests, Check(r) \/ Reconcile(r) \/ Credit(r)
    PROVE  IInv'
<1> USE DEF IInv, DocumentsTypeOK
<1>1. ASSUME NEW q, Fits(q, Len(doc)), proc[r].at # "insert", q.at # "insert",
             q.source = proc[r].source, q.sale = proc[r].sale,
             proc' = [proc EXCEPT ![r] = q], UNCHANGED <<paid, refund, doc, last, holder>>
      PROVE  IInv'
  BY <1>1, Moves DEF Mails
<1>2. proc[r] \in Request /\ Fits(proc[r], Len(doc)) /\ Len(doc) \in Nat
  BY DEF Fitting
<1>3. ASSUME Over(r), proc[r].at # "insert", UNCHANGED <<paid, refund, doc, last, holder>> PROVE IInv'
  BY <1>3, OverMoves
<1>4. CASE Check(r)
  <2> DEFINE q == [proc[r] EXCEPT !.at = "number"]
  <2>1. CASE Over(r)
    BY <1>3, <1>4, <2>1 DEF Check
  <2>2. CASE Goto(r, "number")
    <3>1. Fits(q, Len(doc)) /\ q.at = "number" /\ q.source = proc[r].source /\ q.sale = proc[r].sale
      BY <1>2, <1>4 DEF Check, Fits, Request, Series
    <3>2. proc' = [proc EXCEPT ![r] = q]
      BY <2>2 DEF Goto
    <3> HIDE DEF q
    <3> QED BY <1>1, <1>4, <3>1, <3>2 DEF Check
  <2> QED BY <1>4, <2>1, <2>2 DEF Check
<1>5. CASE Reconcile(r)
  <2> DEFINE made == {f \in Refunds : refund[f].card = doc[proc[r].sale].card /\ refund[f].amount > 0}
             plan == {f \in made : NotesFor(f) = {}}
             q == [proc[r] EXCEPT !.at = "credit", !.plan = plan]
  <2>1. Fits(q, Len(doc)) /\ q.at = "credit" /\ q.source = proc[r].source /\ q.sale = proc[r].sale
    <3>1. plan \subseteq Refunds
      OBVIOUS
    <3> HIDE DEF plan
    <3> QED BY <1>2, <1>5, <3>1 DEF Reconcile, Fits, Request, Series
  <2>2. proc' = [proc EXCEPT ![r] = q]
    BY <1>5 DEF Reconcile
  <2> HIDE DEF q
  <2> QED BY <1>1, <1>5, <2>1, <2>2 DEF Reconcile
<1>6. CASE Credit(r)
  <2>1. proc[r].at = "credit" /\ UNCHANGED <<paid, refund, doc, last, holder>>
    BY <1>6 DEF Credit
  <2>2. ASSUME NEW q, Fits(q, Len(doc)), q.at # "insert", q.source = proc[r].source, q.sale = proc[r].sale,
               proc' = [proc EXCEPT ![r] = q]
        PROVE  IInv'
    BY <1>1, <2>1, <2>2
  <2>3. CASE Over(r)
    BY <1>3, <2>1, <2>3
  <2>4. CASE Goto(r, "email") /\ proc[r].source \notin {"MANUAL", "STRIPE_REFUND"}
    <3> DEFINE q == [proc[r] EXCEPT !.at = "email"]
    <3>1. Fits(q, Len(doc)) /\ q.at = "email" /\ q.source = proc[r].source /\ q.sale = proc[r].sale
      BY <1>2, <2>1, <2>4 DEF Fits, Request, Series, Sources
    <3>2. proc' = [proc EXCEPT ![r] = q]
      BY <2>4 DEF Goto
    <3> HIDE DEF q
    <3> QED BY <2>2, <3>1, <3>2
  <2>5. ASSUME NEW rest \in SUBSET Refunds, proc' = [proc EXCEPT ![r].plan = rest]
        PROVE  IInv'
    <3> DEFINE q == [proc[r] EXCEPT !.plan = rest]
    <3>1. Fits(q, Len(doc)) /\ q.at = "credit" /\ q.source = proc[r].source /\ q.sale = proc[r].sale
      BY <1>2, <2>1 DEF Fits, Request, Series
    <3>2. proc' = [proc EXCEPT ![r] = q]
      BY <2>5
    <3> HIDE DEF q
    <3> QED BY <2>2, <3>1, <3>2
  <2>6. ASSUME NEW rest \in SUBSET Refunds, NEW amount \in Nat, NEW f \in Refunds \cup {NoRefund},
               proc' = [proc EXCEPT ![r] =
                  [proc[r] EXCEPT !.at = "number", !.series = "credit", !.amount = amount, !.refund = f,
                                  !.plan = rest]]
        PROVE  IInv'
    <3> DEFINE q == [proc[r] EXCEPT !.at = "number", !.series = "credit", !.amount = amount,
                                    !.refund = f, !.plan = rest]
    <3>1. Fits(q, Len(doc)) /\ q.at = "number" /\ q.source = proc[r].source /\ q.sale = proc[r].sale
      BY <1>2, <2>1 DEF Fits, Request, Series
    <3>2. proc' = [proc EXCEPT ![r] = q]
      BY <2>6
    <3> HIDE DEF q
    <3> QED BY <2>2, <3>1, <3>2
  <2> DEFINE byHand == proc[r].amount > 0
             f == IF byHand THEN proc[r].refund ELSE CHOOSE f \in proc[r].plan : TRUE
             amount == IF byHand THEN proc[r].amount ELSE refund[f].amount
             rest == IF byHand THEN {} ELSE proc[r].plan \ {f}
  <2>7. CASE ~byHand /\ proc[r].plan = {}
    BY <1>6, <2>3, <2>4, <2>7 DEF Credit, NotesDone
  <2>8. CASE byHand \/ proc[r].plan # {}
    <3>1. f \in Refunds \cup {NoRefund} /\ rest \in SUBSET Refunds /\ (~byHand => f \in Refunds)
      BY <1>2, <2>8 DEF Request
    <3>2. amount \in Nat
      <4> HIDE DEF f
      <4> QED BY <1>2, <3>1, DocumentsAssumption DEF Request, DocumentsAssumption
    <3>3. CASE Creditable(proc[r].sale, amount, f)
      <4>1. proc' = [proc EXCEPT ![r] =
               [proc[r] EXCEPT !.at = "number", !.series = "credit", !.amount = amount, !.refund = f,
                               !.plan = rest]]
        BY <1>6, <2>8, <3>3 DEF Credit
      <4> HIDE DEF f, amount, rest
      <4> QED BY <2>6, <3>1, <3>2, <4>1
    <3>4. CASE ~Creditable(proc[r].sale, amount, f) /\ byHand
      BY <1>6, <2>3, <2>8, <3>4 DEF Credit
    <3>5. CASE ~Creditable(proc[r].sale, amount, f) /\ ~byHand
      <4>1. proc' = [proc EXCEPT ![r].plan = rest]
        BY <1>6, <2>8, <3>5 DEF Credit
      <4> HIDE DEF f, amount, rest
      <4> QED BY <2>5, <3>1, <4>1
    <3> QED BY <3>3, <3>4, <3>5
  <2> QED BY <2>7, <2>8
<1> QED BY <1>4, <1>5, <1>6

-----------------------------------------------------------------------------
(* Transactions *)

LEMMA TakeStep ==
    ASSUME IInv, NEW r \in Requests, TakeNumber(r)
    PROVE  IInv'
<1> DEFINE s == proc[r].series
           q == [proc[r] EXCEPT !.at = "insert"]
<1>1. r # Nobody
  BY DocumentsAssumption DEF DocumentsAssumption
<1>2. proc \in [Requests -> Request] /\ last \in [Series -> Nat] /\ holder \in [Series -> Requests \cup {Nobody}]
  BY DEF IInv, DocumentsTypeOK
<1>3. s \in Series /\ proc[r].at = "number" /\ holder[s] = Nobody
  BY <1>2 DEF TakeNumber, Request
<1>4. last' = [last EXCEPT ![s] = last[s] + 1] /\ holder' = [holder EXCEPT ![s] = r]
      /\ UNCHANGED <<paid, refund, doc>>
  BY DEF TakeNumber
<1>5. proc' = [proc EXCEPT ![r] = q]
  BY DEF TakeNumber, Goto
<1>6. Fits(q, Len(doc)) /\ q.at = "insert" /\ q.series = s /\ Mails(q) = Mails(proc[r]) /\ q.sale = proc[r].sale
  BY <1>2, <1>3 DEF IInv, Fitting, Fits, Request, Mails
<1> HIDE DEF q
<1>7. proc'[r] = q /\ \A p \in Requests : p # r => proc'[p] = proc[p]
  BY <1>2, <1>5
<1>8. DocumentsTypeOK'
  <2>1. last' \in [Series -> Nat] /\ holder' \in [Series -> Requests \cup {Nobody}]
    BY <1>2, <1>3, <1>4
  <2>2. proc' \in [Requests -> Request]
    BY <1>2, <1>5, <1>6 DEF Fits
  <2> QED BY <1>4, <2>1, <2>2 DEF IInv, DocumentsTypeOK
<1>9. Fitting'
  BY <1>4, <1>6, <1>7 DEF IInv, Fitting
<1>10. Locked'
  <2>1. \A t \in Series : holder'[t] # Nobody => last'[t] > 0
    BY <1>2, <1>3, <1>4 DEF IInv, Locked
  <2>2. \A p \in Requests, t \in Series : holder'[t] = p <=> Holds(proc'[p], t)
    BY <1>1, <1>2, <1>3, <1>4, <1>6, <1>7, DocumentsAssumption DEF IInv, Locked, Holds, DocumentsAssumption
  <2> QED BY <2>1, <2>2 DEF Locked
<1>11. Mailed'
  BY <1>4, <1>6, <1>7 DEF IInv, Mailed, Mails, Documents
<1>12. OneLive'
  BY <1>4 DEF IInv, OneLive, LiveSales, Documents
<1> QED BY <1>1, <1>8, <1>9, <1>10, <1>11, <1>12, NumberTaken DEF IInv

\* A transaction fails, and its request goes on outside one or dies.
LEMMA BackStep ==
    ASSUME IInv, NEW r \in Requests, RollBack(r), NEW q, Fits(q, Len(doc)), q.at # "insert",
           Mails(q) => Mails(proc[r]) /\ q.sale = proc[r].sale,
           proc' = [proc EXCEPT ![r] = q], UNCHANGED <<paid, refund>>
    PROVE  IInv'
<1>1. r # Nobody
  BY DocumentsAssumption DEF DocumentsAssumption
<1>2. GapFree' /\ last' \in [Series -> Nat] /\ holder' \in [Series -> Requests \cup {Nobody}]
  BY <1>1, NumberBack
<1>3. proc \in [Requests -> Request] /\ proc'[r] = q /\ \A p \in Requests : p # r => proc'[p] = proc[p]
  BY DEF IInv, DocumentsTypeOK
<1>4. doc' = doc
  BY DEF RollBack
<1>5. DocumentsTypeOK'
  BY <1>2, <1>3, <1>4 DEF IInv, DocumentsTypeOK, Fits
<1>6. Fitting'
  BY <1>3, <1>4 DEF IInv, Fitting
<1>7. Locked'
  <2>1. \A t \in Series : holder'[t] # Nobody => holder'[t] = holder[t] /\ last'[t] = last[t]
    BY DEF RollBack, IInv, DocumentsTypeOK
  <2>2. \A p \in Requests, t \in Series : holder'[t] = p <=> Holds(proc'[p], t)
    BY <1>1, <1>3, DocumentsAssumption DEF IInv, Locked, Holds, RollBack, DocumentsAssumption
  <2> QED BY <2>1, <2>2 DEF IInv, Locked
<1>8. Mailed' /\ OneLive'
  BY <1>3, <1>4 DEF IInv, Mailed, Mails, OneLive, LiveSales, Documents
<1> QED BY <1>2, <1>5, <1>6, <1>7, <1>8 DEF IInv

\* A transaction commits its document.
LEMMA CommitStep ==
    ASSUME IInv, NEW r \in Requests, proc[r].at = "insert", NEW rec \in DocumentRecord, Commit(r, rec),
           rec.series = proc[r].series, rec.number = last[proc[r].series], rec.mails = 0,
           rec.series = "sale" => SaleKeyFree(rec.card),
           NEW q, Fits(q, Len(doc) + 1), q.at # "insert",
           Mails(q) => q.sale = Len(doc) + 1 \/ (Mails(proc[r]) /\ q.sale = proc[r].sale),
           proc' = [proc EXCEPT ![r] = q], UNCHANGED <<paid, refund>>
    PROVE  IInv'
<1> DEFINE s == proc[r].series
           n == Len(doc)
<1>1. r # Nobody
  BY DocumentsAssumption DEF DocumentsAssumption
<1>2. proc \in [Requests -> Request] /\ proc'[r] = q /\ \A p \in Requests : p # r => proc'[p] = proc[p]
  BY DEF IInv, DocumentsTypeOK
<1>3. s \in Series /\ holder[s] = r
  BY <1>2 DEF IInv, Locked, Holds, Request
<1>4. doc' = Append(doc, rec) /\ holder' = [holder EXCEPT ![s] = Nobody] /\ last' = last
  BY DEF Commit
<1>5. GapFree'
  BY <1>1, <1>3, <1>4, NumberUsed
<1>6. n \in Nat /\ Len(doc') = n + 1 /\ doc'[n + 1] = rec /\ \A i \in 1..n : doc'[i] = doc[i]
  BY <1>4 DEF IInv, DocumentsTypeOK
<1>7. DocumentsTypeOK'
  <2>1. doc' \in Seq(DocumentRecord)
    BY <1>4 DEF IInv, DocumentsTypeOK
  <2> QED BY <1>2, <1>3, <1>4, <2>1 DEF IInv, DocumentsTypeOK, Fits
<1>8. Fitting'
  <2>1. \A p \in Requests : Fits(proc[p], n + 1)
    BY <1>2, <1>6 DEF IInv, Fitting, Fits, Request
  <2> QED BY <1>2, <1>6, <2>1 DEF Fitting
<1>9. Locked'
  <2>1. holder \in [Series -> Requests \cup {Nobody}]
    BY DEF IInv, DocumentsTypeOK
  <2>2. \A p \in Requests, t \in Series : holder'[t] = p <=> Holds(proc'[p], t)
    BY <1>1, <1>2, <1>3, <1>4, <2>1, DocumentsAssumption DEF IInv, Locked, Holds, DocumentsAssumption
  <2>3. \A t \in Series : holder'[t] # Nobody => last'[t] > 0
    BY <1>3, <1>4, <2>1 DEF IInv, Locked
  <2> QED BY <2>2, <2>3 DEF Locked
<1>10. Mailed'
  <2>1. \A p \in Requests : proc[p] \in Request /\ proc[p].sale \in 0..n
    BY <1>2, <1>6 DEF IInv, Fitting, Fits, Request
  <2>2. \A p \in Requests : Mails(proc[p]) => proc[p].sale \in 1..n /\ doc'[proc[p].sale].mails = 0
    BY <1>6, <2>1 DEF IInv, Mailed, Mails
  <2>3. Mails(q) => doc'[q.sale].mails = 0
    BY <1>6, <2>2
  <2>4. \A p \in Requests : p # r /\ Mails(proc[p]) /\ Mails(q) => proc[p].sale # q.sale
    BY <1>6, <2>2 DEF IInv, Mailed
  <2>5. \A i \in 1..(n + 1) : doc'[i].mails <= 1
    BY <1>6 DEF IInv, Mailed, Documents
  <2> HIDE DEF n
  <2> QED BY <1>2, <1>6, <2>2, <2>3, <2>4, <2>5 DEF IInv, Mailed, Documents
<1>11. OneLive'
  <2>1. \A c \in Cards : \A i \in LiveSales(c)' : i \in LiveSales(c) \/ (i = n + 1 /\ LiveSales(c) = {})
    BY <1>6 DEF LiveSales, Documents, SaleKeyFree
  <2> QED BY <2>1 DEF IInv, OneLive
<1> QED BY <1>5, <1>7, <1>8, <1>9, <1>10, <1>11 DEF IInv

LEMMA InsertSaleStep ==
    ASSUME IInv, NEW r \in Requests, InsertSale(r)
    PROVE  IInv'
<1>1. proc[r] \in Request /\ Fits(proc[r], Len(doc)) /\ Len(doc) \in Nat /\ last \in [Series -> Nat]
  BY DEF IInv, DocumentsTypeOK, Fitting
<1>2. proc[r].at = "insert" /\ proc[r].series = "sale" /\ proc[r].card \in Cards /\ proc[r].sale = 0
      /\ UNCHANGED <<paid, refund>>
  BY <1>1 DEF InsertSale, Fits
<1>3. CASE SaleKeyFree(proc[r].card)
  <2> DEFINE rec == [series |-> "sale", number |-> last["sale"], card |-> proc[r].card, live |-> TRUE,
                     amount |-> Price, of |-> 0, refund |-> NoRefund, mails |-> 0]
             stage == IF proc[r].source = "AUTO_STRIPE" THEN "email" ELSE "reconcile"
             q == [proc[r] EXCEPT !.sale = Len(doc) + 1, !.at = stage]
  <2>1. rec \in DocumentRecord /\ rec.series = "sale" /\ rec.number = last["sale"] /\ rec.mails = 0
        /\ rec.card = proc[r].card
    BY <1>1, <1>2, DocumentsAssumption DEF DocumentRecord, Series, DocumentsAssumption
  <2>2. Fits(q, Len(doc) + 1) /\ q.at # "insert" /\ q.sale = Len(doc) + 1
    <3>1. stage \in {"email", "reconcile"} /\ (stage = "email" => proc[r].source = "AUTO_STRIPE")
      OBVIOUS
    <3> HIDE DEF stage
    <3>2. /\ q \in Request /\ q.at = stage /\ q.sale = Len(doc) + 1
          /\ q.series = "sale" /\ q.source = proc[r].source
      <4>1. Len(doc) + 1 \in Nat
        BY <1>1
      <4> DEFINE n == Len(doc) + 1
      <4> HIDE DEF n
      <4>2. [proc[r] EXCEPT !.sale = n, !.at = stage] \in Request
        BY <1>1, <3>1, <4>1 DEF Request, n
      <4> QED BY <1>1, <1>2, <4>2 DEF Request, n
    <3> HIDE DEF q
    <3> QED BY <1>1, <3>1, <3>2 DEF Fits
  <2>3. Commit(r, rec) /\ proc' = [proc EXCEPT ![r] = q]
    BY <1>3 DEF InsertSale
  <2> HIDE DEF rec, q
  <2> QED BY <1>2, <1>3, <2>1, <2>2, <2>3, CommitStep
<1>4. CASE ~SaleKeyFree(proc[r].card)
  <2>1. RollBack(r) /\ Over(r)
    BY <1>4 DEF InsertSale
  <2>2. PICK q : /\ proc' = [proc EXCEPT ![r] = q]
                 /\ q.at \in {"idle", "check"} /\ q.sale = 0
                 /\ \A n \in Nat : Fits(q, n)
    BY <2>1, OverGoes
  <2> QED BY <1>1, <1>2, <2>1, <2>2, BackStep DEF Mails
<1> QED BY <1>3, <1>4

LEMMA InsertNoteStep ==
    ASSUME IInv, NEW r \in Requests, InsertNote(r)
    PROVE  IInv'
<1> DEFINE q == [proc[r] EXCEPT !.at = "credit", !.series = "sale", !.amount = 0, !.refund = NoRefund]
<1>1. proc[r] \in Request /\ Fits(proc[r], Len(doc)) /\ Len(doc) \in Nat /\ last \in [Series -> Nat]
  BY DEF IInv, DocumentsTypeOK, Fitting
<1>2. proc[r].at = "insert" /\ proc[r].series = "credit" /\ proc[r].sale # 0 /\ UNCHANGED <<paid, refund>>
  BY <1>1 DEF InsertNote, Fits
<1>3. proc[r].sale \in 1..Len(doc)
  BY <1>1, <1>2 DEF Fits, Request
<1>4. /\ Fits(q, Len(doc)) /\ Fits(q, Len(doc) + 1)
      /\ q.at # "insert" /\ q.sale = proc[r].sale /\ q.source = proc[r].source
  <2>1. /\ q \in Request /\ q.at = "credit" /\ q.series = "sale"
        /\ q.sale = proc[r].sale /\ q.source = proc[r].source
    BY <1>1 DEF Request, Series
  <2> HIDE DEF q
  <2> QED BY <1>1, <1>2, <1>3, <2>1 DEF Fits
<1>5. proc' = [proc EXCEPT ![r] = q]
  BY DEF InsertNote
<1> HIDE DEF q
<1>6. CASE LatchFree(proc[r].refund)
  <2> DEFINE rec == [series |-> "credit", number |-> last["credit"], card |-> doc[proc[r].sale].card,
                     live |-> TRUE, amount |-> proc[r].amount, of |-> proc[r].sale,
                     refund |-> proc[r].refund, mails |-> 0]
  <2>1. doc[proc[r].sale] \in DocumentRecord
    BY <1>3 DEF IInv, DocumentsTypeOK
  <2>2. rec \in DocumentRecord /\ rec.series = "credit" /\ rec.number = last["credit"] /\ rec.mails = 0
    BY <1>1, <2>1 DEF DocumentRecord, Series, Request
  <2>3. Commit(r, rec)
    BY <1>6 DEF InsertNote
  <2> HIDE DEF rec
  <2> QED BY <1>2, <1>4, <1>5, <2>2, <2>3, CommitStep DEF Mails
<1>7. CASE ~LatchFree(proc[r].refund)
  BY <1>2, <1>4, <1>5, <1>7, BackStep DEF InsertNote, Mails
<1> QED BY <1>6, <1>7

LEMMA CrashStep ==
    ASSUME IInv, NEW r \in Requests, Crash(r)
    PROVE  IInv'
<1>1. Len(doc) \in Nat
  BY DEF IInv, DocumentsTypeOK
<1>2. Idle.at = "idle" /\ ~Mails(Idle)
  BY DEF Idle, Mails
<1> QED BY <1>1, <1>2, IdleFits, BackStep DEF Crash

-----------------------------------------------------------------------------
(* Changes of a document *)

LEMMA RowWritten ==
    ASSUME IInv, NEW i \in 1..Len(doc), NEW rec \in DocumentRecord, doc' = [doc EXCEPT ![i] = rec]
    PROVE  /\ doc' \in Seq(DocumentRecord) /\ Len(doc') = Len(doc)
           /\ doc'[i] = rec
           /\ \A j \in 1..Len(doc) : j # i => doc'[j] = doc[j]
<1>1. doc \in Seq(DocumentRecord)
  BY DEF IInv, DocumentsTypeOK
<1> QED BY <1>1, ExceptSeq

LEMMA EmailStep ==
    ASSUME IInv, NEW r \in Requests, Email(r)
    PROVE  IInv'
<1> DEFINE i == proc[r].sale
<1>1. /\ proc \in [Requests -> Request] /\ Fits(proc[r], Len(doc)) /\ Len(doc) \in Nat
      /\ proc[r].at = "email" /\ UNCHANGED <<paid, refund, last, holder>>
  BY DEF IInv, DocumentsTypeOK, Fitting, Email
<1>2. i \in 1..Len(doc) /\ Mails(proc[r]) /\ doc[i].mails = 0 /\ doc[i] \in DocumentRecord
  <2>1. i \in 1..Len(doc) /\ Mails(proc[r])
    BY <1>1 DEF Fits, Request, Mails
  <2>2. doc[i] \in DocumentRecord
    BY <2>1 DEF IInv, DocumentsTypeOK
  <2> QED BY <2>1, <2>2 DEF IInv, Mailed
<1>3. PICK q : /\ proc' = [proc EXCEPT ![r] = q]
               /\ q.at \in {"idle", "check"} /\ q.sale = 0
               /\ \A n \in Nat : Fits(q, n)
  BY OverGoes DEF Email
<1>4. proc'[r] = q /\ \A p \in Requests : p # r => proc'[p] = proc[p]
  BY <1>1, <1>3
<1>5. doc' = [doc EXCEPT ![i].mails = 1]
  BY <1>2 DEF Email
<1> HIDE DEF i
<1>6. /\ doc' \in Seq(DocumentRecord) /\ Len(doc') = Len(doc)
      /\ doc'[i] = [doc[i] EXCEPT !.mails = 1]
      /\ \A j \in 1..Len(doc) : j # i => doc'[j] = doc[j]
  <2>1. [doc[i] EXCEPT !.mails = 1] \in DocumentRecord
    BY <1>2 DEF DocumentRecord
  <2>2. doc' = [doc EXCEPT ![i] = [doc[i] EXCEPT !.mails = 1]]
    BY <1>5
  <2> QED BY <1>2, <2>1, <2>2, RowWritten
<1>7. /\ doc'[i].mails = 1
      /\ \A j \in 1..Len(doc) : /\ doc'[j].series = doc[j].series /\ doc'[j].number = doc[j].number
                                /\ doc'[j].card = doc[j].card /\ doc'[j].live = doc[j].live
  BY <1>2, <1>6 DEF DocumentRecord
<1>8. DocumentsTypeOK'
  BY <1>1, <1>3, <1>4, <1>6 DEF IInv, DocumentsTypeOK, Fits
<1>9. Fitting'
  BY <1>1, <1>3, <1>4, <1>6 DEF IInv, Fitting
<1>10. Locked'
  BY <1>1, <1>3, <1>4 DEF IInv, Locked, Holds
<1>11. Mailed'
  <2>1. ~Mails(q)
    BY <1>3 DEF Mails
  <2>2. \A p \in Requests : p # r /\ Mails(proc[p]) => proc[p].sale # i /\ proc[p].sale \in 1..Len(doc)
    BY <1>1, <1>2 DEF IInv, Mailed, Fitting, Fits, Mails, Request, i
  <2>3. \A p \in Requests : Mails(proc'[p]) => doc'[proc'[p].sale].mails = 0
    BY <1>4, <1>6, <2>1, <2>2 DEF IInv, Mailed
  <2>4. \A p, o \in Requests :
           Mails(proc'[p]) /\ Mails(proc'[o]) /\ proc'[p].sale = proc'[o].sale => p = o
    BY <1>4, <2>1 DEF IInv, Mailed
  <2>5. \A j \in 1..Len(doc) : doc'[j].mails <= 1
    <3>1. \A j \in 1..Len(doc) : doc[j].mails <= 1
      BY DEF IInv, Mailed, Documents
    <3>2. ASSUME NEW j \in 1..Len(doc) PROVE doc'[j].mails <= 1
      <4>1. CASE j = i
        BY <1>7, <4>1
      <4>2. CASE j # i
        BY <1>6, <3>1, <4>2
      <4> QED BY <4>1, <4>2
    <3> QED BY <3>2
  <2> QED BY <1>6, <2>3, <2>4, <2>5 DEF Mailed, Documents
<1>12. OneLive'
  BY <1>6, <1>7 DEF IInv, OneLive, LiveSales, Documents
<1>13. GapFree'
  BY <1>1, <1>6, <1>7, NumberFrame DEF IInv, Documents
<1> QED BY <1>8, <1>9, <1>10, <1>11, <1>12, <1>13 DEF IInv

LEMMA VoidStep ==
    ASSUME IInv, NEW i \in Documents, Void(i)
    PROVE  IInv'
<1>1. i \in 1..Len(doc) /\ doc[i] \in DocumentRecord /\ Len(doc) \in Nat
  BY DEF IInv, DocumentsTypeOK, Documents
<1>2. doc' = [doc EXCEPT ![i].live = FALSE] /\ UNCHANGED <<paid, refund, last, holder, proc>>
  BY DEF Void
<1>3. /\ doc' \in Seq(DocumentRecord) /\ Len(doc') = Len(doc)
      /\ doc'[i] = [doc[i] EXCEPT !.live = FALSE]
      /\ \A j \in 1..Len(doc) : j # i => doc'[j] = doc[j]
  <2>1. [doc[i] EXCEPT !.live = FALSE] \in DocumentRecord
    BY <1>1 DEF DocumentRecord
  <2>2. doc' = [doc EXCEPT ![i] = [doc[i] EXCEPT !.live = FALSE]]
    BY <1>2
  <2> QED BY <1>1, <2>1, <2>2, RowWritten
<1>4. /\ ~doc'[i].live
      /\ \A j \in 1..Len(doc) : /\ doc'[j].series = doc[j].series /\ doc'[j].number = doc[j].number
                                /\ doc'[j].card = doc[j].card /\ doc'[j].mails = doc[j].mails
  BY <1>1, <1>3 DEF DocumentRecord
<1>5. DocumentsTypeOK' /\ Fitting' /\ Locked'
  BY <1>2, <1>3 DEF IInv, DocumentsTypeOK, Fitting, Locked
<1>6. Mailed'
  <2>1. \A p \in Requests : Mails(proc[p]) => proc[p].sale \in 1..Len(doc)
    BY <1>1 DEF IInv, DocumentsTypeOK, Fitting, Fits, Mails, Request
  <2> QED BY <1>2, <1>3, <1>4, <2>1 DEF IInv, Mailed, Documents
<1>7. OneLive'
  <2>1. \A c \in Cards : LiveSales(c)' \subseteq LiveSales(c)
    BY <1>3, <1>4 DEF LiveSales, Documents
  <2> QED BY <2>1 DEF IInv, OneLive
<1>8. GapFree'
  BY <1>2, <1>3, <1>4, NumberFrame DEF IInv, Documents
<1> QED BY <1>5, <1>6, <1>7, <1>8 DEF IInv

LEMMA RefundStep ==
    ASSUME IInv, NEW f \in Refunds, NEW amount \in 1..Price, StripeRefunds(f, amount)
    PROVE  IInv'
<1>1. refund' = [refund EXCEPT ![f].amount = amount] /\ UNCHANGED <<paid, doc, last, holder, proc>>
  BY DEF StripeRefunds
<1>2. refund' \in [Refunds -> [card : Cards, amount : 0..Price]]
  <2>1. refund \in [Refunds -> [card : Cards, amount : 0..Price]] /\ amount \in 0..Price
    BY DocumentsAssumption DEF IInv, DocumentsTypeOK, DocumentsAssumption
  <2> QED BY <1>1, <2>1
<1>3. DocumentsTypeOK'
  BY <1>1, <1>2 DEF IInv, DocumentsTypeOK
<1>4. Fitting' /\ Locked'
  BY <1>1 DEF IInv, Fitting, Locked
<1>5. Mailed' /\ OneLive' /\ GapFree'
  BY <1>1 DEF IInv, Mailed, OneLive, LiveSales, GapFree, Documents
<1> QED BY <1>3, <1>4, <1>5 DEF IInv

-----------------------------------------------------------------------------
(* The theorems *)

LEMMA Initially == Init => IInv
<1> SUFFICES ASSUME Init PROVE IInv
  OBVIOUS
<1>1. doc = <<>> /\ Documents = {} /\ Len(doc) = 0
  BY DEF Init, Documents
<1>2. Idle \in Request /\ Fits(Idle, 0) /\ Idle.at = "idle" /\ ~Mails(Idle)
  BY IdleFits DEF Fits, Idle, Mails
<1>3. DocumentsTypeOK
  <2>1. refund \in [Refunds -> [card : Cards, amount : 0..Price]]
    BY DocumentsAssumption DEF Init, DocumentsAssumption
  <2> QED BY <1>1, <1>2, <2>1 DEF Init, DocumentsTypeOK
<1>4. \A r \in Requests : proc[r] = Idle
  BY DEF Init
<1>5. Fitting /\ Mailed
  BY <1>1, <1>2, <1>4 DEF Fitting, Mailed
<1>6. Locked
  BY <1>2, <1>4, DocumentsAssumption DEF Init, Locked, Holds, DocumentsAssumption
<1>7. OneLive
  BY <1>1 DEF OneLive, LiveSales
<1>8. GapFree
  <2>1. \A s \in Series : {i \in Documents : doc[i].series = s} = {}
    BY <1>1
  <2>2. Cardinality({}) = 0
    BY FS_EmptySet
  <2>3. \A s \in Series : last[s] = 0 /\ holder[s] = Nobody
    BY DEF Init
  <2>4. ASSUME NEW s \in Series
        PROVE  LET rows == {i \in Documents : doc[i].series = s}
               IN  /\ \A i \in rows : doc[i].number = Cardinality({j \in rows : j <= i})
                   /\ last[s] = Cardinality(rows) + (IF holder[s] = Nobody THEN 0 ELSE 1)
    <3> DEFINE rows == {i \in Documents : doc[i].series = s}
    <3>1. rows = {} /\ Cardinality(rows) = 0
      BY <2>1, <2>2
    <3> HIDE DEF rows
    <3>2. /\ \A i \in rows : doc[i].number = Cardinality({j \in rows : j <= i})
          /\ last[s] = Cardinality(rows) + (IF holder[s] = Nobody THEN 0 ELSE 1)
      BY <2>3, <3>1
    <3> QED BY <3>2 DEF rows
  <2> QED BY <2>4 DEF GapFree
<1> QED BY <1>3, <1>5, <1>6, <1>7, <1>8 DEF IInv

\* The inductive invariant.
THEOREM DocumentInvariant == Spec => []IInv
<1>1. IInv /\ [Next]_vars => IInv'
  <2> SUFFICES ASSUME IInv, [Next]_vars PROVE IInv'
    OBVIOUS
  <2>1. ASSUME NEW r \in Requests, Start(r) \/ Step(r) \/ Crash(r) PROVE IInv'
    BY <2>1, StartStep, BetweenStep, TakeStep, InsertSaleStep, InsertNoteStep, EmailStep, CrashStep DEF Step
  <2>2. CASE UNCHANGED vars
    <3>1. UNCHANGED <<paid, refund, doc, last, holder, proc>>
      BY <2>2 DEF vars
    <3>2. DocumentsTypeOK' /\ Fitting' /\ Locked'
      BY <3>1 DEF IInv, DocumentsTypeOK, Fitting, Locked
    <3>3. Mailed' /\ OneLive' /\ GapFree'
      BY <3>1 DEF IInv, Mailed, OneLive, LiveSales, GapFree, Documents
    <3> QED BY <3>2, <3>3 DEF IInv
  <2> QED BY <2>1, <2>2, VoidStep, RefundStep DEF Next
<1> QED BY <1>1, Initially, PTL DEF Spec

\* The rows, the documents and the requests that write them keep their types.
THEOREM DocumentsAreTyped == Spec => []DocumentsTypeOK
<1>1. IInv => DocumentsTypeOK
  BY DEF IInv
<1> QED BY <1>1, DocumentInvariant, PTL

\* "That is what keeps the series gap-free", whatever number of transactions
\* fail, lose a race or die with a number in hand.
THEOREM NumberedWithoutGaps == Spec => []GapFree
<1>1. IInv => GapFree
  BY DEF IInv
<1> QED BY <1>1, DocumentInvariant, PTL

\* However many webhooks, catch-ups and people issue for it, a card has one
\* receipt that stands, and none is mailed automatically twice.
THEOREM OneReceiptPerCard == Spec => []OneReceipt
<1>1. ASSUME IInv PROVE OneReceipt
  <2>1. ASSUME NEW c \in Cards PROVE Cardinality(LiveSales(c)) <= 1
    <3>1. CASE LiveSales(c) = {}
      BY <3>1, FS_EmptySet
    <3>2. CASE LiveSales(c) # {}
      <4>1. PICK i : LiveSales(c) = {i}
        BY <1>1, <3>2 DEF IInv, OneLive
      <4> QED BY <4>1, FS_Singleton
    <3> QED BY <3>1, <3>2
  <2> QED BY <1>1, <2>1 DEF IInv, Mailed, OneReceipt
<1> QED BY <1>1, DocumentInvariant, PTL

-----------------------------------------------------------------------------
(* Credits.  A note that is under way is already covered, because nobody   *)
(* else raises one on its sale document or voids it before it ends.        *)

\* What the note of a request adds is covered by its sale document.
Secured(r) ==
    LET i == proc[r].sale
    IN  doc[i].live /\ Credited(i) + proc[r].amount <= doc[i].amount

Covers ==
    /\ \A j \in Documents : doc[j].of <= Len(doc)
    /\ \A r, q \in Requests : InNote(r) /\ InNote(q) /\ proc[r].sale = proc[q].sale => r = q
    /\ \A r \in Requests : InNote(r) => Secured(r)
    /\ \A i \in Documents : Credited(i) <= (IF doc[i].live THEN doc[i].amount ELSE 0)
    /\ \A f \in Refunds : \A j, k \in NotesFor(f) : j = k

Amounts == [j \in Documents |-> doc[j].amount]

LEMMA DocumentTypes ==
    ASSUME IInv
    PROVE  /\ Len(doc) \in Nat /\ Documents = 1..Len(doc) /\ IsFiniteSet(Documents)
           /\ \A j \in Documents :
                 /\ doc[j].of \in Nat /\ doc[j].amount \in Nat /\ doc[j].live \in BOOLEAN
                 /\ Amounts[j] = doc[j].amount
           /\ \A i : LiveNotes(i) \subseteq Documents /\ IsFiniteSet(LiveNotes(i))
           /\ \A i : Credited(i) = SumFunctionOnSet(Amounts, LiveNotes(i)) /\ Credited(i) \in Int
<1>1. Len(doc) \in Nat /\ Documents = 1..Len(doc)
  BY DEF IInv, DocumentsTypeOK, Documents
<1>2. IsFiniteSet(Documents)
  BY <1>1, FS_Interval
<1>3. \A j \in Documents : doc[j] \in DocumentRecord
  BY <1>1 DEF IInv, DocumentsTypeOK
<1>4. \A j \in Documents : /\ doc[j].of \in Nat /\ doc[j].amount \in Nat /\ doc[j].live \in BOOLEAN
                           /\ Amounts[j] = doc[j].amount
  BY <1>3 DEF DocumentRecord, Amounts
<1>5. ASSUME NEW i
      PROVE  /\ LiveNotes(i) \subseteq Documents /\ IsFiniteSet(LiveNotes(i))
             /\ Credited(i) = SumFunctionOnSet(Amounts, LiveNotes(i)) /\ Credited(i) \in Int
  <2>1. LiveNotes(i) \subseteq Documents
    BY DEF LiveNotes
  <2>2. IsFiniteSet(LiveNotes(i))
    BY <1>2, <2>1, FS_Subset
  <2>3. Credited(i) = SumFunctionOnSet(Amounts, LiveNotes(i))
    BY DEF Credited, Amounts
  <2>4. \A j \in LiveNotes(i) : Amounts[j] \in Int
    BY <1>4, <2>1
  <2> HIDE DEF Amounts
  <2> QED BY <2>1, <2>2, <2>3, <2>4, SumType
<1> QED BY <1>1, <1>2, <1>4, <1>5

LEMMA SecuredNext ==
    ASSUME NEW r, NEW i, proc'[r].sale = i,
           doc'[i].live, Credited(i)' + proc'[r].amount <= doc'[i].amount
    PROVE  Secured(r)'
BY DEF Secured, Credited, LiveNotes

\* No document comes or changes its credit, and no note starts.
LEMMA CreditFrame ==
    ASSUME IInv, Covers, Len(doc') = Len(doc),
           \A i \in Documents : /\ doc'[i].of = doc[i].of /\ doc'[i].live = doc[i].live
                                /\ doc'[i].amount = doc[i].amount /\ doc'[i].refund = doc[i].refund,
           \A r \in Requests : InNote(r)' =>
                InNote(r) /\ proc'[r].sale = proc[r].sale /\ proc'[r].amount = proc[r].amount
    PROVE  Covers'
<1>1. Documents' = Documents
  BY DEF Documents
<1>2. Amounts' = Amounts
  BY <1>1 DEF Amounts
<1>3. \A i : LiveNotes(i)' = LiveNotes(i)
  BY <1>1 DEF LiveNotes
<1>4. \A i : Credited(i)' = Credited(i)
  BY <1>2, <1>3 DEF Credited, Amounts
<1>5. \A f : NotesFor(f)' = NotesFor(f)
  BY <1>1 DEF NotesFor
<1>6. \A r \in Requests : InNote(r) => proc[r].sale \in Documents
  BY DEF IInv, DocumentsTypeOK, Fitting, Fits, Request, InNote, Documents
<1>7. \A j \in Documents' : doc'[j].of <= Len(doc')
  BY <1>1 DEF Covers
<1>8. \A r, q \in Requests : InNote(r)' /\ InNote(q)' /\ proc'[r].sale = proc'[q].sale => r = q
  BY DEF Covers
<1>9. \A r \in Requests : InNote(r)' => Secured(r)'
  <2> SUFFICES ASSUME NEW r \in Requests, InNote(r)' PROVE Secured(r)'
    OBVIOUS
  <2>1. PICK i \in Documents : /\ InNote(r) /\ proc[r].sale = i /\ proc'[r].sale = i
                               /\ proc'[r].amount = proc[r].amount
    BY <1>6
  <2>2. doc[i].live /\ Credited(i) + proc[r].amount <= doc[i].amount
    BY <2>1 DEF Covers, Secured
  <2>3. Credited(i)' = Credited(i)
    BY <1>4, <2>1
  <2>4. doc'[i].live /\ Credited(i)' + proc'[r].amount <= doc'[i].amount
    BY <2>1, <2>2, <2>3
  <2> QED BY <2>1, <2>4, SecuredNext
<1>10. \A i \in Documents' : Credited(i)' <= (IF doc'[i].live THEN doc'[i].amount ELSE 0)
  BY <1>1, <1>4 DEF Covers
<1>11. \A f \in Refunds : \A j, k \in NotesFor(f)' : j = k
  BY <1>5 DEF Covers
<1> HIDE DEF InNote, Credited
<1> QED BY <1>7, <1>8, <1>9, <1>10, <1>11 DEF Covers

\* A request moves, and is not in the transaction of a note unless it was.
LEMMA CreditMoves ==
    ASSUME IInv, Covers, NEW r \in Requests, NEW q, proc' = [proc EXCEPT ![r] = q], UNCHANGED doc,
           q.series # "credit" \/ q.at \notin {"number", "insert"}
              \/ (InNote(r) /\ q.sale = proc[r].sale /\ q.amount = proc[r].amount)
    PROVE  Covers'
<1>1. proc'[r] = q /\ \A p \in Requests : p # r => proc'[p] = proc[p]
  BY DEF IInv, DocumentsTypeOK
<1>2. \A p \in Requests : InNote(p)' =>
         InNote(p) /\ proc'[p].sale = proc[p].sale /\ proc'[p].amount = proc[p].amount
  BY <1>1 DEF InNote
<1> QED BY <1>2, CreditFrame

LEMMA CreditOver ==
    ASSUME IInv, Covers, NEW r \in Requests, Over(r), UNCHANGED doc
    PROVE  Covers'
BY OverGoes, CreditMoves

LEMMA CreditStart ==
    ASSUME IInv, Covers, NEW r \in Requests, Start(r)
    PROVE  Covers'
<1>1. ASSUME NEW q, proc' = [proc EXCEPT ![r] = q], UNCHANGED doc, q.series = "sale"
      PROVE  Covers'
  BY <1>1, CreditMoves
<1>2. Idle \in Request /\ Idle.series = "sale"
  BY IdleFits DEF Fits, Idle
<1>3. ASSUME NEW c \in Cards, Issue(r, c) PROVE Covers'
  <2> DEFINE q == [Idle EXCEPT !.at = "check", !.card = c]
  <2>1. q.series = "sale"
    BY <1>2 DEF Request
  <2>2. proc' = [proc EXCEPT ![r] = q] /\ UNCHANGED doc
    BY <1>3 DEF Issue
  <2> HIDE DEF q
  <2> QED BY <1>1, <2>1, <2>2
<1>4. ASSUME NEW c \in Cards, CardPaid(r, c) PROVE Covers'
  <2> DEFINE q == [Idle EXCEPT !.at = "check", !.source = "AUTO_STRIPE", !.card = c]
  <2>1. q.series = "sale"
    BY <1>2 DEF Request
  <2>2. proc' = [proc EXCEPT ![r] = q] /\ UNCHANGED doc
    BY <1>4 DEF CardPaid
  <2> HIDE DEF q
  <2> QED BY <1>1, <2>1, <2>2
<1>5. CASE CatchUp(r)
  <2> DEFINE c == CHOOSE c \in Missed : TRUE
             q == [Idle EXCEPT !.at = "check", !.source = "CATCH_UP", !.card = c, !.todo = Missed \ {c}]
  <2>1. q.series = "sale"
    BY <1>2 DEF Request
  <2>2. proc' = [proc EXCEPT ![r] = q] /\ UNCHANGED doc
    BY <1>5 DEF CatchUp
  <2> HIDE DEF q
  <2> QED BY <1>1, <2>1, <2>2
<1>6. ASSUME NEW f \in Refunds, RefundEvent(r, f) PROVE Covers'
  <2> DEFINE i == Max(LiveSales(refund[f].card))
             q == [Idle EXCEPT !.at = "reconcile", !.source = "STRIPE_REFUND", !.sale = i]
  <2>1. q.series = "sale"
    BY <1>2 DEF Request
  <2>2. proc' = [proc EXCEPT ![r] = q] /\ UNCHANGED doc
    BY <1>6 DEF RefundEvent
  <2> HIDE DEF q
  <2> QED BY <1>1, <2>1, <2>2
<1>7. ASSUME NEW i \in Documents, NEW amount \in 1..Price, NEW f \in Refunds \cup {NoRefund},
             ManualCredit(r, i, amount, f)
      PROVE  Covers'
  <2> DEFINE q == [Idle EXCEPT !.at = "credit", !.sale = i, !.amount = amount, !.refund = f]
  <2>1. q.series = "sale"
    BY <1>2 DEF Request
  <2>2. proc' = [proc EXCEPT ![r] = q] /\ UNCHANGED doc
    BY <1>7 DEF ManualCredit
  <2> HIDE DEF q
  <2> QED BY <1>1, <2>1, <2>2
<1> QED BY <1>3, <1>4, <1>5, <1>6, <1>7 DEF Start

\* The note's transaction begins: the lock of the sale document is free, and what
\* it adds to the notes that stand is covered.
LEMMA CreditBegins ==
    ASSUME IInv, Covers, NEW r \in Requests, NEW q, q.at = "number", q.series = "credit",
           q.sale = proc[r].sale, Unlocked(q.sale), doc[q.sale].live,
           Credited(q.sale) + q.amount <= doc[q.sale].amount,
           proc' = [proc EXCEPT ![r] = q], UNCHANGED doc
    PROVE  Covers'
<1>1. proc'[r] = q /\ \A p \in Requests : p # r => proc'[p] = proc[p]
  BY DEF IInv, DocumentsTypeOK
<1>2. \A p \in Requests : InNote(p)' => p = r \/ (InNote(p) /\ proc'[p] = proc[p])
  BY <1>1 DEF InNote
<1>3. \A p \in Requests : p # r /\ InNote(p) => proc[p].sale # q.sale
  BY DEF Unlocked
<1>4. /\ \A i : Credited(i)' = Credited(i)
      /\ \A f : NotesFor(f)' = NotesFor(f)
      /\ Documents' = Documents
  BY DEF Credited, LiveNotes, NotesFor, Documents
<1>5. \A j \in Documents' : doc'[j].of <= Len(doc')
  BY <1>4 DEF Covers
<1>6. \A p, o \in Requests : InNote(p)' /\ InNote(o)' /\ proc'[p].sale = proc'[o].sale => p = o
  BY <1>1, <1>2, <1>3 DEF Covers
<1>7. \A p \in Requests : InNote(p)' => Secured(p)'
  <2>1. Secured(r)'
    BY <1>1 DEF Secured, Credited, LiveNotes, Documents
  <2>2. ASSUME NEW p \in Requests, InNote(p), proc'[p] = proc[p] PROVE Secured(p)'
    <3>1. Secured(p)
      BY <2>2 DEF Covers
    <3> QED BY <2>2, <3>1 DEF Secured, Credited, LiveNotes, Documents
  <2> QED BY <1>2, <2>1, <2>2
<1>8. \A i \in Documents' : Credited(i)' <= (IF doc'[i].live THEN doc'[i].amount ELSE 0)
  BY <1>4 DEF Covers
<1>9. \A f \in Refunds : \A j, k \in NotesFor(f)' : j = k
  BY <1>4 DEF Covers
<1> HIDE DEF InNote, Credited
<1> QED BY <1>5, <1>6, <1>7, <1>8, <1>9 DEF Covers

LEMMA CreditStage ==
    ASSUME IInv, Covers, NEW r \in Requests, Credit(r)
    PROVE  Covers'
<1> DEFINE byHand == proc[r].amount > 0
           f == IF byHand THEN proc[r].refund ELSE CHOOSE f \in proc[r].plan : TRUE
           amount == IF byHand THEN proc[r].amount ELSE refund[f].amount
           rest == IF byHand THEN {} ELSE proc[r].plan \ {f}
<1>1. proc[r].at = "credit" /\ proc[r] \in Request /\ UNCHANGED doc
  BY DEF Credit, IInv, DocumentsTypeOK
<1>2. CASE Over(r)
  BY <1>1, <1>2, CreditOver
<1>3. CASE Goto(r, "email")
  <2> DEFINE q == [proc[r] EXCEPT !.at = "email"]
  <2>1. q.at = "email" /\ proc' = [proc EXCEPT ![r] = q]
    BY <1>1, <1>3 DEF Goto, Request
  <2> HIDE DEF q
  <2> QED BY <1>1, <2>1, CreditMoves
<1>4. ASSUME NEW others, proc' = [proc EXCEPT ![r].plan = others] PROVE Covers'
  <2> DEFINE q == [proc[r] EXCEPT !.plan = others]
  <2>1. q.at = "credit" /\ proc' = [proc EXCEPT ![r] = q]
    BY <1>1, <1>4 DEF Request
  <2> HIDE DEF q
  <2> QED BY <1>1, <2>1, CreditMoves
<1>5. CASE ~byHand /\ proc[r].plan = {}
  BY <1>2, <1>3, <1>5 DEF Credit, NotesDone
<1>6. CASE byHand \/ proc[r].plan # {}
  <2>1. CASE Creditable(proc[r].sale, amount, f)
    <3> DEFINE q == [proc[r] EXCEPT !.at = "number", !.series = "credit", !.amount = amount, !.refund = f,
                                    !.plan = rest]
    <3>1. proc' = [proc EXCEPT ![r] = q] /\ Unlocked(proc[r].sale)
      BY <1>6, <2>1 DEF Credit
    <3>2. doc[proc[r].sale].live /\ Credited(proc[r].sale) + amount <= doc[proc[r].sale].amount
      BY <2>1 DEF Creditable
    <3> HIDE DEF f, amount, rest
    <3>3. q.at = "number" /\ q.series = "credit" /\ q.sale = proc[r].sale /\ q.amount = amount
      BY <1>1 DEF Request
    <3> HIDE DEF q
    <3> QED BY <1>1, <3>1, <3>2, <3>3, CreditBegins
  <2>2. CASE ~Creditable(proc[r].sale, amount, f) /\ byHand
    BY <1>2, <1>6, <2>2 DEF Credit
  <2>3. CASE ~Creditable(proc[r].sale, amount, f) /\ ~byHand
    <3>1. proc' = [proc EXCEPT ![r].plan = rest]
      BY <1>6, <2>3 DEF Credit
    <3> HIDE DEF rest
    <3> QED BY <1>4, <3>1
  <2> QED BY <2>1, <2>2, <2>3
<1> QED BY <1>5, <1>6

\* A document is added, by a request that leaves its transaction with it.
LEMMA CreditAdded ==
    ASSUME IInv, Covers, NEW r \in Requests, NEW q, q.series # "credit", proc' = [proc EXCEPT ![r] = q],
           NEW rec \in DocumentRecord, doc' = Append(doc, rec),
           \/ rec.of = 0 /\ rec.refund = NoRefund
           \/ /\ InNote(r) /\ rec.of = proc[r].sale /\ rec.amount = proc[r].amount
              /\ LatchFree(rec.refund)
    PROVE  Covers'
<1> DEFINE n == Len(doc)
<1>1. n \in Nat /\ Documents = 1..n /\ Documents' = 1..(n + 1)
  BY DEF IInv, DocumentsTypeOK, Documents
<1>2. /\ doc' \in Seq(DocumentRecord) /\ Len(doc') = n + 1
      /\ doc'[n + 1] = rec /\ \A i \in 1..n : doc'[i] = doc[i]
  BY DEF IInv, DocumentsTypeOK
<1>3. /\ rec.amount \in Nat /\ rec.of \in Nat
      /\ \A j \in 1..n : doc[j].of \in 0..n /\ doc[j].amount \in Nat /\ doc[j].live \in BOOLEAN
  BY <1>1, DocumentTypes DEF DocumentRecord, Covers
<1>4. proc'[r] = q /\ \A p \in Requests : p # r => proc'[p] = proc[p]
  BY DEF IInv, DocumentsTypeOK
<1>5. \A p \in Requests : InNote(p)' => p # r /\ InNote(p) /\ proc'[p] = proc[p]
  BY <1>4 DEF InNote
<1>6. \A p \in Requests : InNote(p) => proc[p].sale \in 1..n
  BY <1>1 DEF IInv, DocumentsTypeOK, Fitting, Fits, Request, InNote, Documents
<1>7. rec.of \in 0..n
  BY <1>1, <1>6
<1>8. \A i \in 1..(n + 1) : LiveNotes(i)' = LiveNotes(i) \cup (IF rec.of = i /\ rec.live THEN {n + 1} ELSE {})
  BY <1>1, <1>2 DEF LiveNotes
<1>9. \A i \in 1..(n + 1) : SumFunctionOnSet(Amounts', LiveNotes(i)) = Credited(i) /\ IsFiniteSet(LiveNotes(i))
  <2> TAKE i \in 1..(n + 1)
  <2>1. LiveNotes(i) \subseteq 1..n /\ IsFiniteSet(LiveNotes(i))
        /\ Credited(i) = SumFunctionOnSet(Amounts, LiveNotes(i))
    BY <1>1, DocumentTypes
  <2>2. \A j \in LiveNotes(i) : Amounts'[j] = Amounts[j]
    BY <1>1, <1>2, <2>1 DEF Amounts
  <2> QED BY <2>1, <2>2, SumSame
<1>10. \A i \in 1..(n + 1) : Credited(i)' = Credited(i) + (IF rec.of = i /\ rec.live THEN rec.amount ELSE 0)
  <2> TAKE i \in 1..(n + 1)
  <2>1. Credited(i)' = SumFunctionOnSet(Amounts', LiveNotes(i)') /\ Credited(i) \in Int
    BY DocumentTypes DEF Credited, Amounts
  <2>2. CASE rec.of = i /\ rec.live
    <3>1. n + 1 \notin LiveNotes(i) /\ LiveNotes(i)' = LiveNotes(i) \cup {n + 1}
      BY <1>1, <1>8, <2>2 DEF LiveNotes
    <3>2. Amounts'[n + 1] = rec.amount
      BY <1>1, <1>2 DEF Amounts
    <3>3. \A j \in LiveNotes(i) \cup {n + 1} : Amounts'[j] \in Int
      BY <1>1, <1>2, <1>3 DEF Amounts, LiveNotes
    <3>4. SumFunctionOnSet(Amounts', LiveNotes(i) \cup {n + 1})
             = Amounts'[n + 1] + SumFunctionOnSet(Amounts', LiveNotes(i))
      BY <1>9, <3>1, <3>3, SumAdd
    <3> QED BY <1>3, <1>9, <2>1, <2>2, <3>1, <3>2, <3>4
  <2>3. CASE ~(rec.of = i /\ rec.live)
    <3>1. LiveNotes(i)' = LiveNotes(i)
      BY <1>8, <2>3
    <3> QED BY <1>9, <2>1, <2>3, <3>1
  <2> QED BY <2>2, <2>3
<1>11. Credited(n + 1) = 0
  <2>1. LiveNotes(n + 1) = {}
    BY <1>1, <1>3 DEF LiveNotes
  <2> QED BY <2>1, SumEmpty, DocumentTypes
<1>12. \A i \in 1..n : Credited(i) \in Int
  BY DocumentTypes
<1>13. \A j \in Documents' : doc'[j].of <= Len(doc')
  BY <1>1, <1>2, <1>3, <1>7
<1>14. \A p, o \in Requests : InNote(p)' /\ InNote(o)' /\ proc'[p].sale = proc'[o].sale => p = o
  BY <1>5 DEF Covers
<1>15. \A p \in Requests : InNote(p)' => Secured(p)'
  <2> SUFFICES ASSUME NEW p \in Requests, InNote(p)' PROVE Secured(p)'
    OBVIOUS
  <2>1. PICK i \in 1..n : p # r /\ InNote(p) /\ proc'[p] = proc[p] /\ proc[p].sale = i
    BY <1>5, <1>6
  <2>2. rec.of # i
    BY <1>1, <2>1 DEF Covers
  <2>3. doc[i].live /\ Credited(i) + proc[p].amount <= doc[i].amount
    BY <2>1 DEF Covers, Secured
  <2>4. Credited(i)' = Credited(i)
    BY <1>10, <1>12, <2>1, <2>2
  <2> QED BY <1>2, <2>1, <2>3, <2>4, SecuredNext
<1>16. \A i \in Documents' : Credited(i)' <= (IF doc'[i].live THEN doc'[i].amount ELSE 0)
  <2> SUFFICES ASSUME NEW i \in 1..(n + 1)
               PROVE  Credited(i)' <= (IF doc'[i].live THEN doc'[i].amount ELSE 0)
    BY <1>1
  <2>1. CASE i = n + 1
    BY <1>2, <1>3, <1>7, <1>10, <1>11, <2>1
  <2>2. CASE i # n + 1 /\ rec.of # i
    <3>1. i \in Documents /\ Credited(i)' = Credited(i) /\ doc'[i] = doc[i]
      BY <1>1, <1>2, <1>10, <1>12, <2>2
    <3> QED BY <3>1 DEF Covers
  <2>3. CASE i # n + 1 /\ rec.of = i
    <3>1. i \in 1..n /\ doc'[i] = doc[i]
      BY <1>1, <1>2, <2>3
    <3>2. doc[i].live /\ Credited(i) + rec.amount <= doc[i].amount
      <4>1. InNote(r) /\ i = proc[r].sale /\ rec.amount = proc[r].amount
        BY <2>3, <3>1
      <4>2. Secured(r)
        BY <4>1 DEF Covers
      <4> QED BY <4>1, <4>2 DEF Secured
    <3>3. Credited(i)' <= Credited(i) + rec.amount
      BY <1>3, <1>10, <1>12, <3>1
    <3>4. Credited(i)' \in Int
      BY <1>3, <1>10, <1>12, <3>1
    <3>5. doc[i].amount \in Nat /\ Credited(i) \in Int
      BY <1>3, <1>12, <3>1
    <3> QED BY <1>3, <3>1, <3>2, <3>3, <3>4, <3>5
  <2> QED BY <2>1, <2>2, <2>3
<1>17. \A f \in Refunds : \A j, k \in NotesFor(f)' : j = k
  <2>1. \A f \in Refunds : \A j \in NotesFor(f)' : j \in NotesFor(f) \/ (j = n + 1 /\ rec.refund = f)
    BY <1>1, <1>2 DEF NotesFor
  <2>2. \A f \in Refunds : rec.refund = f => NotesFor(f) = {}
    BY <1>6, DocumentsAssumption DEF LatchFree, DocumentsAssumption
  <2> QED BY <2>1, <2>2 DEF Covers
<1> HIDE DEF InNote, Credited, n
<1> QED BY <1>13, <1>14, <1>15, <1>16, <1>17 DEF Covers

LEMMA CreditInserts ==
    ASSUME IInv, Covers, NEW r \in Requests, InsertSale(r) \/ InsertNote(r)
    PROVE  Covers'
<1>1. proc[r] \in Request /\ Fits(proc[r], Len(doc)) /\ Len(doc) \in Nat /\ last \in [Series -> Nat]
  BY DEF IInv, DocumentsTypeOK, Fitting
<1>2. CASE InsertSale(r) /\ SaleKeyFree(proc[r].card)
  <2> DEFINE rec == [series |-> "sale", number |-> last["sale"], card |-> proc[r].card, live |-> TRUE,
                     amount |-> Price, of |-> 0, refund |-> NoRefund, mails |-> 0]
             stage == IF proc[r].source = "AUTO_STRIPE" THEN "email" ELSE "reconcile"
             q == [proc[r] EXCEPT !.sale = Len(doc) + 1, !.at = stage]
  <2>1. proc[r].series = "sale" /\ proc[r].card \in Cards
    BY <1>1, <1>2 DEF InsertSale, Fits
  <2>2. rec \in DocumentRecord /\ rec.of = 0 /\ rec.refund = NoRefund
    BY <1>1, <2>1, DocumentsAssumption DEF DocumentRecord, Series, DocumentsAssumption
  <2>3. q.series # "credit"
    BY <1>1, <2>1 DEF Request
  <2>4. doc' = Append(doc, rec) /\ proc' = [proc EXCEPT ![r] = q]
    BY <1>2 DEF InsertSale, Commit
  <2> HIDE DEF rec, q
  <2> QED BY <2>2, <2>3, <2>4, CreditAdded
<1>3. CASE InsertSale(r) /\ ~SaleKeyFree(proc[r].card)
  BY <1>3, CreditOver DEF InsertSale, RollBack
<1>4. CASE InsertNote(r)
  <2> DEFINE q == [proc[r] EXCEPT !.at = "credit", !.series = "sale", !.amount = 0, !.refund = NoRefund]
  <2>1. proc[r].series = "credit" /\ InNote(r) /\ proc[r].sale \in 1..Len(doc)
    BY <1>1, <1>4 DEF InsertNote, InNote, Fits, Request
  <2>2. q.series # "credit" /\ q.at = "credit"
    BY <1>1 DEF Request
  <2>3. proc' = [proc EXCEPT ![r] = q]
    BY <1>4 DEF InsertNote
  <2> HIDE DEF q
  <2>4. CASE LatchFree(proc[r].refund)
    <3> DEFINE rec == [series |-> "credit", number |-> last["credit"], card |-> doc[proc[r].sale].card,
                       live |-> TRUE, amount |-> proc[r].amount, of |-> proc[r].sale,
                       refund |-> proc[r].refund, mails |-> 0]
    <3>1. doc[proc[r].sale] \in DocumentRecord
      BY <2>1 DEF IInv, DocumentsTypeOK
    <3>2. /\ rec \in DocumentRecord /\ rec.of = proc[r].sale /\ rec.amount = proc[r].amount
          /\ rec.refund = proc[r].refund
      BY <1>1, <3>1 DEF DocumentRecord, Series, Request
    <3>3. doc' = Append(doc, rec)
      BY <1>4, <2>4 DEF InsertNote, Commit
    <3> HIDE DEF rec
    <3> QED BY <2>1, <2>2, <2>3, <2>4, <3>2, <3>3, CreditAdded
  <2>5. CASE ~LatchFree(proc[r].refund)
    <3>1. UNCHANGED doc
      BY <1>4, <2>5 DEF InsertNote, RollBack
    <3> QED BY <2>2, <2>3, <3>1, CreditMoves
  <2> QED BY <2>4, <2>5
<1> QED BY <1>2, <1>3, <1>4

\* What is mailed is not a matter of credits.
LEMMA CreditEmail ==
    ASSUME IInv, Covers, NEW r \in Requests, Email(r)
    PROVE  Covers'
<1>1. /\ proc \in [Requests -> Request] /\ proc[r].sale \in 1..Len(doc) /\ doc \in Seq(DocumentRecord)
      /\ Documents = 1..Len(doc)
  BY DEF IInv, DocumentsTypeOK, Fitting, Fits, Email, Request, Documents
<1> DEFINE i == proc[r].sale
           count == doc[i].mails + 1
<1>2. doc' = [doc EXCEPT ![i].mails = count]
  BY DEF Email
<1>3. \A j \in 1..Len(doc) : doc[j] \in DocumentRecord
  BY <1>1
<1> HIDE DEF count, i
<1>4. Len(doc') = Len(doc)
  BY <1>1, <1>2
<1>5. \A j \in Documents : /\ doc'[j].of = doc[j].of /\ doc'[j].live = doc[j].live
                           /\ doc'[j].amount = doc[j].amount /\ doc'[j].refund = doc[j].refund
  BY <1>1, <1>2, <1>3 DEF DocumentRecord
<1>6. PICK q : /\ proc' = [proc EXCEPT ![r] = q] /\ q.at \in {"idle", "check"}
  BY OverGoes DEF Email
<1>7. \A p \in Requests : InNote(p)' =>
         InNote(p) /\ proc'[p].sale = proc[p].sale /\ proc'[p].amount = proc[p].amount
  BY <1>1, <1>6 DEF InNote
<1> QED BY <1>4, <1>5, <1>7, CreditFrame

\* A document is voided: a receipt without notes, or a note, whose receipt is
\* credited less.
LEMMA CreditVoid ==
    ASSUME IInv, Covers, NEW i \in Documents, Void(i)
    PROVE  Covers'
<1>1. doc \in Seq(DocumentRecord) /\ Documents = 1..Len(doc) /\ Len(doc) \in Nat /\ UNCHANGED proc
  BY DEF IInv, DocumentsTypeOK, Documents, Void
<1>2. doc' = [doc EXCEPT ![i].live = FALSE] /\ Unlocked(i) /\ LiveNotes(i) = {}
  BY DEF Void, Voidable
<1>3. \A j \in Documents : doc[j] \in DocumentRecord
  BY <1>1
<1>4. Len(doc') = Len(doc) /\ Documents' = Documents
  BY <1>1, <1>2 DEF Documents
<1>5. /\ ~doc'[i].live
      /\ \A j \in Documents : /\ doc'[j].of = doc[j].of /\ doc'[j].amount = doc[j].amount
                              /\ doc'[j].refund = doc[j].refund
                              /\ (j # i => doc'[j] = doc[j])
  <2>1. [doc[i] EXCEPT !.live = FALSE] \in DocumentRecord
    BY <1>3 DEF DocumentRecord
  <2>2. doc' = [doc EXCEPT ![i] = [doc[i] EXCEPT !.live = FALSE]]
    BY <1>2
  <2>3. doc'[i] = [doc[i] EXCEPT !.live = FALSE] /\ \A j \in 1..Len(doc) : j # i => doc'[j] = doc[j]
    BY <1>1, <2>1, <2>2, RowWritten
  <2> QED BY <1>1, <1>3, <2>3 DEF DocumentRecord
<1>6. Amounts' = Amounts
  BY <1>4, <1>5 DEF Amounts
<1>7. \A k : LiveNotes(k)' \subseteq LiveNotes(k)
  BY <1>4, <1>5 DEF LiveNotes
<1>8. \A k : Credited(k)' \in Int /\ Credited(k)' <= Credited(k)
  <2> TAKE k
  <2>1. /\ LiveNotes(k) \subseteq Documents /\ IsFiniteSet(LiveNotes(k))
        /\ Credited(k) = SumFunctionOnSet(Amounts, LiveNotes(k))
    BY DocumentTypes
  <2>2. Credited(k)' = SumFunctionOnSet(Amounts, LiveNotes(k)')
    BY <1>6 DEF Credited, Amounts
  <2>3. \A j \in LiveNotes(k) : Amounts[j] \in Nat
    BY <2>1, DocumentTypes
  <2>4. IsFiniteSet(LiveNotes(k)')
    BY <1>7, <2>1, FS_Subset
  <2> HIDE DEF Amounts
  <2>5. SumFunctionOnSet(Amounts, LiveNotes(k)') <= SumFunctionOnSet(Amounts, LiveNotes(k))
    BY <1>7, <2>1, <2>3, SumAtMost
  <2>6. SumFunctionOnSet(Amounts, LiveNotes(k)') \in Int
    BY <1>7, <2>3, <2>4, SumType
  <2> QED BY <2>1, <2>2, <2>5, <2>6
<1>9. \A k : Credited(k) \in Int
  BY DocumentTypes
<1>10. \A j \in Documents : doc[j].amount \in Nat /\ doc[j].live \in BOOLEAN
  BY DocumentTypes
<1>11. \A j \in Documents' : doc'[j].of <= Len(doc')
  BY <1>4, <1>5 DEF Covers
<1>12. \A p, o \in Requests : InNote(p)' /\ InNote(o)' /\ proc'[p].sale = proc'[o].sale => p = o
  BY <1>1 DEF Covers, InNote
<1>13. \A p \in Requests : InNote(p)' => Secured(p)'
  <2> SUFFICES ASSUME NEW p \in Requests, InNote(p)' PROVE Secured(p)'
    OBVIOUS
  <2>1. InNote(p) /\ proc[p].sale \in Documents /\ proc[p].amount \in Nat
    BY <1>1 DEF IInv, DocumentsTypeOK, Fitting, Fits, Request, InNote
  <2>2. PICK k \in Documents : proc[p].sale = k /\ k # i
    BY <1>2, <2>1 DEF Unlocked
  <2>3. doc[k].live /\ Credited(k) + proc[p].amount <= doc[k].amount
    BY <2>1, <2>2 DEF Covers, Secured
  <2>4. doc'[k].live /\ doc'[k].amount = doc[k].amount
    BY <1>5, <2>2, <2>3
  <2>5. Credited(k)' + proc[p].amount <= doc[k].amount
    BY <1>8, <1>9, <1>10, <2>1, <2>3
  <2> QED BY <1>1, <2>2, <2>4, <2>5, SecuredNext
<1>14. \A k \in Documents' : Credited(k)' <= (IF doc'[k].live THEN doc'[k].amount ELSE 0)
  <2> SUFFICES ASSUME NEW k \in Documents PROVE Credited(k)' <= (IF doc'[k].live THEN doc'[k].amount ELSE 0)
    BY <1>4
  <2>1. CASE k = i
    <3>1. LiveNotes(k)' = {}
      BY <1>2, <1>7, <2>1
    <3>2. Credited(k)' = 0
      BY <3>1, SumEmpty DEF Credited
    <3>3. ~doc'[k].live
      BY <1>5, <2>1
    <3> HIDE DEF Credited
    <3> QED BY <3>2, <3>3
  <2>2. CASE k # i
    <3>1. Credited(k) <= (IF doc[k].live THEN doc[k].amount ELSE 0)
      BY DEF Covers
    <3>2. doc'[k] = doc[k]
      BY <1>5, <2>2
    <3>3. Credited(k)' <= Credited(k) /\ Credited(k)' \in Int /\ Credited(k) \in Int
      BY <1>8, <1>9
    <3>4. (IF doc[k].live THEN doc[k].amount ELSE 0) \in Nat
      BY <1>10
    <3> HIDE DEF Credited
    <3> QED BY <3>1, <3>2, <3>3, <3>4
  <2> QED BY <2>1, <2>2
<1>15. \A f \in Refunds : \A j, k \in NotesFor(f)' : j = k
  <2>1. \A f \in Refunds : NotesFor(f)' \subseteq NotesFor(f)
    BY <1>4, <1>5 DEF NotesFor
  <2> QED BY <2>1 DEF Covers
<1> HIDE DEF InNote, Credited
<1> QED BY <1>11, <1>12, <1>13, <1>14, <1>15 DEF Covers

LEMMA CreditNext ==
    ASSUME IInv, Covers, [Next]_vars
    PROVE  Covers'
<1>1. ASSUME NEW r \in Requests, Check(r) PROVE Covers'
  <2>1. proc[r] \in Request /\ proc[r].series = "sale" /\ UNCHANGED doc
    BY <1>1 DEF IInv, DocumentsTypeOK, Fitting, Fits, Check, Request, Series
  <2> DEFINE q == [proc[r] EXCEPT !.at = "number"]
  <2>2. CASE Goto(r, "number")
    <3>1. q.series = "sale" /\ proc' = [proc EXCEPT ![r] = q]
      BY <2>1, <2>2 DEF Goto, Request
    <3> HIDE DEF q
    <3> QED BY <2>1, <3>1, CreditMoves
  <2> QED BY <1>1, <2>1, <2>2, CreditOver DEF Check
<1>2. ASSUME NEW r \in Requests, Reconcile(r) PROVE Covers'
  <2> DEFINE plan == {f \in {g \in Refunds : refund[g].card = doc[proc[r].sale].card /\ refund[g].amount > 0} :
                         NotesFor(f) = {}}
             q == [proc[r] EXCEPT !.at = "credit", !.plan = plan]
  <2>1. proc[r] \in Request /\ UNCHANGED doc /\ proc' = [proc EXCEPT ![r] = q]
    BY <1>2 DEF IInv, DocumentsTypeOK, Reconcile
  <2> HIDE DEF plan
  <2>2. q.at = "credit"
    BY <2>1 DEF Request
  <2> HIDE DEF q
  <2> QED BY <2>1, <2>2, CreditMoves
<1>3. ASSUME NEW r \in Requests, TakeNumber(r) PROVE Covers'
  <2> DEFINE q == [proc[r] EXCEPT !.at = "insert"]
  <2>1. proc[r] \in Request /\ UNCHANGED doc /\ proc' = [proc EXCEPT ![r] = q] /\ proc[r].at = "number"
    BY <1>3 DEF IInv, DocumentsTypeOK, TakeNumber, Goto
  <2>2. q.series = proc[r].series /\ q.sale = proc[r].sale /\ q.amount = proc[r].amount
    BY <2>1 DEF Request
  <2> HIDE DEF q
  <2> QED BY <2>1, <2>2, CreditMoves DEF InNote
<1>4. ASSUME NEW r \in Requests, Crash(r) PROVE Covers'
  <2>1. UNCHANGED doc /\ proc' = [proc EXCEPT ![r] = Idle] /\ Idle.series # "credit"
    BY <1>4 DEF Crash, RollBack, Idle
  <2> QED BY <2>1, CreditMoves
<1>5. ASSUME NEW f \in Refunds, NEW amount \in 1..Price, StripeRefunds(f, amount) PROVE Covers'
  BY <1>5, CreditFrame DEF StripeRefunds, InNote
<1>6. CASE UNCHANGED vars
  BY <1>6, CreditFrame DEF vars, InNote
<1>7. ASSUME NEW r \in Requests, Start(r) \/ Step(r) \/ Crash(r) PROVE Covers'
  BY <1>1, <1>2, <1>3, <1>4, <1>7, CreditStart, CreditStage, CreditInserts, CreditEmail DEF Step
<1> QED BY <1>5, <1>6, <1>7, CreditVoid DEF Next

\* The notes that stand never credit more than was paid, never a receipt that was
\* voided and never one refund twice, whoever raises and voids them at once: for
\* any number of refunds, people, events and deaths of requests.
THEOREM CreditsAreCovered == Spec => []CreditsCovered
<1>1. Init => Covers
  <2> SUFFICES ASSUME Init PROVE Covers
    OBVIOUS
  <2>1. Documents = {} /\ \A r \in Requests : ~InNote(r)
    BY DEF Init, Documents, InNote, Idle
  <2>2. \A f : NotesFor(f) = {}
    BY <2>1 DEF NotesFor
  <2> QED BY <2>1, <2>2 DEF Covers
<1>2. IInv /\ Covers /\ [Next]_vars => Covers'
  BY CreditNext
<1>3. IInv /\ Covers => CreditsCovered
  <2> SUFFICES ASSUME IInv, Covers PROVE CreditsCovered
    OBVIOUS
  <2>1. ASSUME NEW f \in Refunds PROVE Cardinality(NotesFor(f)) <= 1
    <3>1. CASE NotesFor(f) = {}
      BY <3>1, FS_EmptySet
    <3>2. CASE NotesFor(f) # {}
      <4>1. PICK j \in NotesFor(f) : TRUE
        BY <3>2
      <4>2. \A k \in NotesFor(f) : k = j
        BY <4>1 DEF Covers
      <4>3. NotesFor(f) = {j}
        BY <4>1, <4>2
      <4>4. Cardinality({j}) = 1
        BY FS_Singleton
      <4> HIDE DEF NotesFor
      <4> QED BY <4>3, <4>4
    <3> QED BY <3>1, <3>2
  <2> QED BY <2>1 DEF Covers, CreditsCovered
<1> QED BY <1>1, <1>2, <1>3, DocumentInvariant, PTL DEF Spec
=============================================================================
