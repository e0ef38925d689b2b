--------------------------- MODULE BackOfficeProofs ---------------------------
(***************************************************************************)
(* Theorems about the back office as MCBackOffice composes it: about       *)
(* corporate orders, for any number of requests, sessions, keys and cards, *)
(* with requests that may die at any step; about the rounds of guests;     *)
(* about stock, for any number of venues and papers and any quantities;    *)
(* and what FinancialDocumentsProofs says of receipts, in this company.    *)
(***************************************************************************)
EXTENDS MCBackOffice, SumTheorems

-----------------------------------------------------------------------------
(* Corporate orders: the inductive invariant *)

\* A webhook knows its session, and a request that works through a file the row
\* it is at.
AtWork == \A r \in Requests :
    /\ proc[r].kind = "webhook" => proc[r].s \in Sessions
    /\ proc[r].at \in {"lookup", "list", "claim"} => proc[r].keys # {}

\* The ways an order and its payment go together.
Agreed ==
    /\ order.status = "NONE" => order.payment = "AWAITING_PAYMENT"
    /\ order.status = "ISSUED" => order.payment = "PAID"
    /\ order.status = "CANCELLED" => order.payment = "CANCELLED"

\* A key has one card, or none and nobody was told otherwise.
HandedOut == \A k \in Keys : (\E c : Holders(k) = {c}) \/ (k \notin answered /\ Holders(k) = {})

Typed == CorporateTypeOK /\ AtWork
IInv == Typed /\ Agreed /\ PoolOnce /\ HandedOut

ProcsOK == proc \in [Requests -> Request] /\ AtWork

-----------------------------------------------------------------------------
(* How requests move *)

LEMMA IdleType == Idle \in Request
BY DEF Idle, Request, Stages

\* A request that becomes another record of the type.
LEMMA Becomes ==
    ASSUME Typed, NEW r \in Requests, NEW rec \in Request, proc' = [proc EXCEPT ![r] = rec],
           rec.kind = "webhook" => rec.s \in Sessions,
           rec.at \in {"lookup", "list", "claim"} => rec.keys # {}
    PROVE  ProcsOK'
BY DEF Typed, CorporateTypeOK, AtWork, ProcsOK

LEMMA Goes ==
    ASSUME Typed, NEW r \in Requests, NEW stage \in Stages, Goto(r, stage),
           stage \in {"lookup", "list", "claim"} => proc[r].keys # {}
    PROVE  ProcsOK'
<1>1. proc[r] \in Request BY DEF Typed, CorporateTypeOK
<1>2. proc' = [proc EXCEPT ![r] = [proc[r] EXCEPT !.at = stage]] BY DEF Goto
<1>3. [proc[r] EXCEPT !.at = stage] \in Request BY <1>1 DEF Request
<1> HIDE DEF Goto
<1> QED BY <1>1, <1>2, <1>3, Becomes DEF Typed, AtWork, Request

LEMMA GoesToIssue ==
    ASSUME Typed, NEW r \in Requests, NEW recover \in BOOLEAN, ToIssue(r, recover)
    PROVE  ProcsOK'
<1>1. proc[r] \in Request BY DEF Typed, CorporateTypeOK
<1>2. proc' = [proc EXCEPT ![r] = [proc[r] EXCEPT !.at = "issue", !.recover = recover]]
  BY DEF ToIssue, Typed, CorporateTypeOK
<1>3. [proc[r] EXCEPT !.at = "issue", !.recover = recover] \in Request
  BY <1>1 DEF Request, Stages
<1> QED BY <1>1, <1>2, <1>3, Becomes DEF Typed, AtWork, Request

LEMMA Rests ==
    ASSUME Typed, NEW r \in Requests, proc' = [proc EXCEPT ![r] = Idle]
    PROVE  ProcsOK'
BY IdleType, Becomes DEF Idle

LEMMA Begins ==
    ASSUME Typed, NEW r \in Requests,
           NEW kind \in {"create", "webhook", "read", "refresh", "manual", "cancel"},
           NEW stage \in Stages \ {"lookup", "list", "claim"}, NEW s \in Sessions \cup {NoSession},
           Begin(r, kind, stage, s), kind = "webhook" => s \in Sessions
    PROVE  ProcsOK'
<1> DEFINE rec == [Idle EXCEPT !.kind = kind, !.at = stage, !.s = s]
<1>1. rec \in Request BY IdleType DEF Idle, Request
<1>2. rec.kind = kind /\ rec.at = stage /\ rec.s = s BY DEF Idle
<1>3. proc' = [proc EXCEPT ![r] = rec] BY DEF Begin
<1> HIDE DEF rec
<1> QED BY <1>1, <1>2, <1>3, Becomes

LEMMA Replies ==
    ASSUME Typed, NEW r \in Requests, Reply(r)
    PROVE  ProcsOK' /\ acked' \subseteq Sessions
BY Rests DEF Reply, Typed, CorporateTypeOK, AtWork

LEMMA Throws ==
    ASSUME Typed, NEW r \in Requests, Throw(r)
    PROVE  ProcsOK' /\ acked' \subseteq Sessions
BY Rests DEF Throw, Typed, CorporateTypeOK

-----------------------------------------------------------------------------
(* Types *)

LEMMA TypePayment ==
    ASSUME Typed, NEW r \in Requests, PaymentStep(r)
    PROVE  Typed'
<1> USE DEF Typed, CorporateTypeOK, ProcsOK
<1>0. proc[r] \in Request
  OBVIOUS
<1>1. ASSUME NEW s \in Sessions, CreateSession(r, s) PROVE Typed'
  <2>1. proc' = [proc EXCEPT ![r] = [proc[r] EXCEPT !.at = "save", !.s = s]]
    BY <1>1 DEF CreateSession
  <2>2. [proc[r] EXCEPT !.at = "save", !.s = s] \in Request
    BY <1>0 DEF Request, Stages
  <2>3. ProcsOK'
    BY <2>1, <2>2, <1>0, Becomes DEF Request
  <2> QED BY <1>1, <2>3 DEF CreateSession
<1>2. CASE SaveSession(r)
  BY <1>2, <1>0, Replies DEF SaveSession, OrderRecord, Request
<1>3. CASE Ask(r)
  BY <1>3, Goes, Replies DEF Ask, StillUnpaid, Stages
<1>4. CASE Clear(r)
  BY <1>4, Goes, Replies, Throws DEF Clear, ClearedBy, StillUnpaid, Stages, OrderRecord
<1>5. CASE Settle(r)
  BY <1>5, <1>0, Goes, GoesToIssue DEF Settle, Stages, OrderRecord, Request
<1>6. CASE Reload(r)
  BY <1>6, GoesToIssue, Replies DEF Reload
<1>7. CASE RecordPayment(r)
  BY <1>7, GoesToIssue, Throws DEF RecordPayment, OrderRecord
<1>8. CASE CancelWrite(r)
  BY <1>8, Goes, Replies, Throws DEF CancelWrite, Stages, OrderRecord
<1>9. CASE ExpireSession(r)
  BY <1>9, Replies DEF ExpireSession
<1> QED BY <1>1, <1>2, <1>3, <1>4, <1>5, <1>6, <1>7, <1>8, <1>9 DEF PaymentStep

LEMMA TypePool ==
    ASSUME Typed, NEW r \in Requests, Issue(r) \/ LookUp(r) \/ ListFree(r) \/ ClaimCard(r)
    PROVE  Typed'
<1> USE DEF Typed, CorporateTypeOK, ProcsOK
<1>0. proc[r] \in Request
  OBVIOUS
<1>1. CASE Issue(r)
  <2>1. Issuable => Cardinality(DOMAIN pool) = 0
    BY FS_EmptySet DEF Issuable
  <2>2. Issuable => NextCards \subseteq Nat
    BY <2>1, CorporateAssumption DEF NextCards, CorporateAssumption
  <2>3. ProcsOK' /\ acked' \subseteq Sessions
    BY <1>1, Replies, Throws DEF Issue
  <2>4. order' \in OrderRecord
    BY <1>1 DEF Issue, OrderRecord
  <2>5. CASE Issuable
    <3>1. pool' = [c \in DOMAIN pool \cup NextCards |->
                     IF c \in DOMAIN pool THEN pool[c] ELSE [live |-> TRUE, key |-> NoKey]]
      BY <1>1, <2>5 DEF Issue
    <3>2. DOMAIN pool' \in SUBSET Nat
      BY <2>2, <2>5, <3>1
    <3>3. \A c \in DOMAIN pool' : pool'[c] \in CardRecord
      BY <3>1 DEF CardRecord
    <3> QED BY <1>1, <2>3, <2>4, <3>2, <3>3 DEF Issue
  <2> QED BY <1>1, <2>3, <2>4, <2>5 DEF Issue
<1>2. ASSUME proc[r].at \in {"lookup", "claim"}, Allocated(r)
      PROVE  ProcsOK' /\ answered' \subseteq Keys
  <2>1. Row(r) \in proc[r].keys
    BY <1>2 DEF Row, AtWork
  <2>2. Row(r) \in Keys
    BY <1>0, <2>1 DEF Request
  <2>3. CASE proc[r].keys = {Row(r)}
    BY <1>2, <2>2, <2>3, Rests DEF Allocated
  <2>4. CASE proc[r].keys # {Row(r)}
    <3> DEFINE rec == [proc[r] EXCEPT !.at = "lookup", !.keys = proc[r].keys \ {Row(r)}, !.free = {}]
    <3>0. proc' = [proc EXCEPT ![r] = IF proc[r].keys = {Row(r)} THEN Idle ELSE rec]
      BY <1>2 DEF Allocated
    <3>1. proc' = [proc EXCEPT ![r] = rec]
      BY <2>4, <3>0
    <3>2. rec \in Request /\ rec.keys # {} /\ rec.kind = proc[r].kind /\ rec.s = proc[r].s
      BY <1>0, <2>1, <2>4 DEF Request, Stages
    <3> HIDE DEF rec
    <3> QED BY <1>2, <2>2, <3>1, <3>2, Becomes DEF Allocated, AtWork
  <2> QED BY <2>3, <2>4
<1>3. CASE LookUp(r)
  BY <1>2, <1>3, Goes DEF LookUp, Stages, AtWork
<1>4. CASE ListFree(r)
  <2> DEFINE free == {c \in DOMAIN pool : Free(c)}
             rec == [proc[r] EXCEPT !.at = "claim", !.free = free]
  <2>1. CASE free = {}
    BY <1>4, <2>1, Rests DEF ListFree
  <2>2. CASE free # {}
    <3>1. proc' = [proc EXCEPT ![r] = rec]
      BY <1>4, <2>2 DEF ListFree
    <3>2. rec \in Request /\ rec.keys = proc[r].keys /\ rec.kind = proc[r].kind /\ rec.s = proc[r].s
      BY <1>0 DEF Request, Stages
    <3>3. proc[r].keys # {}
      BY <1>4 DEF ListFree, AtWork
    <3> HIDE DEF rec
    <3> QED BY <1>4, <3>1, <3>2, <3>3, Becomes DEF ListFree, AtWork
  <2> QED BY <2>1, <2>2
<1>5. CASE ClaimCard(r)
  <2> DEFINE c == Min(proc[r].free)
  <2>1. CASE ~Free(c)
    <3> DEFINE rec == [proc[r] EXCEPT !.free = proc[r].free \ {c},
                                      !.at = IF proc[r].free = {c} THEN "list" ELSE proc[r].at]
    <3>1. proc' = [proc EXCEPT ![r] = rec]
      BY <1>5, <2>1 DEF ClaimCard
    <3>2. rec \in Request /\ rec.keys = proc[r].keys /\ rec.kind = proc[r].kind /\ rec.s = proc[r].s
      BY <1>0 DEF Request, Stages
    <3>3. proc[r].keys # {}
      BY <1>5 DEF ClaimCard, AtWork
    <3> HIDE DEF rec
    <3> QED BY <1>5, <2>1, <3>1, <3>2, <3>3, Becomes DEF ClaimCard, AtWork
  <2>2. CASE Free(c)
    <3>1. ProcsOK' /\ answered' \subseteq Keys
      BY <1>2, <1>5, <2>2 DEF ClaimCard
    <3>2. Row(r) \in Keys
      BY <1>0, <1>5 DEF ClaimCard, Row, AtWork, Request
    <3>3. DOMAIN pool' = DOMAIN pool /\ \A d \in DOMAIN pool : pool'[d] \in CardRecord
      BY <1>5, <2>2, <3>2 DEF ClaimCard, CardRecord
    <3> QED BY <1>5, <2>2, <3>1, <3>3 DEF ClaimCard
  <2> QED BY <2>1, <2>2
<1> QED BY <1>1, <1>3, <1>4, <1>5

LEMMA TypeStart ==
    ASSUME Typed, NEW r \in Requests, Start(r)
    PROVE  Typed'
<1> USE DEF Typed, CorporateTypeOK, ProcsOK
<1>1. CASE CreateOrder(r)
  <2>1. order' \in OrderRecord /\ UNCHANGED <<pool, session, acked, answered>>
    BY <1>1 DEF CreateOrder, OrderRecord
  <2>2. CASE order.test
    BY <1>1, <2>1, <2>2, Begins DEF CreateOrder, Stages
  <2>3. CASE ~order.test /\ order.method = "STRIPE"
    BY <1>1, <2>1, <2>3, Begins DEF CreateOrder, Stages
  <2>4. CASE ~order.test /\ order.method # "STRIPE"
    BY <1>1, <2>1, <2>4 DEF CreateOrder, AtWork
  <2> QED BY <2>2, <2>3, <2>4
<1>2. ASSUME NEW kind \in {"read", "refresh"}, Read(r, kind) PROVE Typed'
  BY <1>2, Begins DEF Read, ReadPending, ReadUnpaid, OrderRecord, Stages
<1>3. ASSUME NEW s \in Sessions, Webhook(r, s) PROVE Typed'
  <2> DEFINE rec == [Idle EXCEPT !.kind = "webhook", !.at = "issue", !.s = s, !.recover = TRUE]
  <2>1. rec \in Request /\ rec.s = s /\ rec.at = "issue"
    BY IdleType DEF Idle, Request, Stages
  <2>2. proc' = [proc EXCEPT ![r] = rec] => ProcsOK'
    <3> HIDE DEF rec
    <3> QED BY <2>1, Becomes
  <2>3. CASE order.payment # "PAID"
    BY <1>3, <2>3, Begins DEF Webhook, Stages
  <2>4. CASE order.payment = "PAID" /\ Pending
    BY <1>3, <2>2, <2>4 DEF Webhook
  <2>5. CASE order.payment = "PAID" /\ ~Pending
    BY <1>3, <2>5 DEF Webhook, AtWork
  <2> QED BY <2>3, <2>4, <2>5
<1>4. CASE Manual(r)
  BY <1>4, Begins DEF Manual, Stages
<1>5. CASE Cancel(r)
  BY <1>5, Begins DEF Cancel, OrderRecord, Stages
<1>6. ASSUME NEW keys \in SUBSET Keys, Allocate(r, keys) PROVE Typed'
  <2> DEFINE rec == [Idle EXCEPT !.kind = "allocate", !.at = "lookup", !.keys = keys]
  <2>1. rec \in Request /\ rec.keys = keys /\ rec.kind = "allocate"
    BY IdleType DEF Idle, Request, Stages
  <2>2. proc' = [proc EXCEPT ![r] = rec] /\ keys # {}
    BY <1>6 DEF Allocate
  <2>3. ProcsOK'
    <3> HIDE DEF rec
    <3> QED BY <2>1, <2>2, Becomes
  <2> QED BY <1>6, <2>3 DEF Allocate
<1> QED BY <1>1, <1>2, <1>3, <1>4, <1>5, <1>6 DEF Start

LEMMA TypeStep == Typed /\ [Next]_vars => Typed'
<1> SUFFICES ASSUME Typed, [Next]_vars PROVE Typed'
  OBVIOUS
<1>1. ASSUME NEW r \in Requests, Crash(r) PROVE Typed'
  BY <1>1, Rests DEF Crash, Typed, CorporateTypeOK, ProcsOK
<1>2. ASSUME NEW s \in Sessions, WebhookExpired(s) \/ BuyerPays(s) \/ SessionExpires(s) PROVE Typed'
  BY <1>2 DEF WebhookExpired, ClearedBy, BuyerPays, SessionExpires, Typed, CorporateTypeOK, AtWork, OrderRecord
<1>3. ASSUME NEW c \in DOMAIN pool, CancelCard(c) PROVE Typed'
  BY <1>3 DEF CancelCard, Typed, CorporateTypeOK, AtWork, CardRecord
<1>4. CASE UNCHANGED vars
  BY <1>4 DEF vars, Typed, CorporateTypeOK, AtWork
<1> QED BY <1>1, <1>2, <1>3, <1>4, TypeStart, TypePayment, TypePool DEF Next, Step

-----------------------------------------------------------------------------
(* The order, its payment and its pool *)

LEMMA OrderStep ==
    ASSUME Typed, Agreed, PoolOnce, [Next]_vars
    PROVE  Agreed' /\ PoolOnce'
<1> USE DEF Typed, CorporateTypeOK
<1>1. CASE UNCHANGED <<order, DOMAIN pool>>
  BY <1>1 DEF Agreed, PoolOnce
<1>2. ASSUME NEW r \in Requests, CreateOrder(r) PROVE Agreed' /\ PoolOnce'
  BY <1>2 DEF CreateOrder, Agreed, PoolOnce, OrderRecord
<1>3. ASSUME NEW r \in Requests, SaveSession(r) PROVE Agreed' /\ PoolOnce'
  BY <1>3 DEF SaveSession, Agreed, PoolOnce, OrderRecord
<1>4. ASSUME NEW r \in Requests, Clear(r) PROVE Agreed' /\ PoolOnce'
  BY <1>4 DEF Clear, ClearedBy, Agreed, PoolOnce, OrderRecord
<1>5. ASSUME NEW s \in Sessions, WebhookExpired(s) PROVE Agreed' /\ PoolOnce'
  BY <1>5 DEF WebhookExpired, ClearedBy, Agreed, PoolOnce, OrderRecord
<1>6. ASSUME NEW r \in Requests, Settle(r) \/ RecordPayment(r) PROVE Agreed' /\ PoolOnce'
  <2>1. CASE Payable
    <3>1. order'.status = "AWAITING_PAYMENT" /\ order'.payment = "PAID"
      BY <1>6, <2>1 DEF Settle, RecordPayment, Payable, Unpaid, OrderRecord
    <3>2. order.status = "AWAITING_PAYMENT" /\ pool' = pool
      BY <1>6, <2>1 DEF Settle, RecordPayment, Payable, Unpaid
    <3> QED BY <3>1, <3>2 DEF Agreed, PoolOnce
  <2>2. CASE ~Payable
    BY <1>1, <1>6, <2>2 DEF Settle, RecordPayment
  <2> QED BY <2>1, <2>2
<1>7. ASSUME NEW r \in Requests, CancelWrite(r) PROVE Agreed' /\ PoolOnce'
  BY <1>7 DEF CancelWrite, Unpaid, Agreed, PoolOnce, OrderRecord
<1>8. ASSUME NEW r \in Requests, Issue(r) PROVE Agreed' /\ PoolOnce'
  <2>1. CASE Issuable
    <3>1. Cardinality(DOMAIN pool) = 0
      BY <2>1, FS_EmptySet DEF Issuable
    <3>2. DOMAIN pool' = 1..Quantity
      BY <1>8, <2>1, <3>1, CorporateAssumption DEF Issue, Issuable, NextCards, CorporateAssumption
    <3>3. order'.status = "ISSUED" /\ order'.payment = "PAID"
      BY <1>8, <2>1 DEF Issue, Issuable, Pending, OrderRecord
    <3> QED BY <3>2, <3>3 DEF Agreed, PoolOnce
  <2> QED BY <1>1, <1>8, <2>1 DEF Issue
<1>9. ASSUME NEW r \in Requests, ClaimCard(r) PROVE UNCHANGED <<order, DOMAIN pool>>
  BY <1>9 DEF ClaimCard
<1>10. ASSUME NEW c \in DOMAIN pool, CancelCard(c) PROVE UNCHANGED <<order, DOMAIN pool>>
  BY <1>10 DEF CancelCard
<1>11. ASSUME UNCHANGED <<order, pool>> PROVE UNCHANGED <<order, DOMAIN pool>>
  BY <1>11
<1>12. ASSUME NEW r \in Requests, Start(r) \/ Crash(r) \/ Step(r)
       PROVE  Agreed' /\ PoolOnce'
  <2>1. \/ CreateOrder(r) \/ SaveSession(r) \/ Clear(r) \/ Settle(r) \/ RecordPayment(r)
        \/ CancelWrite(r) \/ Issue(r) \/ ClaimCard(r) \/ UNCHANGED <<order, pool>>
    BY <1>12
    DEF Start, Crash, Step, PaymentStep, CreateSession, Ask, Reload, ExpireSession, LookUp, ListFree,
        Read, Webhook, Manual, Cancel, Allocate
  <2> QED BY <2>1, <1>1, <1>2, <1>3, <1>4, <1>6, <1>7, <1>8, <1>9, <1>11
<1> QED BY <1>1, <1>5, <1>10, <1>11, <1>12 DEF Next, BuyerPays, SessionExpires, vars

-----------------------------------------------------------------------------
(* The keys *)

LEMMA HandedFrame ==
    ASSUME HandedOut, answered' = answered, \A k \in Keys : Holders(k)' = Holders(k)
    PROVE  HandedOut'
BY DEF HandedOut

\* Telling somebody of a card that is there.
LEMMA HandedTold ==
    ASSUME HandedOut, NEW k \in Keys, Holders(k) # {}, answered' = answered \cup {k}, pool' = pool
    PROVE  HandedOut'
BY DEF HandedOut, Holders

\* Writing a key without a card to a card without a key.
LEMMA HandedOver ==
    ASSUME Typed, HandedOut, NEW k \in Keys, NEW c \in DOMAIN pool,
           pool[c].key = NoKey, Holders(k) = {},
           pool' = [pool EXCEPT ![c].key = k], answered' = answered \cup {k}
    PROVE  HandedOut'
<1>1. DOMAIN pool' = DOMAIN pool /\ pool'[c].key = k
  BY DEF Typed, CorporateTypeOK, CardRecord
<1>2. \A d \in DOMAIN pool : d # c => pool'[d] = pool[d]
  OBVIOUS
<1>3. Holders(k)' = {c}
  BY <1>1, <1>2 DEF Holders
<1>4. \A j \in Keys : j # k => Holders(j)' = Holders(j)
  BY <1>1, <1>2, CorporateAssumption DEF Holders, CorporateAssumption
<1> QED BY <1>3, <1>4 DEF HandedOut

LEMMA KeyStep ==
    ASSUME Typed, PoolOnce, HandedOut, [Next]_vars
    PROVE  HandedOut'
<1> USE DEF Typed, CorporateTypeOK
<1>1. CASE UNCHANGED <<pool, answered>>
  BY <1>1 DEF HandedOut, Holders
<1>2. ASSUME NEW r \in Requests, Issue(r) PROVE HandedOut'
  <2>1. CASE Issuable
    <3>1. \A k \in Keys : Holders(k) = {}
      BY <2>1 DEF Issuable, Holders
    <3>2. \A k \in Keys : Holders(k)' = {}
      BY <1>2, <2>1, CorporateAssumption DEF Issue, Issuable, Holders, CorporateAssumption
    <3> QED BY <1>2, <3>1, <3>2, HandedFrame DEF Issue
  <2> QED BY <1>1, <1>2, <2>1 DEF Issue
<1>3. ASSUME NEW r \in Requests, proc[r].at \in {"lookup", "claim"} PROVE Row(r) \in Keys
  <2>1. proc[r].keys # {} /\ proc[r] \in Request
    BY <1>3 DEF AtWork
  <2> QED BY <2>1 DEF Row, Request
<1>4. ASSUME NEW r \in Requests, LookUp(r) PROVE HandedOut'
  <2>1. CASE Holders(Row(r)) # {}
    BY <1>3, <1>4, <2>1, HandedTold DEF LookUp, Allocated
  <2> QED BY <1>1, <1>4, <2>1 DEF LookUp
<1>5. ASSUME NEW r \in Requests, ClaimCard(r) PROVE HandedOut'
  <2> DEFINE c == Min(proc[r].free)
             k == Row(r)
  <2>1. k \in Keys
    BY <1>3, <1>5 DEF ClaimCard
  <2>2. CASE ~Free(c)
    BY <1>1, <1>5, <2>2 DEF ClaimCard
  <2>3. CASE Free(c) /\ Holders(k) # {}
    BY <1>5, <2>1, <2>3, HandedTold DEF ClaimCard, Allocated
  <2>4. CASE Free(c) /\ Holders(k) = {}
    <3>1. pool' = [pool EXCEPT ![c].key = k] /\ answered' = answered \cup {k}
      BY <1>5, <2>4 DEF ClaimCard, Allocated
    <3>2. c \in DOMAIN pool /\ pool[c].key = NoKey
      BY <2>4 DEF Free
    <3> HIDE DEF c, k
    <3> QED BY <2>1, <2>4, <3>1, <3>2, HandedOver
  <2> QED BY <2>2, <2>3, <2>4
<1>6. ASSUME NEW c \in DOMAIN pool, CancelCard(c) PROVE HandedOut'
  <2>1. DOMAIN pool' = DOMAIN pool /\ \A d \in DOMAIN pool : pool'[d].key = pool[d].key
    BY <1>6 DEF CancelCard, CardRecord
  <2>2. \A k \in Keys : Holders(k)' = Holders(k)
    BY <2>1 DEF Holders
  <2> QED BY <1>6, <2>2, HandedFrame DEF CancelCard
<1>7. ASSUME NEW r \in Requests, Start(r) \/ Crash(r) \/ Step(r) PROVE HandedOut'
  BY <1>7, <1>1, <1>2, <1>4, <1>5
  DEF Start, Crash, Step, PaymentStep, CreateSession, SaveSession, Ask, Clear, Settle, Reload,
      RecordPayment, CancelWrite, ExpireSession, ListFree, CreateOrder, Read, Webhook, Manual, Cancel, Allocate
<1> QED BY <1>1, <1>6, <1>7 DEF Next, WebhookExpired, BuyerPays, SessionExpires, vars

-----------------------------------------------------------------------------
(* Corporate orders: the theorems *)

LEMMA Initially == Init => IInv
<1> SUFFICES ASSUME Init PROVE IInv
  OBVIOUS
<1>1. DOMAIN pool = {}
  BY DEF Init
<1>2. Typed
  BY <1>1, IdleType DEF Init, Typed, CorporateTypeOK, AtWork, OrderRecord, Idle
<1>3. Agreed
  BY DEF Init, Agreed
<1>4. PoolOnce
  BY <1>1 DEF Init, PoolOnce
<1>5. HandedOut
  <2>1. \A k \in Keys : Holders(k) = {}
    BY <1>1 DEF Holders
  <2> QED BY <2>1 DEF Init, HandedOut
<1> QED BY <1>2, <1>3, <1>4, <1>5 DEF IInv

\* The inductive invariant.
THEOREM OrderInvariant == Spec => []IInv
<1>1. IInv /\ [Next]_vars => IInv'
  <2> SUFFICES ASSUME IInv, [Next]_vars PROVE IInv'
    OBVIOUS
  <2>1. Typed /\ Agreed /\ PoolOnce /\ HandedOut
    BY DEF IInv
  <2>2. Typed' /\ Agreed' /\ PoolOnce' /\ HandedOut'
    BY <2>1, TypeStep, OrderStep, KeyStep
  <2> QED BY <2>2 DEF IInv
<1> QED BY <1>1, Initially, PTL DEF Spec

\* The order, its cards, Stripe's sessions and the requests keep their types.
THEOREM CorporateTypes == Spec => []CorporateTypeOK
<1>1. IInv => CorporateTypeOK
  BY DEF IInv, Typed
<1> QED BY <1>1, OrderInvariant, PTL

\* "CANCELLED + PAID is a state that cannot be reached", whoever races.
THEOREM NeverCancelledAndPaid == Spec => []CancelledIsUnpaid
<1>1. IInv => CancelledIsUnpaid
  BY DEF IInv, Agreed, PoolOnce, CancelledIsUnpaid
<1> QED BY <1>1, OrderInvariant, PTL

\* The pool is made exactly once, of the size that was ordered, when it is paid.
THEOREM IssuedOnce == Spec => []PoolOnce
<1>1. IInv => PoolOnce
  BY DEF IInv
<1> QED BY <1>1, OrderInvariant, PTL

\* A key is one card, and the card it was told.
THEOREM KeyedOnce == Spec => []OneCardPerKey
<1>1. IInv => OneCardPerKey
  BY FS_Singleton DEF IInv, HandedOut, OneCardPerKey
<1> QED BY <1>1, OrderInvariant, PTL

-----------------------------------------------------------------------------
(* The rounds of guests.  Where requests that have claimed a round stand.    *)

Asked(p) == phone[p].round
Serving(p) == phone[p].at \in {"find", "create", "lines", "pay", "fire", "save"}

\* A round has one link, and money only with a link.
LinkedOnce ==
    /\ \A p \in Phones : Guests!At(p, "link") => round[Asked(p)].status = "WAITING"
    /\ \A p, q \in Phones :
          Guests!At(p, "link") /\ Guests!At(q, "link") /\ Asked(p) = Asked(q) => p = q
    /\ \A g \in Rounds : round[g].status \in {"NONE", "WAITING", "EXPIRED"} => square[g] = "none"

\* Who claims a round has heard that it is paid, and is alone with it.
ServedOnce ==
    /\ \A p \in Phones : Guests!At(p, "claim") \/ Serving(p) => square[Asked(p)] = "COMPLETED"
    /\ \A p \in Phones : Serving(p) => round[Asked(p)].posOrder = Claimed
    /\ \A p, q \in Phones : Serving(p) /\ Serving(q) /\ Asked(p) = Asked(q) => p = q

\* Over all bills a round has its lines once.
OnOneBill ==
    \A g \in Rounds :
        /\ round[g].posOrder = NoTab => \A t \in Tabs : tab[t].lines[g] = 0
        /\ \A t \in Tabs :
              /\ tab[t].fired[g] <= tab[t].money[g] /\ tab[t].money[g] <= tab[t].lines[g]
              /\ tab[t].lines[g] <= 1
              /\ tab[t].lines[g] # 0 => square[g] = "COMPLETED"
        /\ \A t, u \in Tabs : tab[t].lines[g] # 0 /\ tab[u].lines[g] # 0 => t = u
        /\ round[g].posOrder \in Tabs => tab[round[g].posOrder].fired[g] = 1

\* How far a request has come is how much of the round is on the bill.
AsFarAs(at, t, g) ==
    /\ at \in {"find", "create", "lines"} => \A u \in Tabs : tab[u].lines[g] = 0
    /\ at \in {"lines", "pay", "fire", "save"} => t \in Tabs
    /\ at \in {"pay", "fire", "save"} => tab[t].lines[g] = 1
    /\ at = "pay" => tab[t].money[g] = 0
    /\ at \in {"fire", "save"} => tab[t].money[g] = 1
    /\ at = "fire" => tab[t].fired[g] = 0
    /\ at = "save" => tab[t].fired[g] = 1

StepByStep == \A p \in Phones : AsFarAs(phone[p].at, phone[p].tab, Asked(p))

RoundInv == Guests!QrTypeOK /\ LinkedOnce /\ ServedOnce /\ OnOneBill /\ StepByStep

LEMMA OneMore == Guests!More(0) = 1
<1>1. Guests!More(0) = Guests!Min({1, 2}) BY DEF Guests!More
<1> QED BY <1>1 DEF Guests!Min

LEMMA OldestOf ==
    ASSUME Guests!QrAssumption, NEW S \in SUBSET Tabs, S # {}
    PROVE  Guests!Min(S) \in S
<1>1. PICK t \in S : \A u \in S : t <= u
  <2>1. PICK t \in S : \A u \in S : ~(<<u, t>> \in OpToRel(<, Nat))
    BY NatLessThanWellFounded, WFMin DEF Guests!QrAssumption
  <2>2. \A u \in S : u \in Nat BY DEF Guests!QrAssumption
  <2>3. \A u \in S : ~(u < t)
    BY <2>1, <2>2 DEF OpToRel
  <2> QED BY <2>2, <2>3
<1> QED BY <1>1 DEF Guests!Min

\* Steps that leave the bills alone.
LEMMA SubmitKeeps ==
    ASSUME Guests!QrAssumption, RoundInv, NEW p \in Phones, NEW g \in Rounds, Guests!Submit(p, g)
    PROVE  RoundInv'
<1> USE DEF Guests!Submit, Guests!Begin, Guests!Idle
<1>1. Guests!QrTypeOK'
  BY DEF RoundInv, Guests!QrTypeOK, Guests!RoundRecord, Guests!Request
<1>2. LinkedOnce'
  BY DEF RoundInv, Guests!QrTypeOK, Guests!RoundRecord, Guests!Request, LinkedOnce, Guests!At, Asked
<1>3. ServedOnce'
  BY DEF RoundInv, Guests!QrTypeOK, Guests!RoundRecord, Guests!Request, ServedOnce, Guests!At, Asked, Serving
<1>4. OnOneBill'
  BY DEF RoundInv, Guests!QrTypeOK, Guests!RoundRecord, OnOneBill
<1>5. StepByStep'
  BY DEF RoundInv, Guests!QrTypeOK, Guests!Request, StepByStep, AsFarAs, Asked
<1> QED BY <1>1, <1>2, <1>3, <1>4, <1>5 DEF RoundInv
LEMMA ConfirmPaidKeeps ==
    ASSUME Guests!QrAssumption, RoundInv, NEW p \in Phones, NEW g \in Rounds, Guests!ConfirmPaid(p, g)
    PROVE  RoundInv'
<1> USE DEF Guests!ConfirmPaid, Guests!Begin, Guests!Idle
<1>1. Guests!QrTypeOK'
  BY DEF RoundInv, Guests!QrTypeOK, Guests!RoundRecord, Guests!Request, Guests!TabRecord
<1>2. LinkedOnce'
  BY DEF RoundInv, Guests!QrTypeOK, Guests!RoundRecord, Guests!Request, Guests!TabRecord, LinkedOnce, Guests!At, Asked
<1>3. ServedOnce'
  BY DEF RoundInv, Guests!QrTypeOK, Guests!RoundRecord, Guests!Request, Guests!TabRecord, ServedOnce, Guests!At, Asked, Serving
<1>4. OnOneBill'
  BY DEF RoundInv, Guests!QrTypeOK, Guests!RoundRecord, Guests!Request, Guests!TabRecord, OnOneBill
<1>5. StepByStep'
  BY DEF RoundInv, Guests!QrTypeOK, Guests!RoundRecord, Guests!Request, Guests!TabRecord, StepByStep, AsFarAs, Asked
<1> QED BY <1>1, <1>2, <1>3, <1>4, <1>5 DEF RoundInv

LEMMA CrashKeeps ==
    ASSUME Guests!QrAssumption, RoundInv, NEW p \in Phones, Guests!Crash(p)
    PROVE  RoundInv'
<1> USE DEF Guests!Crash, Guests!Return, Guests!Idle, Guests!At
<1>1. Guests!QrTypeOK'
  BY DEF RoundInv, Guests!QrTypeOK, Guests!RoundRecord, Guests!Request, Guests!TabRecord
<1>2. LinkedOnce'
  BY DEF RoundInv, Guests!QrTypeOK, Guests!RoundRecord, Guests!Request, Guests!TabRecord, LinkedOnce, Guests!At, Asked
<1>3. ServedOnce'
  BY DEF RoundInv, Guests!QrTypeOK, Guests!RoundRecord, Guests!Request, Guests!TabRecord, ServedOnce, Guests!At, Asked, Serving
<1>4. OnOneBill'
  BY DEF RoundInv, Guests!QrTypeOK, Guests!RoundRecord, Guests!Request, Guests!TabRecord, OnOneBill
<1>5. StepByStep'
  BY DEF RoundInv, Guests!QrTypeOK, Guests!RoundRecord, Guests!Request, Guests!TabRecord, StepByStep, AsFarAs, Asked
<1> QED BY <1>1, <1>2, <1>3, <1>4, <1>5 DEF RoundInv

LEMMA GuestPaysKeeps ==
    ASSUME Guests!QrAssumption, RoundInv, NEW g \in Rounds, Guests!GuestPays(g)
    PROVE  RoundInv'
<1> USE DEF Guests!GuestPays
<1>1. Guests!QrTypeOK'
  BY DEF RoundInv, Guests!QrTypeOK, Guests!RoundRecord, Guests!Request, Guests!TabRecord
<1>2. LinkedOnce'
  BY DEF RoundInv, Guests!QrTypeOK, Guests!RoundRecord, Guests!Request, Guests!TabRecord, LinkedOnce, Guests!At, Asked
<1>3. ServedOnce'
  BY DEF RoundInv, Guests!QrTypeOK, Guests!RoundRecord, Guests!Request, Guests!TabRecord, ServedOnce, Guests!At, Asked, Serving
<1>4. OnOneBill'
  BY DEF RoundInv, Guests!QrTypeOK, Guests!RoundRecord, Guests!Request, Guests!TabRecord, OnOneBill
<1>5. StepByStep'
  BY DEF RoundInv, Guests!QrTypeOK, Guests!RoundRecord, Guests!Request, Guests!TabRecord, StepByStep, AsFarAs, Asked
<1> QED BY <1>1, <1>2, <1>3, <1>4, <1>5 DEF RoundInv

LEMMA StaffOpenKeeps ==
    ASSUME Guests!QrAssumption, RoundInv, Guests!StaffOpen
    PROVE  RoundInv'
<1> USE DEF Guests!StaffOpen
<1>1. Guests!QrTypeOK'
  BY DEF RoundInv, Guests!QrTypeOK, Guests!RoundRecord, Guests!Request, Guests!TabRecord
<1>2. LinkedOnce'
  BY DEF RoundInv, Guests!QrTypeOK, Guests!RoundRecord, Guests!Request, Guests!TabRecord, LinkedOnce, Guests!At, Asked
<1>3. ServedOnce'
  BY DEF RoundInv, Guests!QrTypeOK, Guests!RoundRecord, Guests!Request, Guests!TabRecord, ServedOnce, Guests!At, Asked, Serving
<1>4. OnOneBill'
  BY DEF RoundInv, Guests!QrTypeOK, Guests!RoundRecord, Guests!Request, Guests!TabRecord, OnOneBill
<1>5. StepByStep'
  BY DEF RoundInv, Guests!QrTypeOK, Guests!RoundRecord, Guests!Request, Guests!TabRecord, StepByStep, AsFarAs, Asked
<1> QED BY <1>1, <1>2, <1>3, <1>4, <1>5 DEF RoundInv

LEMMA StaffCloseKeeps ==
    ASSUME Guests!QrAssumption, RoundInv, NEW t \in Tabs, Guests!StaffClose(t)
    PROVE  RoundInv'
<1> USE DEF Guests!StaffClose
<1>1. Guests!QrTypeOK'
  BY DEF RoundInv, Guests!QrTypeOK, Guests!RoundRecord, Guests!Request, Guests!TabRecord
<1>2. LinkedOnce'
  BY DEF RoundInv, Guests!QrTypeOK, Guests!RoundRecord, Guests!Request, Guests!TabRecord, LinkedOnce, Guests!At, Asked
<1>3. ServedOnce'
  BY DEF RoundInv, Guests!QrTypeOK, Guests!RoundRecord, Guests!Request, Guests!TabRecord, ServedOnce, Guests!At, Asked, Serving
<1>4. OnOneBill'
  BY DEF RoundInv, Guests!QrTypeOK, Guests!RoundRecord, Guests!Request, Guests!TabRecord, OnOneBill
<1>5. StepByStep'
  BY DEF RoundInv, Guests!QrTypeOK, Guests!RoundRecord, Guests!Request, Guests!TabRecord, StepByStep, AsFarAs, Asked
<1> QED BY <1>1, <1>2, <1>3, <1>4, <1>5 DEF RoundInv

\* A request goes on, or is done.
LEMMA GoesOn ==
    ASSUME Guests!QrTypeOK, NEW p \in Phones, NEW stage,
           stage \in {"idle", "link", "ask", "claim", "find", "create", "lines", "pay", "fire", "save"},
           Guests!Goto(p, stage)
    PROVE  /\ phone' \in [Phones -> Guests!Request]
           /\ phone'[p] = [at |-> stage, round |-> Asked(p), tab |-> phone[p].tab]
           /\ \A q \in Phones : q # p => phone'[q] = phone[q]
BY DEF Guests!QrTypeOK, Guests!Request, Guests!Goto, Asked

LEMMA IsDone ==
    ASSUME Guests!QrAssumption, Guests!QrTypeOK, NEW p \in Phones, Guests!Return(p)
    PROVE  /\ phone' \in [Phones -> Guests!Request]
           /\ phone'[p].at = "idle"
           /\ \A q \in Phones : q # p => phone'[q] = phone[q]
BY DEF Guests!QrAssumption, Guests!QrTypeOK, Guests!Request, Guests!Return, Guests!Idle

LEMMA LinkKeeps ==
    ASSUME Guests!QrAssumption, RoundInv, NEW p \in Phones, Guests!Link(p)
    PROVE  RoundInv'
<1> DEFINE g == Asked(p)
<1>1. /\ g \in Rounds /\ Guests!QrTypeOK /\ Guests!At(p, "link")
      /\ round[g].status = "WAITING" /\ square[g] = "none"
  BY DEF RoundInv, LinkedOnce, Guests!QrTypeOK, Guests!Request, Guests!Link, Asked
<1>2. Guests!Return(p) BY DEF Guests!Link
<1>3. /\ phone' \in [Phones -> Guests!Request] /\ phone'[p].at = "idle"
      /\ \A q \in Phones : q # p => phone'[q] = phone[q]
  BY <1>1, <1>2, IsDone
<1>4. PICK status \in {"LINKED", "EXPIRED"} :
        /\ round' = [round EXCEPT ![g].status = status]
        /\ square' = IF status = "LINKED" THEN [square EXCEPT ![g] = "OPEN"] ELSE square
  BY DEF Guests!Link, Asked
<1>5. /\ round' \in [Rounds -> Guests!RoundRecord]
      /\ \A h \in Rounds : round'[h].posOrder = round[h].posOrder
      /\ \A h \in Rounds : h # g => round'[h] = round[h]
      /\ round'[g].status = status
  BY <1>1, <1>4 DEF Guests!QrTypeOK, Guests!RoundRecord
<1>6. /\ square' \in [Rounds -> {"none", "OPEN", "COMPLETED"}]
      /\ \A h \in Rounds : h # g => square'[h] = square[h]
      /\ square'[g] = IF status = "LINKED" THEN "OPEN" ELSE "none"
  BY <1>1, <1>4 DEF Guests!QrTypeOK
<1>7. tab' = tab /\ \A q \in Phones : Asked(q) \in Rounds
  BY <1>1 DEF Guests!Link, Guests!QrTypeOK, Guests!Request, Asked
<1>71. \A q \in Phones : Guests!At(q, "link") /\ q # p => Asked(q) # g
  BY <1>1 DEF RoundInv, LinkedOnce
<1>72. \A q \in Phones : Guests!At(q, "claim") \/ Serving(q) => Asked(q) # g
  BY <1>1 DEF RoundInv, ServedOnce
<1> HIDE DEF g
<1> USE <1>1, <1>3, <1>5, <1>6, <1>7, <1>71, <1>72
<1>8. Guests!QrTypeOK'
  BY DEF Guests!QrTypeOK
<1>9. LinkedOnce'
  BY DEF RoundInv, LinkedOnce, Guests!At, Asked
<1>10. ServedOnce'
  BY DEF RoundInv, ServedOnce, Guests!At, Asked, Serving
<1>11. OnOneBill'
  BY DEF RoundInv, OnOneBill
<1>12. StepByStep'
  BY DEF RoundInv, StepByStep, AsFarAs, Asked
<1> QED BY <1>8, <1>9, <1>10, <1>11, <1>12 DEF RoundInv

LEMMA AskKeeps ==
    ASSUME Guests!QrAssumption, RoundInv, NEW p \in Phones, Guests!Ask(p)
    PROVE  RoundInv'
<1>1. Guests!QrTypeOK /\ Guests!At(p, "ask") /\ UNCHANGED <<round, square, tab>>
  BY DEF RoundInv, Guests!Ask
<1>2. /\ phone' \in [Phones -> Guests!Request]
      /\ \A q \in Phones : q # p => phone'[q] = phone[q]
      /\ \/ phone'[p].at = "idle"
         \/ /\ square[Asked(p)] = "COMPLETED"
            /\ phone'[p] = [at |-> "claim", round |-> Asked(p), tab |-> phone[p].tab]
  BY <1>1, GoesOn, IsDone DEF Guests!Ask, Asked
<1> USE <1>1, <1>2
<1>3. Guests!QrTypeOK'
  BY DEF Guests!QrTypeOK
<1>4. LinkedOnce'
  BY DEF RoundInv, LinkedOnce, Guests!At, Asked
<1>5. ServedOnce'
  BY DEF RoundInv, ServedOnce, Guests!At, Asked, Serving
<1>6. OnOneBill'
  BY DEF RoundInv, OnOneBill
<1>7. StepByStep'
  BY DEF RoundInv, StepByStep, AsFarAs, Asked
<1> QED BY <1>3, <1>4, <1>5, <1>6, <1>7 DEF RoundInv

LEMMA ClaimKeeps ==
    ASSUME Guests!QrAssumption, RoundInv, NEW p \in Phones, Guests!Claim(p)
    PROVE  RoundInv'
<1> DEFINE g == Asked(p)
<1>1. /\ g \in Rounds /\ Guests!QrTypeOK /\ Guests!At(p, "claim") /\ UNCHANGED <<square, tab>>
      /\ square[g] = "COMPLETED"
  BY DEF RoundInv, ServedOnce, Guests!QrTypeOK, Guests!Request, Guests!Claim, Asked
<1>2. CASE ~Guests!Claimable(g)
  <2>1. round' = round /\ Guests!Return(p)
    BY <1>2 DEF Guests!Claim, Asked
  <2>2. /\ phone' \in [Phones -> Guests!Request] /\ phone'[p].at = "idle"
        /\ \A q \in Phones : q # p => phone'[q] = phone[q]
    BY <1>1, <2>1, IsDone
  <2> USE <1>1, <2>1, <2>2
  <2>3. Guests!QrTypeOK'
    BY DEF Guests!QrTypeOK
  <2>4. LinkedOnce'
    BY DEF RoundInv, LinkedOnce, Guests!At, Asked
  <2>5. ServedOnce'
    BY DEF RoundInv, ServedOnce, Guests!At, Asked, Serving
  <2>6. OnOneBill'
    BY DEF RoundInv, OnOneBill
  <2>7. StepByStep'
    BY DEF RoundInv, StepByStep, AsFarAs, Asked
  <2> QED BY <2>3, <2>4, <2>5, <2>6, <2>7 DEF RoundInv
<1>3. CASE Guests!Claimable(g)
  <2>1. round' = [round EXCEPT ![g] = [status |-> "PAID", posOrder |-> Claimed]] /\ Guests!Goto(p, "find")
    BY <1>3 DEF Guests!Claim, Asked
  <2>2. /\ phone' \in [Phones -> Guests!Request]
        /\ phone'[p] = [at |-> "find", round |-> g, tab |-> phone[p].tab]
        /\ \A q \in Phones : q # p => phone'[q] = phone[q]
    BY <1>1, <2>1, GoesOn
  <2>3. /\ round' \in [Rounds -> Guests!RoundRecord]
        /\ \A h \in Rounds : h # g => round'[h] = round[h]
        /\ round'[g].status = "PAID" /\ round'[g].posOrder = Claimed
    BY <1>1, <2>1 DEF Guests!QrTypeOK, Guests!RoundRecord
  <2>4. round[g].posOrder = NoTab /\ \A q \in Phones : Serving(q) => Asked(q) # g
    BY <1>3, <1>1 DEF Guests!Claimable, RoundInv, ServedOnce, Guests!QrAssumption
  <2>5. \A t \in Tabs : tab[t].lines[g] = 0
    BY <2>4, <1>1 DEF RoundInv, OnOneBill
  <2>6. NoTab # Claimed /\ Claimed \notin Tabs BY DEF Guests!QrAssumption
  <2>7. \A q \in Phones : Asked(q) \in Rounds
    BY <1>1 DEF Guests!QrTypeOK, Guests!Request, Asked
  <2>8. \A q \in Phones : Guests!At(q, "link") => Asked(q) # g
    <3>1. \A h \in Rounds : square[h] = "COMPLETED" => round[h].status # "WAITING"
      BY DEF RoundInv, LinkedOnce
    <3> QED BY <3>1, <1>1 DEF RoundInv, LinkedOnce
  <2> HIDE DEF g
  <2> USE <1>1, <2>2, <2>3, <2>4, <2>5, <2>6, <2>7, <2>8
  <2>9. Guests!QrTypeOK'
    BY DEF Guests!QrTypeOK
  <2>10. LinkedOnce'
    BY DEF RoundInv, LinkedOnce, Guests!At, Asked
  <2>11. ServedOnce'
    BY DEF RoundInv, ServedOnce, Guests!At, Asked, Serving
  <2>12. OnOneBill'
    BY DEF RoundInv, OnOneBill
  <2>13. StepByStep'
    BY DEF RoundInv, StepByStep, AsFarAs, Asked
  <2> QED BY <2>9, <2>10, <2>11, <2>12, <2>13 DEF RoundInv
<1> QED BY <1>2, <1>3

LEMMA FindKeeps ==
    ASSUME Guests!QrAssumption, RoundInv, NEW p \in Phones, Guests!Find(p)
    PROVE  RoundInv'
<1>1. Guests!QrTypeOK /\ Guests!At(p, "find") /\ UNCHANGED <<round, square, tab>>
  BY DEF RoundInv, Guests!Find
<1> DEFINE open == {t \in Tabs : tab[t].status = "OPEN"}
<1>2. PICK at \in {"create", "lines"}, t \in Tabs \cup {NoTab} :
         /\ phone' = [phone EXCEPT ![p].at = at, ![p].tab = t]
         /\ at = "lines" => t \in Tabs
  <2>1. CASE open = {}
    BY <2>1 DEF Guests!Find
  <2>2. CASE open # {}
    <3>1. Guests!Min(open) \in Tabs BY <2>2, OldestOf
    <3> QED BY <2>2, <3>1 DEF Guests!Find
  <2> QED BY <2>1, <2>2
<1>3. /\ phone' \in [Phones -> Guests!Request]
      /\ phone'[p] = [at |-> at, round |-> Asked(p), tab |-> t]
      /\ \A q \in Phones : q # p => phone'[q] = phone[q]
  BY <1>1, <1>2 DEF Guests!QrTypeOK, Guests!Request, Asked
<1> USE <1>1, <1>3
<1>4. Guests!QrTypeOK'
  BY DEF Guests!QrTypeOK
<1>5. LinkedOnce'
  BY DEF RoundInv, LinkedOnce, Guests!At, Asked
<1>6. ServedOnce'
  BY DEF RoundInv, ServedOnce, Guests!At, Asked, Serving
<1>7. OnOneBill'
  BY DEF RoundInv, OnOneBill
<1>8. StepByStep'
  BY <1>2 DEF RoundInv, StepByStep, AsFarAs, Asked, Guests!At
<1> QED BY <1>4, <1>5, <1>6, <1>7, <1>8 DEF RoundInv

LEMMA CreateKeeps ==
    ASSUME Guests!QrAssumption, RoundInv, NEW p \in Phones, Guests!Create(p)
    PROVE  RoundInv'
<1> DEFINE t == Guests!Min(Guests!Unused)
<1>1. Guests!QrTypeOK /\ Guests!At(p, "create") /\ UNCHANGED <<round, square>>
  BY DEF RoundInv, Guests!Create
<1>2. t \in Tabs
  BY OldestOf DEF Guests!Create, Guests!Unused
<1>3. tab' = [tab EXCEPT ![t].status = "OPEN"] /\ phone' = [phone EXCEPT ![p].at = "lines", ![p].tab = t]
  BY DEF Guests!Create
<1> HIDE DEF t
<1>4. /\ phone' \in [Phones -> Guests!Request]
      /\ phone'[p] = [at |-> "lines", round |-> Asked(p), tab |-> t]
      /\ \A q \in Phones : q # p => phone'[q] = phone[q]
  BY <1>1, <1>2, <1>3 DEF Guests!QrTypeOK, Guests!Request, Asked
<1>5. /\ tab' \in [Tabs -> Guests!TabRecord]
      /\ \A u \in Tabs : /\ tab'[u].lines = tab[u].lines /\ tab'[u].money = tab[u].money
                         /\ tab'[u].fired = tab[u].fired
  BY <1>1, <1>2, <1>3 DEF Guests!QrTypeOK, Guests!TabRecord
<1> USE <1>1, <1>2, <1>4, <1>5
<1>6. Guests!QrTypeOK'
  BY DEF Guests!QrTypeOK
<1>7. LinkedOnce'
  BY DEF RoundInv, LinkedOnce, Guests!At, Asked
<1>8. ServedOnce'
  BY DEF RoundInv, ServedOnce, Guests!At, Asked, Serving
<1>9. OnOneBill'
  BY DEF RoundInv, OnOneBill
<1>10. StepByStep'
  BY DEF RoundInv, StepByStep, AsFarAs, Asked, Guests!At
<1> QED BY <1>6, <1>7, <1>8, <1>9, <1>10 DEF RoundInv

LEMMA AddLinesKeeps ==
    ASSUME Guests!QrAssumption, RoundInv, NEW p \in Phones, Guests!AddLines(p)
    PROVE  RoundInv'
<1>0. PICK g, t : g = Asked(p) /\ t = phone[p].tab
  OBVIOUS
<1>1. /\ g \in Rounds /\ Guests!QrTypeOK /\ Guests!At(p, "lines") /\ UNCHANGED <<round, square>>
      /\ square[g] = "COMPLETED" /\ round[g].posOrder = Claimed
  BY <1>0 DEF RoundInv, ServedOnce, Serving, Guests!At, Guests!QrTypeOK, Guests!Request, Guests!AddLines, Asked
<1>2. t \in Tabs /\ tab[t].lines[g] = 0 /\ AsFarAs("lines", t, g)
  BY <1>0, <1>1 DEF RoundInv, StepByStep, AsFarAs, Guests!At
<1>3. /\ phone' \in [Phones -> Guests!Request]
      /\ phone'[p] = [at |-> "pay", round |-> g, tab |-> t]
      /\ \A q \in Phones : q # p => phone'[q] = phone[q]
  BY <1>0, <1>1, GoesOn DEF Guests!AddLines
<1>4. tab' = [tab EXCEPT ![t].lines[g] = 1]
  BY <1>0, <1>2, OneMore DEF Guests!AddLines, Asked
<1>5. /\ tab' \in [Tabs -> Guests!TabRecord]
      /\ \A u \in Tabs : tab'[u].money = tab[u].money /\ tab'[u].fired = tab[u].fired
      /\ \A u \in Tabs, h \in Rounds : u # t \/ h # g => tab'[u].lines[h] = tab[u].lines[h]
      /\ tab'[t].lines[g] = 1
  <2>1. /\ tab \in [Tabs -> Guests!TabRecord] /\ tab[t] \in Guests!TabRecord
        /\ tab[t].lines \in [Rounds -> 0..2]
    BY <1>1, <1>2 DEF Guests!QrTypeOK, Guests!TabRecord, Guests!Times
  <2>2. PICK new : new = [tab[t].lines EXCEPT ![g] = 1]
    OBVIOUS
  <2>3. new \in [Rounds -> 0..2] /\ new[g] = 1 /\ \A h \in Rounds : h # g => new[h] = tab[t].lines[h]
    BY <1>1, <2>1, <2>2
  <2>4. tab' = [tab EXCEPT ![t] = [tab[t] EXCEPT !.lines = new]]
    BY <1>4, <2>2
  <2> QED BY <1>2, <2>1, <2>3, <2>4 DEF Guests!TabRecord, Guests!Times
<1>6. /\ \A q \in Phones : Serving(q) /\ q # p => Asked(q) # g
      /\ \A q \in Phones : Asked(q) \in Rounds
      /\ \A u \in Tabs, h \in Rounds :
            tab[u].lines[h] \in Nat /\ tab[u].money[h] \in Nat /\ tab[u].fired[h] \in Nat
  BY <1>0, <1>1 DEF RoundInv, ServedOnce, Serving, Guests!At, Asked, Guests!QrTypeOK, Guests!TabRecord,
              Guests!Times, Guests!Request
<1>7. Claimed \notin Tabs /\ NoTab # Claimed BY DEF Guests!QrAssumption
<1> USE <1>0, <1>1, <1>2, <1>3, <1>5, <1>6, <1>7
<1>8. Guests!QrTypeOK'
  BY DEF Guests!QrTypeOK
<1>9. LinkedOnce'
  BY DEF RoundInv, LinkedOnce, Guests!At, Asked
<1>10. ServedOnce'
  BY DEF RoundInv, ServedOnce, Guests!At, Asked, Serving
<1>11. OnOneBill'
  BY DEF RoundInv, OnOneBill, AsFarAs
<1>12. StepByStep'
  <2>1. AsFarAs("pay", t, g)'
    BY DEF AsFarAs, RoundInv, OnOneBill
  <2>2. ASSUME NEW q \in Phones, q # p PROVE AsFarAs(phone[q].at, phone[q].tab, Asked(q))'
    BY <2>2 DEF RoundInv, StepByStep, AsFarAs, Serving, Asked
  <2> QED BY <2>1, <2>2 DEF StepByStep, Asked, AsFarAs
<1> QED BY <1>8, <1>9, <1>10, <1>11, <1>12 DEF RoundInv

LEMMA AddPaymentKeeps ==
    ASSUME Guests!QrAssumption, RoundInv, NEW p \in Phones, Guests!AddPayment(p)
    PROVE  RoundInv'
<1>0. PICK g, t : g = Asked(p) /\ t = phone[p].tab
  OBVIOUS
<1>1. /\ g \in Rounds /\ Guests!QrTypeOK /\ Guests!At(p, "pay") /\ UNCHANGED <<round, square>>
      /\ square[g] = "COMPLETED" /\ round[g].posOrder = Claimed
  BY <1>0 DEF RoundInv, ServedOnce, Serving, Guests!At, Guests!QrTypeOK, Guests!Request, Guests!AddPayment, Asked
<1>2. t \in Tabs /\ tab[t].money[g] = 0 /\ AsFarAs("pay", t, g)
  BY <1>0, <1>1 DEF RoundInv, StepByStep, AsFarAs, Guests!At
<1>3. /\ phone' \in [Phones -> Guests!Request]
      /\ phone'[p] = [at |-> "fire", round |-> g, tab |-> t]
      /\ \A q \in Phones : q # p => phone'[q] = phone[q]
  BY <1>0, <1>1, GoesOn DEF Guests!AddPayment
<1>4. tab' = [tab EXCEPT ![t].money[g] = 1]
  BY <1>0, <1>2, OneMore DEF Guests!AddPayment, Asked
<1>5. /\ tab' \in [Tabs -> Guests!TabRecord]
      /\ \A u \in Tabs : tab'[u].lines = tab[u].lines /\ tab'[u].fired = tab[u].fired
      /\ \A u \in Tabs, h \in Rounds : u # t \/ h # g => tab'[u].money[h] = tab[u].money[h]
      /\ tab'[t].money[g] = 1
  <2>1. /\ tab \in [Tabs -> Guests!TabRecord] /\ tab[t] \in Guests!TabRecord
        /\ tab[t].money \in [Rounds -> 0..2]
    BY <1>1, <1>2 DEF Guests!QrTypeOK, Guests!TabRecord, Guests!Times
  <2>2. PICK new : new = [tab[t].money EXCEPT ![g] = 1]
    OBVIOUS
  <2>3. new \in [Rounds -> 0..2] /\ new[g] = 1 /\ \A h \in Rounds : h # g => new[h] = tab[t].money[h]
    BY <1>1, <2>1, <2>2
  <2>4. tab' = [tab EXCEPT ![t] = [tab[t] EXCEPT !.money = new]]
    BY <1>4, <2>2
  <2> QED BY <1>2, <2>1, <2>3, <2>4 DEF Guests!TabRecord, Guests!Times
<1>6. /\ \A q \in Phones : Serving(q) /\ q # p => Asked(q) # g
      /\ \A q \in Phones : Asked(q) \in Rounds
      /\ \A u \in Tabs, h \in Rounds :
            tab[u].lines[h] \in Nat /\ tab[u].money[h] \in Nat /\ tab[u].fired[h] \in Nat
  BY <1>0, <1>1 DEF RoundInv, ServedOnce, Serving, Guests!At, Asked, Guests!QrTypeOK, Guests!TabRecord,
              Guests!Times, Guests!Request
<1>7. Claimed \notin Tabs /\ NoTab # Claimed BY DEF Guests!QrAssumption
<1> USE <1>0, <1>1, <1>2, <1>3, <1>5, <1>6, <1>7
<1>8. Guests!QrTypeOK'
  BY DEF Guests!QrTypeOK
<1>9. LinkedOnce'
  BY DEF RoundInv, LinkedOnce, Guests!At, Asked
<1>10. ServedOnce'
  BY DEF RoundInv, ServedOnce, Guests!At, Asked, Serving
<1>11. OnOneBill'
  BY DEF RoundInv, OnOneBill, AsFarAs
<1>12. StepByStep'
  <2>1. AsFarAs("fire", t, g)'
    BY DEF AsFarAs, RoundInv, OnOneBill
  <2>2. ASSUME NEW q \in Phones, q # p PROVE AsFarAs(phone[q].at, phone[q].tab, Asked(q))'
    BY <2>2 DEF RoundInv, StepByStep, AsFarAs, Serving, Asked
  <2> QED BY <2>1, <2>2 DEF StepByStep, Asked, AsFarAs
<1> QED BY <1>8, <1>9, <1>10, <1>11, <1>12 DEF RoundInv

LEMMA FireKeeps ==
    ASSUME Guests!QrAssumption, RoundInv, NEW p \in Phones, Guests!Fire(p)
    PROVE  RoundInv'
<1>0. PICK g, t : g = Asked(p) /\ t = phone[p].tab
  OBVIOUS
<1>1. /\ g \in Rounds /\ Guests!QrTypeOK /\ Guests!At(p, "fire") /\ UNCHANGED <<round, square>>
      /\ square[g] = "COMPLETED" /\ round[g].posOrder = Claimed
  BY <1>0 DEF RoundInv, ServedOnce, Serving, Guests!At, Guests!QrTypeOK, Guests!Request, Guests!Fire, Asked
<1>2. t \in Tabs /\ tab[t].fired[g] = 0 /\ AsFarAs("fire", t, g)
  BY <1>0, <1>1 DEF RoundInv, StepByStep, AsFarAs, Guests!At
<1>3. /\ phone' \in [Phones -> Guests!Request]
      /\ phone'[p] = [at |-> "save", round |-> g, tab |-> t]
      /\ \A q \in Phones : q # p => phone'[q] = phone[q]
  BY <1>0, <1>1, GoesOn DEF Guests!Fire
<1>4. tab' = [tab EXCEPT ![t].fired[g] = 1]
  BY <1>0, <1>2, OneMore DEF Guests!Fire, Asked
<1>5. /\ tab' \in [Tabs -> Guests!TabRecord]
      /\ \A u \in Tabs : tab'[u].lines = tab[u].lines /\ tab'[u].money = tab[u].money
      /\ \A u \in Tabs, h \in Rounds : u # t \/ h # g => tab'[u].fired[h] = tab[u].fired[h]
      /\ tab'[t].fired[g] = 1
  <2>1. /\ tab \in [Tabs -> Guests!TabRecord] /\ tab[t] \in Guests!TabRecord
        /\ tab[t].fired \in [Rounds -> 0..2]
    BY <1>1, <1>2 DEF Guests!QrTypeOK, Guests!TabRecord, Guests!Times
  <2>2. PICK new : new = [tab[t].fired EXCEPT ![g] = 1]
    OBVIOUS
  <2>3. new \in [Rounds -> 0..2] /\ new[g] = 1 /\ \A h \in Rounds : h # g => new[h] = tab[t].fired[h]
    BY <1>1, <2>1, <2>2
  <2>4. tab' = [tab EXCEPT ![t] = [tab[t] EXCEPT !.fired = new]]
    BY <1>4, <2>2
  <2> QED BY <1>2, <2>1, <2>3, <2>4 DEF Guests!TabRecord, Guests!Times
<1>6. /\ \A q \in Phones : Serving(q) /\ q # p => Asked(q) # g
      /\ \A q \in Phones : Asked(q) \in Rounds
      /\ \A u \in Tabs, h \in Rounds :
            tab[u].lines[h] \in Nat /\ tab[u].money[h] \in Nat /\ tab[u].fired[h] \in Nat
  BY <1>0, <1>1 DEF RoundInv, ServedOnce, Serving, Guests!At, Asked, Guests!QrTypeOK, Guests!TabRecord,
              Guests!Times, Guests!Request
<1>7. Claimed \notin Tabs /\ NoTab # Claimed BY DEF Guests!QrAssumption
<1> USE <1>0, <1>1, <1>2, <1>3, <1>5, <1>6, <1>7
<1>8. Guests!QrTypeOK'
  BY DEF Guests!QrTypeOK
<1>9. LinkedOnce'
  BY DEF RoundInv, LinkedOnce, Guests!At, Asked
<1>10. ServedOnce'
  BY DEF RoundInv, ServedOnce, Guests!At, Asked, Serving
<1>11. OnOneBill'
  BY DEF RoundInv, OnOneBill, AsFarAs
<1>12. StepByStep'
  <2>1. AsFarAs("save", t, g)'
    BY DEF AsFarAs, RoundInv, OnOneBill
  <2>2. ASSUME NEW q \in Phones, q # p PROVE AsFarAs(phone[q].at, phone[q].tab, Asked(q))'
    BY <2>2 DEF RoundInv, StepByStep, AsFarAs, Serving, Asked
  <2> QED BY <2>1, <2>2 DEF StepByStep, Asked, AsFarAs
<1> QED BY <1>8, <1>9, <1>10, <1>11, <1>12 DEF RoundInv

LEMMA SaveKeeps ==
    ASSUME Guests!QrAssumption, RoundInv, NEW p \in Phones, Guests!Save(p)
    PROVE  RoundInv'
<1> DEFINE g == Asked(p)
           t == phone[p].tab
<1>1. /\ g \in Rounds /\ Guests!QrTypeOK /\ Guests!At(p, "save") /\ UNCHANGED <<square, tab>>
      /\ square[g] = "COMPLETED" /\ round[g].posOrder = Claimed /\ Guests!Return(p)
  BY DEF RoundInv, ServedOnce, Serving, Guests!At, Guests!QrTypeOK, Guests!Request, Guests!Save, Asked
<1>2. t \in Tabs /\ tab[t].fired[g] = 1
  BY <1>1 DEF RoundInv, StepByStep, AsFarAs, Guests!At
<1>3. /\ phone' \in [Phones -> Guests!Request] /\ phone'[p].at = "idle"
      /\ \A q \in Phones : q # p => phone'[q] = phone[q]
  BY <1>1, IsDone
<1>4. round' = [round EXCEPT ![g].posOrder = t]
  BY DEF Guests!Save, Asked
<1> HIDE DEF g, t
<1>5. /\ round' \in [Rounds -> Guests!RoundRecord]
      /\ \A h \in Rounds : h # g => round'[h] = round[h]
      /\ round'[g].posOrder = t /\ round'[g].status = round[g].status
  BY <1>1, <1>2, <1>4 DEF Guests!QrTypeOK, Guests!RoundRecord
<1>6. /\ \A q \in Phones : Serving(q) /\ q # p => Asked(q) # g
      /\ \A q \in Phones : Asked(q) \in Rounds
  BY <1>1 DEF RoundInv, ServedOnce, Serving, Guests!At, Asked, Guests!QrTypeOK, Guests!Request, g
<1>7. NoTab \notin Tabs BY DEF Guests!QrAssumption
<1> USE <1>1, <1>2, <1>3, <1>5, <1>6, <1>7
<1>8. Guests!QrTypeOK'
  BY DEF Guests!QrTypeOK
<1>9. LinkedOnce'
  BY DEF RoundInv, LinkedOnce, Guests!At, Asked
<1>10. ServedOnce'
  BY DEF RoundInv, ServedOnce, Guests!At, Asked, Serving
<1>11. OnOneBill'
  BY DEF RoundInv, OnOneBill
<1>12. StepByStep'
  BY DEF RoundInv, StepByStep, AsFarAs, Asked
<1> QED BY <1>8, <1>9, <1>10, <1>11, <1>12 DEF RoundInv


LEMMA RoundsStart == Guests!QrAssumption /\ Guests!Init => RoundInv
<1> SUFFICES ASSUME Guests!QrAssumption, Guests!Init PROVE RoundInv
  OBVIOUS
<1>1. Guests!QrTypeOK
  BY DEF Guests!QrAssumption, Guests!Init, Guests!QrTypeOK, Guests!Idle, Guests!Nothing, Guests!RoundRecord,
         Guests!TabRecord, Guests!Request, Guests!Times
<1>2. \A g \in Rounds : /\ round[g].status = "NONE" /\ round[g].posOrder = NoTab /\ square[g] = "none"
                       /\ \A t \in Tabs : tab[t].lines[g] = 0 /\ tab[t].money[g] = 0 /\ tab[t].fired[g] = 0
  BY DEF Guests!Init, Guests!Nothing
<1>3. \A p \in Phones : phone[p].at = "idle"
  BY DEF Guests!Init, Guests!Idle
<1> QED BY <1>1, <1>2, <1>3 DEF RoundInv, LinkedOnce, ServedOnce, OnOneBill, StepByStep, AsFarAs, Serving,
                 Guests!At, Guests!QrAssumption

LEMMA RoundsKeep == Guests!QrAssumption /\ RoundInv /\ [Guests!Next]_Guests!vars => RoundInv'
<1> SUFFICES ASSUME Guests!QrAssumption, RoundInv, [Guests!Next]_Guests!vars PROVE RoundInv'
  OBVIOUS
<1>1. CASE UNCHANGED Guests!vars
  BY <1>1 DEF Guests!vars, RoundInv, LinkedOnce, ServedOnce, OnOneBill, StepByStep, AsFarAs, Serving,
              Guests!At, Guests!QrTypeOK, Asked
<1>2. ASSUME NEW p \in Phones, Guests!Step(p) PROVE RoundInv'
  BY <1>2, LinkKeeps, AskKeeps, ClaimKeeps, FindKeeps, CreateKeeps, AddLinesKeeps, AddPaymentKeeps,
     FireKeeps, SaveKeeps DEF Guests!Step
<1>3. ASSUME NEW p \in Phones, Guests!Crash(p) PROVE RoundInv'
  BY <1>3, CrashKeeps
<1>4. ASSUME NEW p \in Phones, NEW g \in Rounds, Guests!Submit(p, g) \/ Guests!ConfirmPaid(p, g) PROVE RoundInv'
  BY <1>4, SubmitKeeps, ConfirmPaidKeeps
<1>5. ASSUME NEW g \in Rounds, Guests!GuestPays(g) PROVE RoundInv'
  BY <1>5, GuestPaysKeeps
<1>6. ASSUME Guests!StaffOpen PROVE RoundInv'
  BY <1>6, StaffOpenKeeps
<1>7. ASSUME NEW t \in Tabs, Guests!StaffClose(t) PROVE RoundInv'
  BY <1>7, StaffCloseKeeps
<1> QED BY <1>1, <1>2, <1>3, <1>4, <1>5, <1>6, <1>7 DEF Guests!Next

\* One bill with the lines of a round is a sum of one.
LEMMA RoundsAddUp == Guests!QrAssumption /\ RoundInv => Guests!RoundOnce
<1> SUFFICES ASSUME Guests!QrAssumption, RoundInv, NEW g \in Rounds
             PROVE  /\ Guests!Sum([t \in Tabs |-> tab[t].lines[g]])
                           <= (IF square[g] = "COMPLETED" THEN 1 ELSE 0)
                    /\ \A t \in Tabs :
                          tab[t].fired[g] <= tab[t].money[g] /\ tab[t].money[g] <= tab[t].lines[g]
                    /\ round[g].posOrder \in Tabs => tab[round[g].posOrder].fired[g] = 1
  BY DEF Guests!RoundOnce
<1> DEFINE lines == [t \in Tabs |-> tab[t].lines[g]]
           P == {t \in Tabs : lines[t] # 0}
<1>1. \A t \in Tabs : lines[t] \in 0..1
  BY DEF RoundInv, OnOneBill, Guests!QrTypeOK, Guests!TabRecord, Guests!Times
<1>2. IsFiniteSet(Tabs)
  BY DEF Guests!QrAssumption, Guests!IsFiniteSet, IsFiniteSet
<1>3. Guests!Sum(lines) = SumFunctionOnSet(lines, Tabs)
  BY DEF Guests!Sum, Guests!SumFunctionOnSet, Guests!FoldFunctionOnSet, Guests!MapThenFoldSet,
         SumFunctionOnSet, FoldFunctionOnSet, MapThenFoldSet
<1>4. SumFunctionOnSet(lines, P) = SumFunctionOnSet(lines, Tabs)
  <2>1. P \in SUBSET Tabs /\ (\A t \in Tabs : lines[t] \in Int) /\ \A t \in Tabs \ P : lines[t] = 0
    BY <1>1
  <2> HIDE DEF lines, P
  <2> QED BY <1>2, <2>1, SumRelevant
<1>5. CASE P = {}
  <2>1. Guests!Sum(lines) = 0
    BY <1>3, <1>4, <1>5, SumEmpty
  <2> QED BY <2>1 DEF RoundInv, OnOneBill
<1>6. CASE P # {}
  <2>1. PICK t \in P : TRUE BY <1>6
  <2>2. P = {t} /\ square[g] = "COMPLETED" BY <2>1 DEF RoundInv, OnOneBill
  <2>3. SumFunctionOnSet(lines, {} \cup {t}) = lines[t] + SumFunctionOnSet(lines, {})
    BY <1>1, FS_EmptySet, SumAdd
  <2>4. {} \cup {t} = {t} OBVIOUS
  <2>5. Guests!Sum(lines) <= 1
    <3>1. P = {t} /\ lines[t] \in 0..1 BY <1>1, <2>1, <2>2
    <3>2. SumFunctionOnSet(lines, {}) = 0 BY SumEmpty
    <3> HIDE DEF lines, P
    <3> QED BY <1>3, <1>4, <2>3, <2>4, <3>1, <3>2
  <2> QED BY <2>2, <2>5 DEF RoundInv, OnOneBill
<1> QED BY <1>5, <1>6

-----------------------------------------------------------------------------
(* Stock: purchase orders *)

\* OrderRecord, with whatever quantities a person types.
OrderRow ==
    [status : {"NONE", "DRAFT", "SENT", "PARTIALLY_RECEIVED", "RECEIVED", "CANCELLED", "MATCHED"},
     venue : Venues \cup {NoVenue}, ordered : Nat, received : Nat, ledger : Int]

\* Nothing has come on an order that was never sent.
OrdersOK ==
    /\ purchase \in [PurchaseOrders -> OrderRow]
    /\ \A o \in PurchaseOrders : purchase[o].status \in {"NONE", "DRAFT"} => purchase[o].received = 0

PaperInv == OrdersOK /\ Stock!ReceivedOnce

LEMMA Quantities == Stock!Qty \subseteq Nat
BY DEF Stock!Qty

LEMMA StockInitially == Stock!Init => PaperInv
<1> DEFINE none == [status |-> "NONE", venue |-> NoVenue, ordered |-> 0, received |-> 0, ledger |-> 0]
<1>1. none \in OrderRow /\ none.received = 0 /\ none.ledger = 0
  BY DEF OrderRow
<1> QED BY <1>1 DEF Stock!Init, PaperInv, OrdersOK, Stock!ReceivedOnce

LEMMA Untouched == PaperInv /\ UNCHANGED purchase => PaperInv'
BY DEF PaperInv, OrdersOK, Stock!ReceivedOnce

\* One row of an order is written.
LEMMA RowWritten ==
    ASSUME PaperInv, NEW o \in PurchaseOrders, NEW rec \in OrderRow, purchase' = [purchase EXCEPT ![o] = rec],
           rec.ledger = rec.received, rec.status \in {"NONE", "DRAFT"} => rec.received = 0
    PROVE  PaperInv'
BY DEF PaperInv, OrdersOK, Stock!ReceivedOnce

LEMMA OrderKept ==
    ASSUME PaperInv, NEW o \in PurchaseOrders, Stock!OrderStep(o)
    PROVE  PaperInv'
<1>1. /\ purchase[o] \in OrderRow /\ purchase[o].ledger = purchase[o].received
      /\ purchase[o].status \in {"NONE", "DRAFT"} => purchase[o].received = 0
  BY DEF PaperInv, OrdersOK, Stock!ReceivedOnce
<1>2. ASSUME NEW v \in Venues, NEW q \in Stock!Qty, Stock!CreateOrder(o, v, q) PROVE PaperInv'
  <2> DEFINE rec == [purchase[o] EXCEPT !.status = "DRAFT", !.venue = v, !.ordered = q]
  <2>1. rec \in OrderRow /\ rec.ledger = rec.received /\ rec.received = 0
    BY <1>1, <1>2, Quantities DEF Stock!CreateOrder, OrderRow
  <2>2. purchase' = [purchase EXCEPT ![o] = rec]
    BY <1>2 DEF Stock!CreateOrder
  <2> HIDE DEF rec
  <2> QED BY <2>1, <2>2, RowWritten
<1>3. ASSUME NEW q \in Stock!Qty, Stock!EditOrder(o, q) PROVE PaperInv'
  <2> DEFINE rec == [purchase[o] EXCEPT !.ordered = q, !.received = 0]
  <2>1. rec \in OrderRow /\ rec.ledger = rec.received /\ rec.received = 0
    BY <1>1, <1>3, Quantities DEF Stock!EditOrder, OrderRow
  <2>2. purchase' = [purchase EXCEPT ![o] = rec]
    BY <1>3 DEF Stock!EditOrder
  <2> HIDE DEF rec
  <2> QED BY <2>1, <2>2, RowWritten
<1>4. ASSUME NEW s \in {"SENT", "CANCELLED", "MATCHED"}, purchase' = [purchase EXCEPT ![o].status = s] PROVE PaperInv'
  <2> DEFINE rec == [purchase[o] EXCEPT !.status = s]
  <2>1. rec \in OrderRow /\ rec.ledger = rec.received /\ rec.status = s
    BY <1>1 DEF OrderRow
  <2>2. purchase' = [purchase EXCEPT ![o] = rec]
    BY <1>4
  <2> HIDE DEF rec
  <2> QED BY <2>1, <2>2, RowWritten
<1>5. ASSUME NEW q \in Stock!Qty, Stock!Receive(o, q) PROVE PaperInv'
  <2> DEFINE r == purchase[o]
             status == IF q >= r.ordered THEN "RECEIVED"
                       ELSE IF q > 0 THEN "PARTIALLY_RECEIVED" ELSE r.status
             ledger == r.ledger + (q - r.received)
             rec == [r EXCEPT !.status = status, !.received = q, !.ledger = ledger]
  <2>1. q \in Nat /\ r.received \in Nat /\ r.ledger \in Int
    BY <1>1, Quantities DEF OrderRow
  <2>2. /\ status \in {"DRAFT", "SENT", "PARTIALLY_RECEIVED", "RECEIVED"}
        /\ status \in {"NONE", "DRAFT"} => q = 0
    BY <1>1, <1>5, <2>1 DEF Stock!Receive, OrderRow
  <2>3. rec \in OrderRow /\ rec.ledger = rec.received /\ rec.received = q /\ rec.status = status
    <3>1. ledger \in Int /\ ledger = q
      BY <1>1, <2>1
    <3> HIDE DEF status, ledger
    <3> QED BY <1>1, <2>1, <2>2, <3>1 DEF OrderRow
  <2>4. purchase' = [purchase EXCEPT ![o] = rec]
    BY <1>5 DEF Stock!Receive, Stock!Outstanding
  <2> HIDE DEF rec
  <2> QED BY <2>2, <2>3, <2>4, RowWritten
<1> QED BY <1>2, <1>3, <1>4, <1>5 DEF Stock!OrderStep, Stock!SendOrder, Stock!CancelOrder, Stock!MatchOrder

\* Nothing else writes the row of an order.
LEMMA OthersKeep ==
    (\/ \E c \in Counts : Stock!CountStep(c)
     \/ \E d \in Deliveries : Stock!DeliveryStep(d)
     \/ \E v \in Venues, q \in Stock!Qty : Stock!Waste(v, q) \/ \E w \in Venues : Stock!Transfer(v, w, q))
    => UNCHANGED purchase
<1>1. ASSUME NEW c \in Counts, Stock!CountStep(c) PROVE UNCHANGED purchase
  BY <1>1 DEF Stock!CountStep, Stock!CreateCount, Stock!EditCount, Stock!UpdateLine, Stock!AddLine, Stock!RemoveLine, Stock!SubmitCount, Stock!ReviewCount,
              Stock!LockCount, Stock!ReopenCount, Stock!ReopenWithReason, Stock!Becomes, Stock!DeleteCount, Stock!ApplyCount, Stock!CorrectCount, Stock!ReverseCount
<1>2. ASSUME NEW d \in Deliveries, Stock!DeliveryStep(d) PROVE UNCHANGED purchase
  BY <1>2 DEF Stock!DeliveryStep, Stock!CreateDelivery, Stock!EditDelivery, Stock!CompleteDelivery
<1>3. ASSUME NEW v \in Venues, NEW q \in Stock!Qty, Stock!Waste(v, q) \/ \E w \in Venues : Stock!Transfer(v, w, q)
      PROVE  UNCHANGED purchase
  BY <1>3 DEF Stock!Waste, Stock!Transfer
<1> QED BY <1>1, <1>2, <1>3

\* What the receipts of a purchase order put on the shelf is what its lines say
\* was received, after any sequence of receipts, repeats and corrections.
THEOREM ReceiptsAddUp == Stock!Spec => []Stock!ReceivedOnce
<1>1. PaperInv /\ [Stock!Next]_Stock!vars => PaperInv'
  <2> SUFFICES ASSUME PaperInv, [Stock!Next]_Stock!vars PROVE PaperInv'
    OBVIOUS
  <2>1. CASE UNCHANGED Stock!vars
    BY <2>1, Untouched DEF Stock!vars
  <2> QED BY <2>1, OrderKept, OthersKeep, Untouched DEF Stock!Next
<1>2. PaperInv => Stock!ReceivedOnce
  BY DEF PaperInv
<1> QED BY <1>1, <1>2, StockInitially, PTL DEF Stock!Spec

-----------------------------------------------------------------------------
(* Stock: types, figures and counts *)

\* What a venue holds is what its movements and transfers say and what it took
\* over; one that never counted has no history.
Explained ==
    \A v \in Venues :
        IF shelf[v] \in {NoRow, Blank} THEN takenOver[v] = 0 /\ booked[v] = 0 /\ sent[v] = 0
        ELSE shelf[v] = takenOver[v] + booked[v] + sent[v]

FiguresOK ==
    /\ item \in Int
    /\ shelf \in [Venues -> Int \cup {NoRow, Blank}]
    /\ takenOver \in [Venues -> Int]
    /\ booked \in [Venues -> Int]
    /\ sent \in [Venues -> Int]
    /\ Explained

\* The nets of an applied count's lines add up to what the ledger has of it.
Nets(k) ==
    /\ \A i \in k.anchored : k.lines[i] # NoLine
    /\ k.ledger = IF k.applied THEN k.net[1] + k.net[2] ELSE 0

CountsOK == count \in [Counts -> Stock!CountRecord] /\ \A c \in Counts : Nets(count[c])

\* A paper that goods came on names a venue.
PapersOK ==
    /\ delivery \in [Deliveries -> Stock!DeliveryRecord]
    /\ purchase \in [PurchaseOrders -> Stock!OrderRecord]
    /\ \A d \in Deliveries : delivery[d].status # "NONE" => delivery[d].venue \in Venues
    /\ \A o \in PurchaseOrders : purchase[o].status # "NONE" => purchase[o].venue \in Venues
    /\ writes \in 0..MaxWrites

StockInv == FiguresOK /\ CountsOK /\ PapersOK

\* Finiteness, sizes and sums in StockLedger are the usual ones.
LEMMA SameSizes ==
    ASSUME NEW S
    PROVE  /\ Stock!IsFiniteSet(S) <=> IsFiniteSet(S)
           /\ Stock!Cardinality(S) = Cardinality(S)
<1>1. Stock!IsFiniteSet(S) <=> IsFiniteSet(S)
  BY DEF Stock!IsFiniteSet, IsFiniteSet
<1>2. Stock!Cardinality(S) = Cardinality(S)
  BY DEF Stock!Cardinality, Cardinality
<1> QED BY <1>1, <1>2

LEMMA SameSums ==
    ASSUME NEW f, NEW S
    PROVE  Stock!SumFunctionOnSet(f, S) = SumFunctionOnSet(f, S)
BY DEF SumFunctionOnSet, FoldFunctionOnSet, MapThenFoldSet,
       Stock!SumFunctionOnSet, Stock!FoldFunctionOnSet, Stock!MapThenFoldSet

LEMMA Distinct ==
    ASSUME Stock!StockLedgerAssumption
    PROVE  /\ NoRow # Blank /\ NoRow # NoLine /\ Blank # NoLine
           /\ NoRow \notin Int /\ Blank \notin Int /\ NoLine \notin Int
           /\ NoVenue \notin Venues /\ IsFiniteSet(Venues)
<1>1. ASSUME NEW a, NEW b PROVE Cardinality({a, b}) <= 2
  <2>1. Cardinality({a}) = 1 /\ IsFiniteSet({a})
    BY FS_Singleton
  <2>2. CASE a = b
    <3>1. {a, b} = {a}
      BY <2>2
    <3> QED BY <2>1, <3>1
  <2>3. CASE a # b
    <3>1. {a, b} = {a} \cup {b} /\ b \notin {a}
      BY <2>3
    <3>2. Cardinality({a} \cup {b}) = Cardinality({a}) + 1
      BY <2>1, <3>1, FS_AddElement
    <3> QED BY <2>1, <3>1, <3>2
  <2> QED BY <2>2, <2>3
<1>2. Cardinality({NoRow, Blank, NoLine}) = 3
  <2>1. Stock!Cardinality({NoRow, Blank, NoLine}) = 3
    BY DEF Stock!StockLedgerAssumption
  <2> QED BY <2>1, SameSizes
<1>3. ASSUME NEW a, NEW b PROVE {NoRow, Blank, NoLine} # {a, b}
  <2>1. Cardinality({a, b}) <= 2
    BY <1>1
  <2>2. {NoRow, Blank, NoLine} = {a, b} => Cardinality({NoRow, Blank, NoLine}) = Cardinality({a, b})
    OBVIOUS
  <2> QED BY <1>2, <2>1, <2>2
<1>4. NoRow # Blank
  <2>1. NoRow = Blank => {NoRow, Blank, NoLine} = {Blank, NoLine}
    OBVIOUS
  <2> QED BY <1>3, <2>1
<1>5. NoRow # NoLine
  <2>1. NoRow = NoLine => {NoRow, Blank, NoLine} = {NoRow, Blank}
    OBVIOUS
  <2> QED BY <1>3, <2>1
<1>6. Blank # NoLine
  <2>1. Blank = NoLine => {NoRow, Blank, NoLine} = {NoRow, NoLine}
    OBVIOUS
  <2> QED BY <1>3, <2>1
<1>7. IsFiniteSet(Venues)
  <2>1. Stock!IsFiniteSet(Venues)
    BY DEF Stock!StockLedgerAssumption
  <2> QED BY <2>1, SameSizes
<1>8. NoRow \notin Int /\ Blank \notin Int /\ NoLine \notin Int /\ NoVenue \notin Venues
  BY DEF Stock!StockLedgerAssumption
<1> QED BY <1>4, <1>5, <1>6, <1>7, <1>8

-----------------------------------------------------------------------------
(* What moves a figure *)

LEMMA FiguresKept == FiguresOK /\ UNCHANGED Stock!shelfVars => FiguresOK'
BY DEF FiguresOK, Explained, Stock!shelfVars

LEMMA RowAdded ==
    ASSUME Stock!StockLedgerAssumption, FiguresOK, NEW v, shelf' = Stock!WithRow(v), UNCHANGED <<item, takenOver, booked, sent>>
    PROVE  FiguresOK'
BY Distinct DEF FiguresOK, Explained, Stock!WithRow

LEMMA FigureIs ==
    ASSUME Stock!StockLedgerAssumption, FiguresOK, NEW v \in Venues
    PROVE  Stock!Figure(v) \in Int /\ Stock!Figure(v) = takenOver[v] + booked[v] + sent[v]
BY DEF FiguresOK, Explained, Stock!Figure

\* The group's figure becomes a number again.
LEMMA SumIsNumber ==
    ASSUME Stock!StockLedgerAssumption, NEW figures \in [Venues -> Int \cup {NoRow, Blank}]
    PROVE  Stock!SumOfVenues(figures) \in Int
<1> DEFINE counted == {v \in Venues : figures[v] \notin {NoRow, Blank}}
<1>1. IsFiniteSet(counted)
  BY Distinct, FS_Subset
<1>2. \A v \in counted : figures[v] \in Int
  OBVIOUS
<1> HIDE DEF counted
<1>3. SumFunctionOnSet(figures, counted) \in Int
  BY <1>1, <1>2, SumType
<1> QED BY <1>3, SameSums DEF Stock!SumOfVenues, counted

LEMMA Balanced ==
    ASSUME Stock!StockLedgerAssumption, FiguresOK, NEW v \in Venues \cup {NoVenue}, NEW after \in Int, Stock!Balance(v, after),
           UNCHANGED <<takenOver, sent>>
    PROVE  FiguresOK'
<1>1. CASE v = NoVenue
  BY <1>1 DEF FiguresOK, Explained, Stock!Balance
<1>2. CASE v # NoVenue
  <2> DEFINE figures == [shelf EXCEPT ![v] = after]
             change == after - Stock!Before(v)
  <2>1. v \in Venues /\ Stock!Before(v) = Stock!Figure(v)
    BY <1>2 DEF Stock!Before
  <2>2. figures \in [Venues -> Int \cup {NoRow, Blank}]
    BY DEF FiguresOK
  <2>3. shelf' = figures /\ item' = Stock!SumOfVenues(figures)
    BY <1>2 DEF Stock!Balance
  <2>4. item' \in Int
    <3> HIDE DEF figures
    <3> QED BY <2>2, <2>3, SumIsNumber
  <2>5. booked' = [booked EXCEPT ![v] = booked[v] + change]
    BY <1>2, <2>1 DEF Stock!Balance, FiguresOK
  <2>6. change \in Int /\ after = takenOver[v] + (booked[v] + change) + sent[v]
    BY <2>1, FigureIs DEF FiguresOK
  <2> HIDE DEF change
  <2>7. booked' \in [Venues -> Int]
    BY <2>1, <2>5, <2>6 DEF FiguresOK
  <2>8. Explained'
    <3>1. after \notin {NoRow, Blank}
      BY Distinct
    <3> QED BY <2>1, <2>3, <2>5, <2>6, <3>1 DEF FiguresOK, Explained
  <2> QED BY <2>2, <2>3, <2>4, <2>7, <2>8 DEF FiguresOK
<1> QED BY <1>1, <1>2

LEMMA Adjusted ==
    ASSUME Stock!StockLedgerAssumption, FiguresOK, NEW v \in Venues, NEW delta \in Int, Stock!Adjust(v, delta)
    PROVE  FiguresOK'
<1> DEFINE before == Stock!BeforeAdjusting(v)
           start == IF shelf[v] = NoRow THEN item ELSE takenOver[v]
<1>1. before \in Int /\ start \in Int /\ before = start + booked[v] + sent[v]
  BY FigureIs DEF FiguresOK, Explained, Stock!BeforeAdjusting
<1>2. /\ shelf' = [shelf EXCEPT ![v] = before + delta]
      /\ booked' = [booked EXCEPT ![v] = booked[v] + delta]
      /\ takenOver' = [takenOver EXCEPT ![v] = start]
      /\ UNCHANGED <<item, sent>>
  BY DEF Stock!Adjust, FiguresOK
<1> HIDE DEF before, start
<1>3. /\ shelf' \in [Venues -> Int \cup {NoRow, Blank}]
      /\ booked' \in [Venues -> Int] /\ takenOver' \in [Venues -> Int]
  BY <1>1, <1>2 DEF FiguresOK
<1>4. Explained'
  <2>1. before + delta \notin {NoRow, Blank}
    BY <1>1, Distinct
  <2>2. before + delta = start + (booked[v] + delta) + sent[v]
    BY <1>1 DEF FiguresOK
  <2> QED BY <1>2, <2>1, <2>2 DEF FiguresOK, Explained
<1> QED BY <1>2, <1>3, <1>4 DEF FiguresOK

LEMMA Transferred ==
    ASSUME Stock!StockLedgerAssumption, FiguresOK, NEW v \in Venues, NEW w \in Venues, NEW q \in Int, Stock!Transfer(v, w, q)
    PROVE  FiguresOK'
<1> DEFINE start(u) == IF shelf[u] \in {NoRow, Blank} THEN item ELSE takenOver[u]
<1>1. \A u \in Venues : /\ Stock!Current(u) \in Int /\ start(u) \in Int
                        /\ Stock!Current(u) = start(u) + booked[u] + sent[u]
  BY DEF FiguresOK, Explained, Stock!Current
<1>2. /\ v # w
      /\ shelf' = [shelf EXCEPT ![v] = Stock!Current(v) - q, ![w] = Stock!Current(w) + q]
      /\ sent' = [sent EXCEPT ![v] = sent[v] - q, ![w] = sent[w] + q]
      /\ takenOver' = [u \in Venues |-> IF u \in {v, w} THEN start(u) ELSE takenOver[u]]
      /\ UNCHANGED <<item, booked>>
  BY DEF Stock!Transfer, FiguresOK
<1> DEFINE a == Stock!Current(v)
           b == Stock!Current(w)
           sa == start(v)
           sb == start(w)
<1>3. /\ a \in Int /\ sa \in Int /\ a = sa + booked[v] + sent[v]
      /\ b \in Int /\ sb \in Int /\ b = sb + booked[w] + sent[w]
  BY <1>1
<1>4. /\ shelf' = [shelf EXCEPT ![v] = a - q, ![w] = b + q]
      /\ takenOver' \in [Venues -> Int] /\ takenOver'[v] = sa /\ takenOver'[w] = sb
      /\ \A u \in Venues \ {v, w} : takenOver'[u] = takenOver[u]
  BY <1>1, <1>2 DEF FiguresOK
<1> HIDE DEF a, b, sa, sb, start
<1>5. /\ shelf' \in [Venues -> Int \cup {NoRow, Blank}] /\ sent' \in [Venues -> Int]
      /\ shelf'[v] = a - q /\ shelf'[w] = b + q /\ sent'[v] = sent[v] - q /\ sent'[w] = sent[w] + q
      /\ \A u \in Venues \ {v, w} : shelf'[u] = shelf[u] /\ sent'[u] = sent[u]
  BY <1>2, <1>3, <1>4 DEF FiguresOK
<1>6. Explained'
  <2>1. a - q \notin {NoRow, Blank} /\ b + q \notin {NoRow, Blank}
    BY <1>3, Distinct
  <2>2. a - q = sa + booked[v] + (sent[v] - q) /\ b + q = sb + booked[w] + (sent[w] + q)
    BY <1>3 DEF FiguresOK
  <2> QED BY <1>2, <1>4, <1>5, <2>1, <2>2 DEF FiguresOK, Explained
<1> QED BY <1>2, <1>4, <1>5, <1>6 DEF FiguresOK

-----------------------------------------------------------------------------
(* Counts *)

LEMMA CountWritten ==
    ASSUME CountsOK, NEW c \in Counts, NEW rec \in Stock!CountRecord, Nets(rec),
           count' = [count EXCEPT ![c] = rec]
    PROVE  CountsOK'
BY DEF CountsOK

LEMMA NoCountIs ==
    ASSUME NEW v \in Venues \cup {NoVenue}
    PROVE  Stock!NoCount(v) \in Stock!CountRecord /\ Stock!NoCount(v).ledger = 0 /\ ~Stock!NoCount(v).applied
           /\ Stock!NoCount(v).anchored = {}
BY DEF Stock!NoCount, Stock!CountRecord, Stock!Lines, Stock!Filled

\* The sheet or the status of a count is written, and no line lost that the ledger
\* points at.
LEMMA SheetWritten ==
    ASSUME CountsOK, NEW c \in Counts, NEW rec \in Stock!CountRecord,
           \A i \in rec.anchored : rec.lines[i] # NoLine,
           rec.ledger = count[c].ledger, rec.applied = count[c].applied, rec.net = count[c].net,
           count' = [count EXCEPT ![c] = rec]
    PROVE  CountsOK'
<1>1. Nets(count[c])
  BY DEF CountsOK
<1>2. Nets(rec)
  BY <1>1 DEF Nets
<1> QED BY <1>2, CountWritten

\* What the lines of a count move one after the other is what the last one leaves
\* less what there was.
LEMMA AdjustmentsAddUp ==
    ASSUME Stock!StockLedgerAssumption, FiguresOK, CountsOK, NEW c \in Counts
    PROVE  LET lines == count[c].lines
               done == Stock!Counted(lines)
               before == Stock!Before(count[c].venue)
               after == IF done = {} THEN before ELSE lines[Stock!Max(done)]
           IN  /\ before \in Int /\ after \in Int /\ done \subseteq Stock!Lines
               /\ \A i \in Stock!Lines : Stock!AdjustmentOf(c, i) \in Int
               /\ Stock!AdjustmentOf(c, 1) + Stock!AdjustmentOf(c, 2) = after - before
<1> DEFINE lines == count[c].lines
           v == count[c].venue
           done == Stock!Counted(lines)
           before == Stock!Before(v)
           earlier(i) == {j \in done : j < i}
<1>1. lines \in [Stock!Lines -> Stock!Filled] /\ v \in Venues \cup {NoVenue}
  BY DEF CountsOK, Stock!CountRecord
<1>2. before \in Int
  BY <1>1, FigureIs DEF Stock!Before, FiguresOK
<1>3. done \subseteq {1, 2} /\ Stock!Lines = {1, 2}
  BY DEF Stock!Counted, Stock!Lines
<1>4. \A i \in done : lines[i] \in Int
  BY <1>1 DEF Stock!Counted, Stock!Filled, Stock!Countable
<1>5. \A i : Stock!AdjustmentOf(c, i) = IF i \notin done THEN 0
                                  ELSE lines[i] - IF earlier(i) = {} THEN before ELSE lines[Stock!Max(earlier(i))]
  BY DEF Stock!AdjustmentOf
<1> HIDE DEF done, before, lines
<1>6. earlier(1) = {} /\ (1 \in done => earlier(2) = {1}) /\ (1 \notin done => earlier(2) = {})
  <2>1. \A j \in done : ~(j < 1) /\ (j < 2 <=> j = 1)
    BY <1>3
  <2> QED BY <2>1
<1>7. Stock!Max({1}) = 1 /\ Stock!Max({2}) = 2 /\ Stock!Max({1, 2}) = 2
  BY DEF Stock!Max
<1> DEFINE a1 == Stock!AdjustmentOf(c, 1)
           a2 == Stock!AdjustmentOf(c, 2)
<1>8. a1 = IF 1 \notin done THEN 0 ELSE lines[1] - before
  BY <1>5, <1>6
<1>9. a2 = IF 2 \notin done THEN 0 ELSE lines[2] - IF 1 \in done THEN lines[1] ELSE before
  <2>1. CASE 1 \in done
    BY <1>5, <1>6, <1>7, <2>1
  <2>2. CASE 1 \notin done
    BY <1>5, <1>6, <2>2
  <2> QED BY <2>1, <2>2
<1>10. a1 \in Int /\ a2 \in Int
  BY <1>2, <1>4, <1>8, <1>9
<1> DEFINE after == IF done = {} THEN before ELSE lines[Stock!Max(done)]
<1>11. after \in Int /\ a1 + a2 = after - before
  <2>1. CASE done = {}
    BY <1>2, <1>8, <1>9, <2>1
  <2>2. CASE done = {1}
    BY <1>2, <1>4, <1>7, <1>8, <1>9, <2>2
  <2>3. CASE done = {2}
    BY <1>2, <1>4, <1>7, <1>8, <1>9, <2>3
  <2>4. CASE done = {1, 2}
    BY <1>2, <1>4, <1>7, <1>8, <1>9, <2>4
  <2> QED BY <1>3, <2>1, <2>2, <2>3, <2>4
<1>12. \A i \in Stock!Lines : Stock!AdjustmentOf(c, i) \in Int
  BY <1>3, <1>10
<1> QED BY <1>2, <1>3, <1>11, <1>12 DEF done, before, lines

-----------------------------------------------------------------------------
(* The steps of a count *)

LEMMA RowsAdded ==
    ASSUME Stock!StockLedgerAssumption, FiguresOK, NEW v, NEW lines, shelf' = Stock!RowsFor(v, lines),
           UNCHANGED <<item, takenOver, booked, sent>>
    PROVE  FiguresOK'
<1>1. CASE shelf' = shelf
  BY <1>1, FiguresKept DEF Stock!shelfVars
<1> QED BY <1>1, RowAdded DEF Stock!RowsFor

LEMMA SheetSteps ==
    ASSUME Stock!StockLedgerAssumption, FiguresOK, CountsOK, NEW c \in Counts,
           NEW lines \in Sheets, NEW status \in Stock!CountStatuses, NEW v \in Venues \cup {NoVenue},
           Stock!CreateCount(c, v, lines, status) \/ Stock!EditCount(c, v, lines, status)
    PROVE  FiguresOK' /\ CountsOK'
<1>1. lines \in [Stock!Lines -> Stock!Filled]
  BY DEF Stock!StockLedgerAssumption
<1>2. count[c] \in Stock!CountRecord /\ Nets(count[c])
  BY DEF CountsOK
<1>3. CASE Stock!CreateCount(c, v, lines, status)
  <2> DEFINE none == Stock!NoCount(v)
             rec == [none EXCEPT !.status = status, !.lines = lines]
  <2>1. /\ rec \in Stock!CountRecord /\ rec.anchored = {} /\ rec.ledger = 0 /\ ~rec.applied
    <3>1. none \in Stock!CountRecord /\ none.ledger = 0 /\ ~none.applied /\ none.anchored = {}
      BY NoCountIs
    <3> HIDE DEF none
    <3> QED BY <1>1, <3>1 DEF Stock!CountRecord
  <2>2. count' = [count EXCEPT ![c] = rec]
    BY <1>3 DEF Stock!CreateCount
  <2> HIDE DEF rec
  <2>3. Nets(rec)
    BY <2>1 DEF Nets
  <2> QED BY <1>3, <2>1, <2>2, <2>3, CountWritten, RowsAdded DEF Stock!CreateCount
<1>4. CASE Stock!EditCount(c, v, lines, status)
  <2> DEFINE k == count[c]
             left == {i \in k.anchored : lines[i] # NoLine}
             rec == [k EXCEPT !.venue = v, !.lines = lines, !.status = status, !.anchored = left]
  <2>1. left \subseteq Stock!Lines
    BY <1>2 DEF Stock!CountRecord
  <2>2. count' = [count EXCEPT ![c] = rec]
    BY <1>4 DEF Stock!EditCount
  <2>3. \A i \in left : lines[i] # NoLine
    OBVIOUS
  <2> HIDE DEF left
  <2>4. rec \in Stock!CountRecord /\ rec.lines = lines /\ rec.anchored = left
        /\ rec.ledger = k.ledger /\ rec.applied = k.applied /\ rec.net = k.net
    BY <1>1, <1>2, <2>1 DEF Stock!CountRecord
  <2> HIDE DEF rec
  <2> QED BY <1>4, <2>2, <2>3, <2>4, SheetWritten, RowsAdded DEF Stock!EditCount
<1> QED BY <1>3, <1>4

LEMMA LineSteps ==
    ASSUME Stock!StockLedgerAssumption, FiguresOK, CountsOK, NEW c \in Counts, NEW i \in Stock!Lines,
           \/ \E q \in Stock!Countable \cup {Blank} : Stock!UpdateLine(c, i, q)
           \/ Stock!AddLine(c) \/ Stock!RemoveLine(c, i)
    PROVE  FiguresOK' /\ CountsOK'
<1> DEFINE k == count[c]
<1>1. k \in Stock!CountRecord /\ Nets(k) /\ k.lines \in [Stock!Lines -> Stock!Filled] /\ k.anchored \subseteq Stock!Lines
  BY DEF CountsOK, Stock!CountRecord
<1>2. ASSUME NEW j \in Stock!Lines, NEW q \in Stock!Filled, q # NoLine \/ j \notin k.anchored,
             count' = [count EXCEPT ![c].lines[j] = q]
      PROVE  CountsOK'
  <2> DEFINE lines == [k.lines EXCEPT ![j] = q]
             rec == [k EXCEPT !.lines = lines]
  <2>1. lines \in [Stock!Lines -> Stock!Filled]
    BY <1>1
  <2>2. \A a \in k.anchored : lines[a] # NoLine
    BY <1>1, <1>2 DEF Nets
  <2>3. count' = [count EXCEPT ![c] = rec]
    BY <1>2
  <2> HIDE DEF lines
  <2>4. rec \in Stock!CountRecord /\ rec.lines = lines /\ rec.anchored = k.anchored
        /\ rec.ledger = k.ledger /\ rec.applied = k.applied /\ rec.net = k.net
    BY <1>1, <2>1 DEF Stock!CountRecord
  <2> HIDE DEF rec
  <2> QED BY <2>2, <2>3, <2>4, SheetWritten
<1>3. ASSUME NEW q \in Stock!Countable \cup {Blank}, Stock!UpdateLine(c, i, q) PROVE FiguresOK' /\ CountsOK'
  <2>1. q \in Stock!Filled /\ q # NoLine
    BY Distinct DEF Stock!Filled, Stock!Countable
  <2> QED BY <1>2, <1>3, <2>1, FiguresKept DEF Stock!UpdateLine
<1>4. CASE Stock!AddLine(c)
  <2>1. Blank \in Stock!Filled /\ Blank # NoLine /\ 1 \in Stock!Lines
    BY Distinct DEF Stock!Filled, Stock!Lines
  <2> QED BY <1>2, <1>4, <2>1, RowAdded DEF Stock!AddLine
<1>5. CASE Stock!RemoveLine(c, i)
  BY <1>2, <1>5, FiguresKept DEF Stock!RemoveLine, Stock!Filled
<1> QED BY <1>3, <1>4, <1>5

LEMMA StatusSteps ==
    ASSUME Stock!StockLedgerAssumption, FiguresOK, CountsOK, NEW c \in Counts,
           \/ Stock!SubmitCount(c) \/ Stock!ReviewCount(c) \/ Stock!LockCount(c) \/ Stock!ReopenCount(c)
           \/ Stock!ReopenWithReason(c) \/ Stock!DeleteCount(c)
    PROVE  FiguresOK' /\ CountsOK'
<1> DEFINE k == count[c]
<1>1. k \in Stock!CountRecord /\ Nets(k) /\ k.lines \in [Stock!Lines -> Stock!Filled] /\ k.anchored \subseteq Stock!Lines
  BY DEF CountsOK, Stock!CountRecord
<1>2. FiguresOK'
  BY FiguresKept DEF Stock!SubmitCount, Stock!ReviewCount, Stock!LockCount, Stock!ReopenCount, Stock!ReopenWithReason, Stock!DeleteCount, Stock!Becomes
<1>3. ASSUME NEW s \in Stock!CountStatuses, count' = [count EXCEPT ![c].status = s] PROVE CountsOK'
  <2> DEFINE rec == [k EXCEPT !.status = s]
  <2>1. rec \in Stock!CountRecord /\ rec.lines = k.lines /\ rec.anchored = k.anchored
        /\ rec.ledger = k.ledger /\ rec.applied = k.applied /\ rec.net = k.net
    BY <1>1 DEF Stock!CountRecord
  <2>2. count' = [count EXCEPT ![c] = rec]
    BY <1>3
  <2>3. \A a \in k.anchored : k.lines[a] # NoLine
    BY <1>1 DEF Nets
  <2> HIDE DEF rec
  <2> QED BY <2>1, <2>2, <2>3, SheetWritten
<1>4. CASE Stock!SubmitCount(c)
  <2> DEFINE lines == [i \in Stock!Lines |-> IF k.lines[i] = Blank THEN 0 ELSE k.lines[i]]
             rec == [k EXCEPT !.status = "SUBMITTED", !.lines = lines]
  <2>1. 0 \in Stock!Filled /\ 0 # NoLine
    BY Distinct DEF Stock!Filled, Stock!Countable, Stock!StockLedgerAssumption
  <2>2. lines \in [Stock!Lines -> Stock!Filled]
    BY <1>1, <2>1
  <2>3. \A a \in k.anchored : lines[a] # NoLine
    BY <1>1, <2>1 DEF Nets
  <2>4. count' = [count EXCEPT ![c] = rec]
    BY <1>4 DEF Stock!SubmitCount
  <2> HIDE DEF lines
  <2>5. rec \in Stock!CountRecord /\ rec.lines = lines /\ rec.anchored = k.anchored
        /\ rec.ledger = k.ledger /\ rec.applied = k.applied /\ rec.net = k.net
    BY <1>1, <2>2 DEF Stock!CountRecord, Stock!CountStatuses
  <2> HIDE DEF rec
  <2> QED BY <1>2, <2>3, <2>4, <2>5, SheetWritten
<1>5. CASE Stock!DeleteCount(c)
  <2> DEFINE rec == Stock!NoCount(NoVenue)
  <2>1. rec \in Stock!CountRecord /\ rec.ledger = 0 /\ ~rec.applied /\ rec.anchored = {}
    BY NoCountIs
  <2>2. count' = [count EXCEPT ![c] = rec]
    BY <1>5 DEF Stock!DeleteCount
  <2> HIDE DEF rec
  <2>3. Nets(rec)
    BY <2>1 DEF Nets
  <2> QED BY <1>2, <2>1, <2>2, <2>3, CountWritten
<1>6. CASE Stock!ReviewCount(c) \/ Stock!LockCount(c) \/ Stock!ReopenCount(c) \/ Stock!ReopenWithReason(c)
  BY <1>2, <1>3, <1>6 DEF Stock!ReviewCount, Stock!LockCount, Stock!ReopenCount, Stock!ReopenWithReason, Stock!Becomes, Stock!CountStatuses
<1> QED BY <1>4, <1>5, <1>6

LEMMA ApplyStep ==
    ASSUME Stock!StockLedgerAssumption, FiguresOK, CountsOK, NEW c \in Counts, Stock!ApplyCount(c)
    PROVE  FiguresOK' /\ CountsOK'
<1> DEFINE k == count[c]
           done == Stock!Counted(k.lines)
           before == Stock!Before(k.venue)
           after == IF done = {} THEN before ELSE k.lines[Stock!Max(done)]
           net == [i \in Stock!Lines |-> Stock!AdjustmentOf(c, i)]
           anchored == k.anchored \cup done
           ledger == IF done = {} THEN k.ledger ELSE k.ledger + after - before
           rec == [k EXCEPT !.status = "REVIEWED", !.applied = TRUE, !.net = net, !.anchored = anchored,
                            !.ledger = ledger]
<1>1. k \in Stock!CountRecord /\ Nets(k) /\ k.anchored \subseteq Stock!Lines /\ k.venue \in Venues \cup {NoVenue}
  BY DEF CountsOK, Stock!CountRecord
<1>2. /\ before \in Int /\ after \in Int /\ done \subseteq Stock!Lines
      /\ \A i \in Stock!Lines : Stock!AdjustmentOf(c, i) \in Int
      /\ Stock!AdjustmentOf(c, 1) + Stock!AdjustmentOf(c, 2) = after - before
  BY AdjustmentsAddUp
<1>3. count' = [count EXCEPT ![c] = rec] /\ k.ledger = 0
  BY <1>1 DEF Stock!ApplyCount, Nets
<1>4. net \in [Stock!Lines -> Int] /\ net[1] + net[2] = after - before
  BY <1>2 DEF Stock!Lines
<1>5. anchored \subseteq Stock!Lines /\ \A i \in anchored : k.lines[i] # NoLine
  BY <1>1, <1>2 DEF Nets, Stock!Counted
<1>6. ledger \in Int /\ ledger = after - before
  <2>1. done = {} => after = before
    OBVIOUS
  <2> HIDE DEF after, before
  <2> QED BY <1>2, <1>3, <2>1
<1>7. /\ IF done = {} THEN UNCHANGED <<item, shelf, booked>> ELSE Stock!Balance(k.venue, after)
      /\ UNCHANGED <<takenOver, sent>>
  BY DEF Stock!ApplyCount
<1> HIDE DEF after, net, anchored, ledger, before
<1>8. FiguresOK'
  BY <1>1, <1>2, <1>7, Balanced, FiguresKept DEF Stock!shelfVars
<1>9. rec \in Stock!CountRecord /\ rec.lines = k.lines /\ rec.anchored = anchored /\ rec.applied
      /\ rec.ledger = ledger /\ rec.net = net
  BY <1>1, <1>4, <1>5, <1>6 DEF Stock!CountRecord, Stock!CountStatuses
<1> HIDE DEF rec
<1>10. Nets(rec)
  BY <1>4, <1>5, <1>6, <1>9 DEF Nets
<1> QED BY <1>3, <1>8, <1>9, <1>10, CountWritten

LEMMA CorrectStep ==
    ASSUME Stock!StockLedgerAssumption, FiguresOK, CountsOK, NEW c \in Counts, NEW i \in Stock!Lines, NEW after \in Stock!Countable,
           Stock!CorrectCount(c, i, after)
    PROVE  FiguresOK' /\ CountsOK'
<1> DEFINE k == count[c]
           delta == after - Stock!Before(k.venue)
           net == [k.net EXCEPT ![i] = k.net[i] + delta]
           anchored == k.anchored \cup {i}
           ledger == k.ledger + delta
           rec == [k EXCEPT !.net = net, !.ledger = ledger, !.anchored = anchored]
<1>1. /\ k \in Stock!CountRecord /\ Nets(k) /\ k.anchored \subseteq Stock!Lines /\ k.venue \in Venues \cup {NoVenue}
      /\ k.net \in [Stock!Lines -> Int] /\ k.ledger \in Int
  BY DEF CountsOK, Stock!CountRecord
<1>2. k.applied /\ k.lines[i] # NoLine /\ Stock!Balance(k.venue, after) /\ UNCHANGED <<takenOver, sent>>
  BY DEF Stock!CorrectCount
<1>3. count' = [count EXCEPT ![c] = rec]
  BY DEF Stock!CorrectCount
<1>4. after \in Int /\ Stock!Before(k.venue) \in Int
  BY <1>1, FigureIs DEF Stock!Before, FiguresOK, Stock!Countable
<1>5. delta \in Int
  BY <1>4
<1> HIDE DEF delta
<1>6. net \in [Stock!Lines -> Int] /\ net[1] + net[2] = k.net[1] + k.net[2] + delta
  BY <1>1, <1>5 DEF Stock!Lines
<1>7. ledger \in Int /\ ledger = net[1] + net[2]
  BY <1>1, <1>2, <1>5, <1>6 DEF Nets
<1>8. anchored \subseteq Stock!Lines /\ \A j \in anchored : k.lines[j] # NoLine
  BY <1>1, <1>2 DEF Nets
<1> HIDE DEF net, anchored, ledger
<1>9. FiguresOK'
  BY <1>1, <1>2, <1>4, Balanced
<1>10. rec \in Stock!CountRecord /\ rec.lines = k.lines /\ rec.anchored = anchored /\ rec.applied
       /\ rec.ledger = ledger /\ rec.net = net
  BY <1>1, <1>2, <1>6, <1>7, <1>8 DEF Stock!CountRecord
<1> HIDE DEF rec
<1>11. Nets(rec)
  BY <1>7, <1>8, <1>10 DEF Nets
<1> QED BY <1>3, <1>9, <1>10, <1>11, CountWritten

LEMMA ReverseStep ==
    ASSUME Stock!StockLedgerAssumption, FiguresOK, CountsOK, NEW c \in Counts, Stock!ReverseCount(c)
    PROVE  FiguresOK' /\ CountsOK'
<1> DEFINE k == count[c]
           back == Stock!NetOf(c)
           after == Stock!Before(k.venue) - back
           net == [i \in Stock!Lines |-> 0]
           ledger == k.ledger - back
           rec == [k EXCEPT !.status = "IN_PROGRESS", !.applied = FALSE, !.ledger = ledger, !.net = net]
<1>1. /\ k \in Stock!CountRecord /\ Nets(k) /\ k.venue \in Venues \cup {NoVenue}
      /\ k.net \in [Stock!Lines -> Int] /\ k.ledger \in Int
  BY DEF CountsOK, Stock!CountRecord
<1>2. k.applied /\ Stock!Balance(k.venue, after) /\ UNCHANGED <<takenOver, sent>>
  BY DEF Stock!ReverseCount
<1>3. count' = [count EXCEPT ![c] = rec]
  BY DEF Stock!ReverseCount
<1>4. back \in Int /\ ledger = 0
  BY <1>1, <1>2 DEF Stock!NetOf, Nets, Stock!Lines
<1>5. after \in Int
  <2>1. Stock!Before(k.venue) \in Int
    BY <1>1, FigureIs DEF Stock!Before, FiguresOK
  <2> HIDE DEF back
  <2> QED BY <1>4, <2>1
<1>6. net \in [Stock!Lines -> Int] /\ ledger \in Int
  BY <1>4
<1> HIDE DEF after, net, ledger
<1>7. FiguresOK'
  BY <1>1, <1>2, <1>5, Balanced
<1>8. rec \in Stock!CountRecord /\ rec.lines = k.lines /\ rec.anchored = k.anchored /\ ~rec.applied
      /\ rec.ledger = ledger
  BY <1>1, <1>6 DEF Stock!CountRecord, Stock!CountStatuses
<1> HIDE DEF rec
<1>9. Nets(rec)
  BY <1>1, <1>4, <1>8 DEF Nets
<1> QED BY <1>3, <1>7, <1>8, <1>9, CountWritten

LEMMA CountKept ==
    ASSUME Stock!StockLedgerAssumption, StockInv, NEW c \in Counts, Stock!CountStep(c)
    PROVE  StockInv'
<1>1. FiguresOK' /\ CountsOK'
  BY SheetSteps, LineSteps, StatusSteps, ApplyStep, CorrectStep, ReverseStep DEF StockInv, Stock!CountStep, Stock!Lines
<1>2. UNCHANGED <<delivery, purchase>> /\ (UNCHANGED writes \/ Stock!Write)
  BY DEF Stock!CountStep, Stock!CreateCount, Stock!EditCount, Stock!UpdateLine, Stock!AddLine, Stock!RemoveLine, Stock!SubmitCount, Stock!ReviewCount,
         Stock!LockCount, Stock!ReopenCount, Stock!ReopenWithReason, Stock!Becomes, Stock!DeleteCount, Stock!ApplyCount, Stock!CorrectCount, Stock!ReverseCount
<1>3. PapersOK'
  BY <1>2 DEF StockInv, PapersOK, Stock!Write, Stock!StockLedgerAssumption
<1> QED BY <1>1, <1>3 DEF StockInv

-----------------------------------------------------------------------------
(* The steps of the other papers *)

LEMMA DeliveryWritten ==
    ASSUME PapersOK, NEW d \in Deliveries, NEW rec \in Stock!DeliveryRecord,
           rec.status # "NONE" => rec.venue \in Venues,
           delivery' = [delivery EXCEPT ![d] = rec], UNCHANGED purchase, writes' \in 0..MaxWrites
    PROVE  PapersOK'
BY DEF PapersOK

LEMMA OrderWritten ==
    ASSUME PapersOK, NEW o \in PurchaseOrders, NEW rec \in Stock!OrderRecord,
           rec.status # "NONE" => rec.venue \in Venues,
           purchase' = [purchase EXCEPT ![o] = rec], UNCHANGED delivery, writes' \in 0..MaxWrites
    PROVE  PapersOK'
BY DEF PapersOK

LEMMA WriteKeeps == ASSUME Stock!StockLedgerAssumption, PapersOK, Stock!Write PROVE writes' \in 0..MaxWrites
BY DEF PapersOK, Stock!Write, Stock!StockLedgerAssumption

LEMMA DeliveryKept ==
    ASSUME Stock!StockLedgerAssumption, StockInv, NEW d \in Deliveries, Stock!DeliveryStep(d)
    PROVE  StockInv'
<1> DEFINE k == delivery[d]
<1>1. /\ k \in Stock!DeliveryRecord /\ (k.status # "NONE" => k.venue \in Venues)
      /\ PapersOK /\ FiguresOK /\ CountsOK /\ k.received \in Stock!Qty
  BY DEF StockInv, PapersOK, Stock!DeliveryRecord
<1>2. UNCHANGED <<count, purchase>>
  BY DEF Stock!DeliveryStep, Stock!CreateDelivery, Stock!EditDelivery, Stock!CompleteDelivery
<1>3. CountsOK'
  BY <1>1, <1>2 DEF CountsOK
<1>4. ASSUME NEW v \in Venues, NEW q \in Stock!Qty, NEW bad \in BOOLEAN, Stock!CreateDelivery(d, v, q, bad)
      PROVE  StockInv'
  <2> DEFINE rec == [k EXCEPT !.status = "DRAFT", !.venue = v, !.received = q, !.discrepancy = bad]
  <2>1. rec \in Stock!DeliveryRecord /\ rec.venue \in Venues
    BY <1>1 DEF Stock!DeliveryRecord
  <2>2. delivery' = [delivery EXCEPT ![d] = rec] /\ UNCHANGED <<Stock!shelfVars, writes>>
    BY <1>4 DEF Stock!CreateDelivery
  <2> HIDE DEF rec
  <2>3. PapersOK'
    <3>1. writes' \in 0..MaxWrites
      BY <1>1, <2>2 DEF PapersOK
    <3> QED BY <1>1, <1>2, <2>1, <2>2, <3>1, DeliveryWritten
  <2> QED BY <1>1, <1>3, <2>2, <2>3, FiguresKept DEF StockInv
<1>5. ASSUME NEW q \in Stock!Qty, NEW bad \in BOOLEAN, NEW status \in {"DRAFT", "DISCREPANCY"},
             Stock!EditDelivery(d, q, bad, status)
      PROVE  StockInv'
  <2> DEFINE rec == [k EXCEPT !.status = status, !.received = q, !.discrepancy = bad]
  <2>1. rec \in Stock!DeliveryRecord /\ rec.venue \in Venues
    BY <1>1, <1>5 DEF Stock!DeliveryRecord, Stock!EditDelivery
  <2>2. delivery' = [delivery EXCEPT ![d] = rec] /\ UNCHANGED <<Stock!shelfVars, writes>>
    BY <1>5 DEF Stock!EditDelivery
  <2> HIDE DEF rec
  <2>3. PapersOK'
    <3>1. writes' \in 0..MaxWrites
      BY <1>1, <2>2 DEF PapersOK
    <3> QED BY <1>1, <1>2, <2>1, <2>2, <3>1, DeliveryWritten
  <2> QED BY <1>1, <1>3, <2>2, <2>3, FiguresKept DEF StockInv
<1>6. CASE Stock!CompleteDelivery(d)
  <2> DEFINE status == IF k.discrepancy THEN "DISCREPANCY" ELSE "COMPLETED"
             rec == [k EXCEPT !.status = status]
  <2>1. rec \in Stock!DeliveryRecord /\ rec.venue \in Venues
    <3>1. status \in {"DISCREPANCY", "COMPLETED"}
      OBVIOUS
    <3> HIDE DEF status
    <3> QED BY <1>1, <1>6, <3>1 DEF Stock!DeliveryRecord, Stock!CompleteDelivery
  <2>2. delivery' = [delivery EXCEPT ![d] = rec] /\ Stock!Write
    BY <1>6 DEF Stock!CompleteDelivery
  <2>3. FiguresOK'
    <3>1. CASE k.received > 0
      <4>1. Stock!Adjust(k.venue, k.received) /\ k.venue \in Venues /\ k.received \in Int
        BY <1>1, <1>6, <3>1 DEF Stock!CompleteDelivery, Stock!Qty
      <4> HIDE DEF k
      <4> QED BY <1>1, <4>1, Adjusted
    <3>2. CASE ~(k.received > 0)
      BY <1>1, <1>6, <3>2, FiguresKept DEF Stock!CompleteDelivery
    <3> QED BY <3>1, <3>2
  <2> HIDE DEF rec
  <2>4. PapersOK'
    BY <1>1, <1>2, <2>1, <2>2, WriteKeeps, DeliveryWritten
  <2> QED BY <1>3, <2>3, <2>4 DEF StockInv
<1> QED BY <1>4, <1>5, <1>6 DEF Stock!DeliveryStep

LEMMA PurchaseKept ==
    ASSUME Stock!StockLedgerAssumption, StockInv, NEW o \in PurchaseOrders, Stock!OrderStep(o)
    PROVE  StockInv'
<1> DEFINE k == purchase[o]
<1>1. /\ k \in Stock!OrderRecord /\ (k.status # "NONE" => k.venue \in Venues)
      /\ PapersOK /\ FiguresOK /\ CountsOK /\ k.received \in Nat /\ k.ledger \in Int
  BY DEF StockInv, PapersOK, Stock!OrderRecord
<1>2. UNCHANGED <<count, delivery>>
  BY DEF Stock!OrderStep, Stock!CreateOrder, Stock!EditOrder, Stock!SendOrder, Stock!CancelOrder, Stock!MatchOrder, Stock!Receive
<1>3. CountsOK'
  BY <1>1, <1>2 DEF CountsOK
<1>4. ASSUME NEW rec \in Stock!OrderRecord, rec.status # "NONE" => rec.venue \in Venues,
             purchase' = [purchase EXCEPT ![o] = rec], UNCHANGED <<Stock!shelfVars, writes>>
      PROVE  StockInv'
  <2>1. writes' \in 0..MaxWrites
    BY <1>1, <1>4 DEF PapersOK
  <2> QED BY <1>1, <1>2, <1>3, <1>4, <2>1, OrderWritten, FiguresKept DEF StockInv
<1>5. ASSUME NEW v \in Venues, NEW q \in Stock!Qty, Stock!CreateOrder(o, v, q) PROVE StockInv'
  <2> DEFINE rec == [k EXCEPT !.status = "DRAFT", !.venue = v, !.ordered = q]
  <2>1. rec \in Stock!OrderRecord /\ rec.venue \in Venues
    BY <1>1 DEF Stock!OrderRecord
  <2>2. purchase' = [purchase EXCEPT ![o] = rec] /\ UNCHANGED <<Stock!shelfVars, writes>>
    BY <1>5 DEF Stock!CreateOrder
  <2> HIDE DEF rec
  <2> QED BY <1>4, <2>1, <2>2
<1>6. ASSUME NEW q \in Stock!Qty, Stock!EditOrder(o, q) PROVE StockInv'
  <2> DEFINE rec == [k EXCEPT !.ordered = q, !.received = 0]
  <2>1. rec \in Stock!OrderRecord /\ rec.venue \in Venues
    BY <1>1, <1>6 DEF Stock!OrderRecord, Stock!EditOrder
  <2>2. purchase' = [purchase EXCEPT ![o] = rec] /\ UNCHANGED <<Stock!shelfVars, writes>>
    BY <1>6 DEF Stock!EditOrder
  <2> HIDE DEF rec
  <2> QED BY <1>4, <2>1, <2>2
<1>7. ASSUME NEW s \in {"SENT", "CANCELLED", "MATCHED"}, k.status # "NONE",
             purchase' = [purchase EXCEPT ![o].status = s], UNCHANGED <<Stock!shelfVars, writes>>
      PROVE  StockInv'
  <2> DEFINE rec == [k EXCEPT !.status = s]
  <2>1. rec \in Stock!OrderRecord /\ rec.venue \in Venues
    BY <1>1, <1>7 DEF Stock!OrderRecord
  <2>2. purchase' = [purchase EXCEPT ![o] = rec]
    BY <1>7
  <2> HIDE DEF rec
  <2> QED BY <1>4, <1>7, <2>1, <2>2
<1>8. ASSUME NEW q \in Stock!Qty, Stock!Receive(o, q) PROVE StockInv'
  <2> DEFINE delta == q - k.received
             status == IF q >= k.ordered THEN "RECEIVED"
                       ELSE IF q > 0 THEN "PARTIALLY_RECEIVED" ELSE k.status
             ledger == k.ledger + delta
             rec == [k EXCEPT !.status = status, !.received = q, !.ledger = ledger]
  <2>1. q \in Nat /\ delta \in Int /\ ledger \in Int
    BY <1>1, Quantities
  <2>2. k.status # "NONE" /\ Stock!Write /\ purchase' = [purchase EXCEPT ![o] = rec]
    BY <1>8 DEF Stock!Receive, Stock!Outstanding
  <2>3. FiguresOK'
    <3>1. IF delta # 0 THEN Stock!Adjust(k.venue, delta) ELSE UNCHANGED Stock!shelfVars
      BY <1>8 DEF Stock!Receive, Stock!Outstanding
    <3>2. k.venue \in Venues
      BY <1>1, <2>2
    <3> HIDE DEF k, delta
    <3> QED BY <1>1, <2>1, <3>1, <3>2, Adjusted, FiguresKept
  <2>4. rec \in Stock!OrderRecord /\ rec.venue \in Venues
    <3>1. status \in {"RECEIVED", "PARTIALLY_RECEIVED", k.status}
      OBVIOUS
    <3> HIDE DEF status, ledger
    <3> QED BY <1>1, <2>1, <2>2, <3>1 DEF Stock!OrderRecord
  <2> HIDE DEF rec
  <2>5. PapersOK'
    BY <1>1, <1>2, <2>2, <2>4, WriteKeeps, OrderWritten
  <2> QED BY <1>3, <2>3, <2>5 DEF StockInv
<1> QED BY <1>5, <1>6, <1>7, <1>8 DEF Stock!OrderStep, Stock!SendOrder, Stock!CancelOrder, Stock!MatchOrder

LEMMA GoodsKept ==
    ASSUME Stock!StockLedgerAssumption, StockInv, NEW v \in Venues, NEW q \in Stock!Qty,
           Stock!Waste(v, q) \/ \E w \in Venues : Stock!Transfer(v, w, q)
    PROVE  StockInv'
<1>1. UNCHANGED <<count, delivery, purchase>> /\ Stock!Write
  BY DEF Stock!Waste, Stock!Transfer
<1>2. q \in Int /\ -q \in Int
  BY DEF Stock!Qty
<1>3. FiguresOK'
  BY <1>2, Adjusted, Transferred DEF StockInv, Stock!Waste
<1>4. CountsOK'
  BY <1>1 DEF StockInv, CountsOK
<1>5. PapersOK'
  BY <1>1, WriteKeeps DEF StockInv, PapersOK
<1> QED BY <1>3, <1>4, <1>5 DEF StockInv

LEMMA InitialStock ==
    ASSUME Stock!StockLedgerAssumption, Stock!Init
    PROVE  StockInv
<1>1. FiguresOK
  BY DEF Stock!Init, FiguresOK, Explained, Stock!Qty, Stock!StockLedgerAssumption
<1>2. CountsOK
  <2> DEFINE none == Stock!NoCount(NoVenue)
  <2>1. none \in Stock!CountRecord /\ none.ledger = 0 /\ ~none.applied /\ none.anchored = {}
    BY NoCountIs
  <2>2. count = [c \in Counts |-> none]
    BY DEF Stock!Init
  <2> HIDE DEF none
  <2> QED BY <2>1, <2>2 DEF CountsOK, Nets
<1>3. PapersOK
  <2> DEFINE nothing == [status |-> "NONE", venue |-> NoVenue, received |-> 0, discrepancy |-> FALSE]
             none == [status |-> "NONE", venue |-> NoVenue, ordered |-> 0, received |-> 0, ledger |-> 0]
  <2>1. 0 \in Stock!Qty
    BY DEF Stock!Qty, Stock!StockLedgerAssumption
  <2>2. /\ nothing \in Stock!DeliveryRecord /\ nothing.status = "NONE"
        /\ none \in Stock!OrderRecord /\ none.status = "NONE"
    BY <2>1 DEF Stock!DeliveryRecord, Stock!OrderRecord
  <2>3. delivery = [d \in Deliveries |-> nothing] /\ purchase = [o \in PurchaseOrders |-> none] /\ writes = 0
    BY DEF Stock!Init
  <2> HIDE DEF nothing, none
  <2> QED BY <2>2, <2>3 DEF PapersOK, Stock!StockLedgerAssumption
<1> QED BY <1>1, <1>2, <1>3 DEF StockInv

-----------------------------------------------------------------------------
(* Stock: the theorems *)

\* The inductive invariant.
THEOREM StockInvariant == Stock!StockLedgerAssumption /\ Stock!Spec => []StockInv
<1>1. Stock!StockLedgerAssumption /\ Stock!Init => StockInv
  BY InitialStock
<1>2. Stock!StockLedgerAssumption /\ StockInv /\ [Stock!Next]_Stock!vars => StockInv'
  <2> SUFFICES ASSUME Stock!StockLedgerAssumption, StockInv, [Stock!Next]_Stock!vars PROVE StockInv'
    OBVIOUS
  <2>1. CASE UNCHANGED Stock!vars
    <3>1. UNCHANGED Stock!shelfVars /\ UNCHANGED <<count, delivery, purchase, writes>>
      BY <2>1 DEF Stock!vars
    <3> QED BY <3>1, FiguresKept DEF StockInv, CountsOK, PapersOK
  <2> QED BY <2>1, CountKept, DeliveryKept, PurchaseKept, GoodsKept DEF Stock!Next
<1>3. Stock!StockLedgerAssumption <=> Stock!StockLedgerAssumption'
  OBVIOUS
<1> QED BY <1>1, <1>2, <1>3, PTL DEF Stock!Spec

\* The rows keep their types, and a movement points at a line that is on its sheet.
THEOREM StockTypes == Stock!StockLedgerAssumption /\ Stock!Spec => []Stock!TypeOK
<1>1. StockInv => Stock!TypeOK
  BY DEF StockInv, FiguresOK, CountsOK, Nets, PapersOK, Stock!TypeOK
<1> QED BY <1>1, StockInvariant, PTL

\* The movements and transfers alone explain the figure of a venue that took none
\* over from the group, for any venues and papers, in whatever order counts were
\* applied, corrected, moved and reversed.
THEOREM FiguresAreExplained == Stock!StockLedgerAssumption /\ Stock!Spec => []Stock!FigureExplained
<1>1. Stock!StockLedgerAssumption /\ StockInv => Stock!FigureExplained
  <2> SUFFICES ASSUME Stock!StockLedgerAssumption, StockInv, NEW v \in Venues, shelf[v] \in Int, takenOver[v] = 0
               PROVE  shelf[v] = booked[v] + sent[v]
    BY DEF Stock!FigureExplained
  <2>1. shelf[v] = takenOver[v] + booked[v] + sent[v]
    BY Distinct DEF StockInv, FiguresOK, Explained
  <2> QED BY <2>1 DEF StockInv, FiguresOK
<1>2. Stock!StockLedgerAssumption <=> Stock!StockLedgerAssumption'
  OBVIOUS
<1> QED BY <1>1, <1>2, StockInvariant, PTL

\* The reversal of a count takes back all that it and its corrections moved.
THEOREM ReversalsUndo == Stock!StockLedgerAssumption /\ Stock!Spec => []Stock!ReversedIsUndone
<1>1. StockInv => Stock!ReversedIsUndone
  BY DEF StockInv, CountsOK, Nets, Stock!ReversedIsUndone
<1> QED BY <1>1, StockInvariant, PTL

-----------------------------------------------------------------------------
(* The composition: every step of the back office is a step of each part   *)
(* or leaves it alone, so what is proved of a part holds of the whole.     *)

LEMMA OrdersPart == OfficeSpec => Spec
<1>1. OfficeInit => Init
  BY DEF OfficeInit
<1>2. [OfficeNext]_officeVars => [Next]_vars
  BY DEF OfficeNext, officeVars
<1> QED BY <1>1, <1>2, PTL DEF OfficeSpec, Spec

LEMMA ReceiptsPart == OfficeSpec => Receipts!Spec
<1>1. OfficeInit => Receipts!Init
  BY DEF OfficeInit
<1>2. [OfficeNext]_officeVars => [Receipts!Next]_Receipts!vars
  BY DEF OfficeNext, officeVars, receiptVars, Receipts!vars
<1> QED BY <1>1, <1>2, PTL DEF OfficeSpec, Receipts!Spec

LEMMA StockPart == OfficeSpec => Stock!Spec
<1>1. OfficeInit => Stock!Init
  BY DEF OfficeInit
<1>2. [OfficeNext]_officeVars => [Stock!Next]_Stock!vars
  BY DEF OfficeNext, officeVars, stockVars, Stock!vars, Stock!shelfVars
<1> QED BY <1>1, <1>2, PTL DEF OfficeSpec, Stock!Spec

LEMMA GuestsPart == OfficeSpec => []RoundInv
<1>1. Guests!QrAssumption
  BY OfficeAssumption
<1>2. OfficeInit => RoundInv
  BY <1>1, RoundsStart DEF OfficeInit
<1>3. RoundInv /\ [OfficeNext]_officeVars => RoundInv'
  <2>1. [OfficeNext]_officeVars => [Guests!Next]_Guests!vars
    BY DEF OfficeNext, officeVars, guestVars, Guests!vars
  <2> QED BY <1>1, <2>1, RoundsKeep
<1> QED BY <1>2, <1>3, PTL DEF OfficeSpec

\* "A refreshed success page must not order a second round": however many tabs
\* and requests there are, whoever dies and whatever staff do to the bills, a
\* round is on one bill, once, and only when Square has its money.
THEOREM RoundsOnce == OfficeSpec => []RoundOnce
<1>1. Guests!QrAssumption
  BY OfficeAssumption
<1>2. RoundInv => RoundOnce
  BY <1>1, RoundsAddUp DEF RoundOnce
<1> QED BY <1>2, GuestsPart, PTL

\* Credit notes and refunds never exceed what the receipt was for.
THEOREM CreditsStayCovered == OfficeSpec => []CreditsCovered
<1>1. Receipts!DocumentsAssumption => (Receipts!Spec => []Receipts!CreditsCovered)
  BY Receipts!CreditsAreCovered
<1>2. Receipts!DocumentsAssumption
  BY OfficeAssumption
<1>3. Receipts!CreditsCovered => CreditsCovered
  BY DEF CreditsCovered
<1> QED BY <1>1, <1>2, <1>3, ReceiptsPart, PTL

\* The movements and transfers alone explain the figure of every venue that took
\* none over from the group.
THEOREM FiguresStayExplained == OfficeSpec => []FigureExplained
<1>1. Stock!StockLedgerAssumption /\ Stock!Spec => []Stock!FigureExplained
  BY FiguresAreExplained
<1>2. Stock!StockLedgerAssumption
  BY OfficeAssumption
<1>3. Stock!FigureExplained => FigureExplained
  BY DEF FigureExplained
<1> QED BY <1>1, <1>2, <1>3, StockPart, PTL

\* The reversal of a count takes back all that it moved.
THEOREM ReversalsStayWhole == OfficeSpec => []ReversedIsUndone
<1>1. Stock!StockLedgerAssumption /\ Stock!Spec => []Stock!ReversedIsUndone
  BY ReversalsUndo
<1>2. Stock!StockLedgerAssumption
  BY OfficeAssumption
<1>3. Stock!ReversedIsUndone => ReversedIsUndone
  BY DEF ReversedIsUndone
<1> QED BY <1>1, <1>2, <1>3, StockPart, PTL

\* Purchase orders put on the shelf what their lines received.
THEOREM OrdersReceivedOnce == OfficeSpec => []ReceivedOnce
<1>1. Stock!Spec => []Stock!ReceivedOnce
  BY ReceiptsAddUp
<1>2. Stock!ReceivedOnce => ReceivedOnce
  BY DEF ReceivedOnce
<1> QED BY <1>1, <1>2, StockPart, PTL

\* All the tables of the back office keep their types, and a movement of stock
\* points at a line that is still on its sheet.
THEOREM OfficeTypes == OfficeSpec => []OfficeTypeOK
<1>1. OfficeSpec => []CorporateTypeOK
  BY OrdersPart, CorporateTypes, PTL
<1>2. OfficeSpec => []Receipts!DocumentsTypeOK
  <2>1. Receipts!DocumentsAssumption => (Receipts!Spec => []Receipts!DocumentsTypeOK)
    BY Receipts!DocumentsAreTyped
  <2>2. Receipts!DocumentsAssumption
    BY OfficeAssumption
  <2> QED BY <2>1, <2>2, ReceiptsPart, PTL
<1>3. OfficeSpec => []Stock!TypeOK
  <2>1. Stock!StockLedgerAssumption /\ Stock!Spec => []Stock!TypeOK
    BY StockTypes
  <2>2. Stock!StockLedgerAssumption
    BY OfficeAssumption
  <2> QED BY <2>1, <2>2, StockPart, PTL
<1>4. RoundInv => Guests!QrTypeOK
  BY DEF RoundInv
<1>5. CorporateTypeOK /\ Receipts!DocumentsTypeOK /\ Stock!TypeOK /\ Guests!QrTypeOK => OfficeTypeOK
  BY DEF OfficeTypeOK
<1> QED BY <1>1, <1>2, <1>3, <1>4, <1>5, GuestsPart, PTL
=============================================================================
