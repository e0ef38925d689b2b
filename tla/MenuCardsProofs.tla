---------------------------- MODULE MenuCardsProofs ----------------------------
(***************************************************************************)
(* A menu has one draft and one live version, numbers name one version,    *)
(* prints say what was saved and listings what their prints say, for any   *)
(* number of menus, versions, promotions and requests.                     *)
(***************************************************************************)
EXTENDS MenuCards, SumTheorems

-----------------------------------------------------------------------------
(* The inductive invariant: what a request x knows of the rows ver of the  *)
(* versions and prom of the promotions                                     *)

Shown == {"PUBLISHED", "ARCHIVED"}

\* Requests that hold the row of their promotion.
Holding(x) == x.at \in {"amend", "status", "list"} /\ x.held

\* The rows a request is about at its stage.
Working(x) ==
    /\ x.at \notin {"idle", "promote", "amend", "status", "card", "list"} => x.menu \in Menus
    /\ x.at \in {"target", "copy"} \/ x.then = "target" => x.target \in Menus /\ x.target # x.menu
    /\ x.at \in {"edit", "save", "discard", "render", "publish", "copy"} => x.draft \in Versions
    /\ x.at \in {"promote", "amend", "status", "card", "print", "list"} => x.promotion \in Promotions
    /\ x.at = "list" /\ (x.draft # NoVersion \/ x.from # NoVersion) => x.menu \in Menus
    /\ x.at = "print" => x.draft # NoVersion \/ x.from # NoVersion
    /\ x.at = "card" => x.draft = NoVersion /\ x.from = NoVersion /\ x.live = NoVersion
    /\ x.held => x.at \in {"copy", "amend", "status", "list"}
    /\ x.at = "status" => x.status # "NONE"

\* A draft that is to be printed says what was read, or has been written since.
KnowsDraft(x, ver) ==
    x.at \in {"render", "publish", "print", "list"} /\ x.draft # NoVersion =>
        LET d == ver[x.draft]
        IN  /\ d.state # "NONE" /\ d.menu = x.menu /\ x.stamp <= d.updatedAt
            /\ d.state = "DRAFT" /\ d.updatedAt = x.stamp => x.doc.dishes = d.doc.dishes

\* A page that is edited shows a draft of its menu, which says what was seen or
\* has been written since.
KnowsEdit(x, ver) ==
    /\ x.at \in {"edit", "save", "discard"} =>
          ver[x.draft].state # "NONE" /\ ver[x.draft].menu = x.menu
    /\ x.at = "copy" => ver[x.draft].state # "NONE" /\ ver[x.draft].menu = x.target
    /\ x.firm /\ x.at \in {"edit", "save", "render", "publish"} =>
          LET d == ver[x.draft]
          IN  /\ d.state # "NONE" /\ x.stamp <= d.updatedAt
              /\ d.updatedAt = x.stamp => x.seen = d.doc.dishes

KnowsLive(x, ver) == x.live # NoVersion => ver[x.live].state \in Shown

\* A promotion that is to be listed says what was read, or has been written since.
KnowsPromotion(x, ver, prom) ==
    x.at \in {"card", "print", "list"} =>
        LET r == prom[x.promotion]
        IN  /\ r.status # "NONE" /\ x.row <= r.updatedAt
            /\ x.held => x.row = r.updatedAt
            /\ x.row = r.updatedAt =>
                 /\ x.offer = r.offer /\ x.menu = r.card
                 /\ x.at # "card" /\ (x.draft # NoVersion \/ x.from # NoVersion) =>
                       x.doc.offer = x.offer
                 /\ x.at = "list" /\ x.draft = NoVersion /\ x.from = NoVersion
                       /\ x.live # NoVersion => ver[x.live].printed.offer = x.offer

\* There is a promotion to change.
KnowsRow(x, prom) == x.at \in {"amend", "status"} => prom[x.promotion].status # "NONE"

Fits(x, ver, prom) ==
    /\ Working(x) /\ KnowsDraft(x, ver) /\ KnowsEdit(x, ver) /\ KnowsLive(x, ver)
    /\ KnowsPromotion(x, ver, prom) /\ KnowsRow(x, prom)

Exclusive ==
    \A p, q \in Requests :
        p # q /\ Holding(proc[p]) /\ Holding(proc[q]) => proc[p].promotion # proc[q].promotion

ProcInv ==
    /\ proc \in [Requests -> ProcRecord]
    /\ \A p \in Requests : Fits(proc[p], version, promotion)
    /\ Exclusive

Once ==
    \A v, w \in Versions :
        /\ version[v].state \in {"DRAFT", "PUBLISHED"}
        /\ version[w].state = version[v].state /\ version[w].menu = version[v].menu
        => v = w

\* The counter of a menu is never behind its versions.
Counted ==
    /\ \A m \in Menus : menu[m].status = "NONE" => menu[m].versionCounter = 0
    /\ \A v \in Versions \ Made : version[v].menu = NoMenu
    /\ \A v \in Made :
          /\ version[v].menu \in Menus
          /\ menu[version[v].menu].status # "NONE"
          /\ version[v].versionNumber <= menu[version[v].menu].versionCounter

\* A card belongs to one promotion.
OneCard ==
    \A q, r \in Promotions :
        promotion[q].card = promotion[r].card /\ promotion[q].card # NoMenu => q = r

TablesOK ==
    /\ menu \in [Menus -> MenuRecord]
    /\ version \in [Versions -> VersionRecord]
    /\ promotion \in [Promotions -> PromotionRecord]
    /\ listings \subseteq ListingRecord

VersionsInv == Once /\ Counted /\ NumberedOnce /\ PrintedAsSaved

IInv ==
    /\ MenuCardsAssumption
    /\ TablesOK /\ ProcInv /\ VersionsInv /\ OneCard /\ ListingMatchesCard

-----------------------------------------------------------------------------
(* What may become of the rows in a step *)

\* A version that was made stays, its text with its updatedAt, its print for good.
VersionKept(v) ==
    version[v].state # "NONE" =>
        /\ version'[v].state # "NONE"
        /\ version'[v].menu = version[v].menu
        /\ version'[v].versionNumber = version[v].versionNumber
        /\ version[v].updatedAt <= version'[v].updatedAt
        /\ version'[v].updatedAt = version[v].updatedAt => version'[v].doc = version[v].doc
        /\ version'[v].state = "DRAFT" => version[v].state = "DRAFT"
        /\ version[v].state \in Shown =>
              /\ version'[v].state \in {"ARCHIVED", version[v].state}
              /\ version'[v].doc = version[v].doc /\ version'[v].printed = version[v].printed

PromotionKept(q) ==
    promotion[q].status # "NONE" =>
        /\ promotion'[q].status # "NONE"
        /\ promotion[q].updatedAt <= promotion'[q].updatedAt
        /\ promotion'[q].updatedAt = promotion[q].updatedAt =>
              promotion'[q].offer = promotion[q].offer /\ promotion'[q].card = promotion[q].card

VersionsStay == \A v \in Versions : VersionKept(v)

RowsKept ==
    /\ version' \in [Versions -> VersionRecord] /\ promotion' \in [Promotions -> PromotionRecord]
    /\ VersionsStay
    /\ \A q \in Promotions : PromotionKept(q)

\* What another request knew, it knows still, if the row it holds is untouched.
LEMMA StillFits ==
    ASSUME MenuCardsAssumption, TablesOK, RowsKept, NEW x \in ProcRecord, Fits(x, version, promotion),
           Holding(x) => promotion'[x.promotion].updatedAt = promotion[x.promotion].updatedAt
    PROVE  Fits(x, version', promotion')
<1>0. NoVersion \notin Versions /\ x.live \in Versions \cup {NoVersion} /\ x.draft \in Versions \cup {NoVersion}
      /\ x.stamp \in Nat /\ x.row \in Nat
  BY DEF MenuCardsAssumption, ProcRecord
<1>1. Working(x) BY DEF Fits
<1>2. KnowsDraft(x, version')
  <2> SUFFICES ASSUME x.at \in {"render", "publish", "print", "list"}, x.draft # NoVersion
               PROVE  KnowsDraft(x, version')
    BY DEF KnowsDraft
  <2> DEFINE d == x.draft
  <2>1. d \in Versions BY <1>0
  <2>2. /\ version[d].state # "NONE" /\ version[d].menu = x.menu /\ x.stamp <= version[d].updatedAt
        /\ version[d].state = "DRAFT" /\ version[d].updatedAt = x.stamp => x.doc.dishes = version[d].doc.dishes
    BY DEF Fits, KnowsDraft
  <2>3. VersionKept(d) BY <2>1 DEF RowsKept, VersionsStay
  <2>4. version[d].updatedAt \in Nat /\ version'[d].updatedAt \in Nat
    BY <2>1 DEF TablesOK, RowsKept, VersionRecord
  <2> QED BY <1>0, <2>2, <2>3, <2>4 DEF KnowsDraft, VersionKept
<1>3. KnowsLive(x, version')
  <2> SUFFICES ASSUME x.live # NoVersion PROVE version'[x.live].state \in Shown
    BY DEF KnowsLive
  <2>1. version[x.live].state \in Shown BY DEF Fits, KnowsLive
  <2>2. VersionKept(x.live) BY <1>0 DEF RowsKept, VersionsStay
  <2> QED BY <2>1, <2>2 DEF VersionsStay, VersionKept, Shown
<1>4. KnowsPromotion(x, version', promotion')
  <2> SUFFICES ASSUME x.at \in {"card", "print", "list"} PROVE KnowsPromotion(x, version', promotion')
    BY DEF KnowsPromotion
  <2> DEFINE q == x.promotion
  <2>1. q \in Promotions BY <1>1 DEF Working
  <2>2. PromotionKept(q) /\ promotion[q].updatedAt \in Nat /\ promotion'[q].updatedAt \in Nat
    BY <2>1 DEF RowsKept, VersionsStay, TablesOK, PromotionRecord
  <2>3. KnowsPromotion(x, version, promotion) BY DEF Fits
  <2>4. x.held => Holding(x) BY <1>1 DEF Working, Holding
  <2>5. x.live # NoVersion => version'[x.live].printed = version[x.live].printed
    <3>1. SUFFICES ASSUME x.live # NoVersion PROVE version'[x.live].printed = version[x.live].printed
      OBVIOUS
    <3>2. version[x.live].state \in Shown BY <3>1 DEF Fits, KnowsLive
    <3>3. VersionKept(x.live) BY <3>1, <1>0 DEF RowsKept, VersionsStay
    <3> QED BY <3>2, <3>3 DEF VersionsStay, VersionKept, Shown
  <2>6. promotion[q].status # "NONE" /\ x.row <= promotion[q].updatedAt /\ (x.held => x.row = promotion[q].updatedAt)
    BY <2>3 DEF KnowsPromotion
  <2>7. promotion'[q].status # "NONE" /\ x.row <= promotion'[q].updatedAt /\ (x.held => x.row = promotion'[q].updatedAt)
    BY <1>0, <2>2, <2>4, <2>6 DEF PromotionKept
  <2>8. x.row = promotion'[q].updatedAt =>
           /\ x.row = promotion[q].updatedAt
           /\ promotion'[q].offer = promotion[q].offer /\ promotion'[q].card = promotion[q].card
    BY <1>0, <2>2, <2>6 DEF PromotionKept
  <2> QED BY <2>3, <2>5, <2>7, <2>8 DEF KnowsPromotion
<1>5. KnowsRow(x, promotion')
  <2> SUFFICES ASSUME x.at \in {"amend", "status"} PROVE promotion'[x.promotion].status # "NONE"
    BY DEF KnowsRow
  <2>1. x.promotion \in Promotions BY <1>1 DEF Working
  <2>2. promotion[x.promotion].status # "NONE" BY DEF Fits, KnowsRow
  <2> QED BY <2>1, <2>2 DEF RowsKept, VersionsStay, PromotionKept
<1>6. KnowsEdit(x, version')
  <2>1. KnowsEdit(x, version) BY DEF Fits
  <2>2. SUFFICES ASSUME x.at \in {"edit", "save", "discard", "copy", "render", "publish"}
                 PROVE  KnowsEdit(x, version')
    BY DEF KnowsEdit
  <2> DEFINE d == x.draft
  <2>3. d \in Versions BY <1>1, <2>2 DEF Working
  <2>4. VersionKept(d) /\ version[d].updatedAt \in Nat /\ version'[d].updatedAt \in Nat
    BY <2>3 DEF RowsKept, VersionsStay, TablesOK, VersionRecord
  <2> QED BY <1>0, <2>1, <2>4 DEF KnowsEdit, VersionKept
<1> QED BY <1>1, <1>2, <1>3, <1>4, <1>5, <1>6 DEF Fits

\* One request goes on to next.
LEMMA Moves ==
    ASSUME IInv, RowsKept, NEW p \in Requests, NEW next \in ProcRecord, Become(p, next),
           Fits(next, version', promotion'),
           \A q \in Requests \ {p} : Holding(proc[q]) =>
               /\ promotion'[proc[q].promotion].updatedAt = promotion[proc[q].promotion].updatedAt
               /\ Holding(next) => proc[q].promotion # next.promotion
    PROVE  ProcInv'
<1>1. proc \in [Requests -> ProcRecord] /\ proc' = [proc EXCEPT ![p] = next]
  BY DEF IInv, ProcInv, Become
<1>2. proc' \in [Requests -> ProcRecord] /\ proc'[p] = next /\ \A q \in Requests \ {p} : proc'[q] = proc[q]
  BY <1>1
<1>3. ASSUME NEW q \in Requests PROVE Fits(proc'[q], version', promotion')
  <2>1. CASE q = p BY <2>1, <1>2
  <2>2. CASE q # p
    <3>1. proc'[q] = proc[q] /\ proc[q] \in ProcRecord BY <1>1, <1>2, <2>2
    <3>2. Fits(proc[q], version, promotion) BY DEF IInv, ProcInv
    <3> QED BY <3>1, <3>2, <2>2, StillFits DEF IInv
  <2> QED BY <2>1, <2>2
<1>4. Exclusive'
  <2> SUFFICES ASSUME NEW q \in Requests, NEW r \in Requests, q # r, Holding(proc'[q]), Holding(proc'[r])
               PROVE  proc'[q].promotion # proc'[r].promotion
    BY DEF Exclusive
  <2>1. CASE q # p /\ r # p BY <2>1, <1>2 DEF IInv, ProcInv, Exclusive
  <2>2. CASE q = p BY <2>2, <1>2
  <2>3. CASE r = p BY <2>3, <1>2
  <2> QED BY <2>1, <2>2, <2>3
<1> QED BY <1>2, <1>3, <1>4 DEF ProcInv

-----------------------------------------------------------------------------
(* Steps that write no row *)

LEMMA IdleFits ==
    ASSUME MenuCardsAssumption
    PROVE  /\ IdleProc \in ProcRecord /\ ~Holding(IdleProc)
           /\ Fits(IdleProc, version, promotion) /\ Fits(IdleProc, version', promotion')
<1>1. IdleProc \in ProcRecord BY DEF IdleProc, ProcRecord, Document, Blank
<1> QED BY <1>1
    DEF IdleProc, Holding, Fits, Working, KnowsDraft, KnowsEdit, KnowsLive, KnowsPromotion, KnowsRow

LEMMA Reads ==
    ASSUME IInv, NEW p \in Requests, NEW next \in ProcRecord, Become(p, next),
           UNCHANGED <<menu, version, promotion, listings>>,
           Fits(next, version, promotion),
           Holding(next) => \A q \in Requests \ {p} :
               Holding(proc[q]) => proc[q].promotion # next.promotion
    PROVE  IInv'
<1>1. RowsKept
  <2>1. \A v \in Versions : version[v].updatedAt \in Nat BY DEF IInv, TablesOK, VersionRecord
  <2>2. \A q \in Promotions : promotion[q].updatedAt \in Nat BY DEF IInv, TablesOK, PromotionRecord
  <2> QED BY <2>1, <2>2 DEF RowsKept, VersionsStay, VersionKept, PromotionKept, IInv, TablesOK
<1>2. ProcInv' BY <1>1, Moves
<1>3. (TablesOK /\ OneCard /\ ListingMatchesCard)'
  BY DEF IInv, TablesOK, OneCard, ListingMatchesCard
<1>4. VersionsInv'
  BY DEF IInv, VersionsInv, Once, Counted, NumberedOnce, PrintedAsSaved, Made
<1> QED BY <1>2, <1>3, <1>4 DEF IInv

\* A request that begins and has nothing yet that is to be printed or listed.
LEMMA Begins ==
    ASSUME IInv, NEW p \in Requests, NEW next \in ProcRecord, Begin(p, next), Working(next),
           ~next.held, next.live = NoVersion,
           next.at \notin {"render", "publish", "card", "print", "list"},
           KnowsRow(next, promotion), KnowsEdit(next, version)
    PROVE  IInv'
<1>1. Fits(next, version, promotion) /\ ~Holding(next)
  BY DEF Fits, KnowsDraft, KnowsLive, KnowsPromotion, Holding
<1> QED BY <1>1, Reads DEF Begin

LEMMA Leaves ==
    ASSUME IInv, NEW p \in Requests, Leave(p)
    PROVE  IInv'
BY IdleFits, Reads DEF Leave, IInv

LEMMA Known ==
    ASSUME IInv, NEW p \in Requests
    PROVE  /\ proc[p] \in ProcRecord /\ Working(proc[p]) /\ KnowsDraft(proc[p], version)
           /\ KnowsEdit(proc[p], version) /\ KnowsLive(proc[p], version) /\ KnowsPromotion(proc[p], version, promotion)
           /\ KnowsRow(proc[p], promotion)
BY DEF IInv, ProcInv, Fits

\* findFirst finds a row if there is one.
LEMMA Found ==
    ASSUME IInv, NEW m
    PROVE  /\ Draft(m) \in Versions \cup {NoVersion} /\ Live(m) \in Versions \cup {NoVersion}
           /\ Draft(m) # NoVersion =>
                 version[Draft(m)].state = "DRAFT" /\ version[Draft(m)].menu = m
           /\ Live(m) # NoVersion =>
                 version[Live(m)].state = "PUBLISHED" /\ version[Live(m)].menu = m
           /\ Draft(m) = NoVersion => Rows(m, "DRAFT") = {}
           /\ Live(m) = NoVersion => Rows(m, "PUBLISHED") = {}
<1>1. NoVersion \notin Versions BY DEF IInv, MenuCardsAssumption
<1>2. ASSUME NEW s
      PROVE  /\ First(Rows(m, s)) = NoVersion => Rows(m, s) = {}
             /\ First(Rows(m, s)) # NoVersion => First(Rows(m, s)) \in Rows(m, s)
             /\ Rows(m, s) \subseteq Versions
  BY <1>1 DEF First, Rows
<1> QED BY <1>1, <1>2 DEF Draft, Live, Rows

LEMMA DocumentsTyped ==
    ASSUME IInv
    PROVE  /\ Blank \in Document
           /\ \A v \in Versions :
                 /\ version[v].doc \in Document /\ version[v].printed \in Document
                 /\ DocumentFor(v) \in Document
                 /\ version[v].updatedAt \in Nat /\ version[v].laid \in Nat
           /\ \A m \in Menus, doc \in Document :
                 WithPromotion(m, doc) \in Document /\ WithPromotion(m, doc).dishes = doc.dishes
           /\ \A m \in Menus : FromLive(m) \in Document
<1>1. Blank \in Document BY DEF Blank, Document
<1>2. \A v \in Versions :
        /\ version[v].doc \in Document /\ version[v].printed \in Document
        /\ DocumentFor(v) \in Document
        /\ version[v].updatedAt \in Nat /\ version[v].laid \in Nat
  BY DEF IInv, TablesOK, VersionRecord, DocumentFor
<1>3. ASSUME NEW m \in Menus, NEW doc \in Document
      PROVE  WithPromotion(m, doc) \in Document /\ WithPromotion(m, doc).dishes = doc.dishes
  <2>1. CASE CardOf(m) = {} BY <2>1 DEF WithPromotion
  <2>2. CASE CardOf(m) # {}
    <3> DEFINE q == CHOOSE q \in CardOf(m) : TRUE
    <3>1. q \in Promotions BY <2>2 DEF CardOf
    <3>2. promotion[q].offer \in Offers \cup {NoOffer}
      BY <3>1 DEF IInv, TablesOK, PromotionRecord
    <3>3. WithPromotion(m, doc) = [doc EXCEPT !.offer = promotion[q].offer]
      BY <2>2 DEF WithPromotion
    <3> HIDE DEF q
    <3> QED BY <3>2, <3>3 DEF Document
  <2> QED BY <2>1, <2>2
<1>4. \A m \in Menus : FromLive(m) \in Document
  BY <1>1, <1>2, <1>3, Found DEF FromLive
<1> QED BY <1>1, <1>2, <1>3, <1>4

LEMMA MenuReads ==
    ASSUME IInv, NEW p \in Requests, NEW m \in Menus,
           \/ \E source \in Menus \cup {NoMenu} : CreateMenuRead(p, m, source)
           \/ CreateDraftRead(p, m)
           \/ \E firm \in BOOLEAN : OpenDraft(p, m, firm)
           \/ DiscardDraftRead(p, m)
           \/ \E target \in Menus, dish \in Dishes : CopyItemRead(p, m, target, dish)
    PROVE  IInv'
<1>0. Blank \in Document BY DocumentsTyped
<1>1. ASSUME NEW source \in Menus \cup {NoMenu}, CreateMenuRead(p, m, source) PROVE IInv'
  <2> DEFINE doc == IF source = NoMenu THEN Blank
                    ELSE DocumentFor(IF Live(source) # NoVersion THEN Live(source) ELSE Draft(source))
             next == [IdleProc EXCEPT !.at = "create", !.menu = m, !.doc = doc]
  <2>1. doc \in Document BY <1>1, Found, DocumentsTyped DEF CreateMenuRead
  <2>2. Begin(p, next) BY <1>1 DEF CreateMenuRead
  <2> HIDE DEF doc
  <2>3. next \in ProcRecord BY <2>1, <1>0 DEF IdleProc, ProcRecord
  <2>4. Working(next) /\ ~next.held /\ next.live = NoVersion /\ next.at = "create"
    BY DEF Working, IdleProc
  <2> HIDE DEF next
  <2> QED BY <2>2, <2>3, <2>4, Begins DEF KnowsRow, KnowsEdit
<1>2. ASSUME CreateDraftRead(p, m) PROVE IInv'
  <2> DEFINE next == [IdleProc EXCEPT !.at = "draft", !.menu = m, !.doc = FromLive(m)]
  <2>1. Begin(p, next) BY <1>2 DEF CreateDraftRead
  <2>2. next \in ProcRecord BY DocumentsTyped DEF IdleProc, ProcRecord
  <2>3. Working(next) /\ ~next.held /\ next.live = NoVersion /\ next.at = "draft"
    BY DEF Working, IdleProc
  <2> HIDE DEF next
  <2> QED BY <2>1, <2>2, <2>3, Begins DEF KnowsRow, KnowsEdit
<1>3. ASSUME NEW firm \in BOOLEAN, OpenDraft(p, m, firm) PROVE IInv'
  <2> DEFINE d == Draft(m)
             next == [IdleProc EXCEPT !.at = "edit", !.menu = m, !.draft = d, !.firm = firm,
                        !.stamp = version[d].updatedAt, !.doc = version[d].doc,
                        !.seen = version[d].doc.dishes]
  <2>1. d \in Versions /\ version[d].state = "DRAFT" /\ version[d].menu = m /\ Begin(p, next)
    BY <1>3, Found DEF OpenDraft
  <2>2. version[d].updatedAt \in Nat /\ version[d].doc \in Document /\ version[d].doc.dishes \subseteq Dishes
    BY <2>1, DocumentsTyped DEF Document
  <2> HIDE DEF d
  <2>3. next \in ProcRecord BY <2>1, <2>2 DEF IdleProc, ProcRecord
  <2>4. Working(next) /\ ~next.held /\ next.live = NoVersion /\ next.at = "edit"
    BY <2>1 DEF Working, IdleProc
  <2>5. KnowsEdit(next, version) BY <2>1, <2>2 DEF KnowsEdit, IdleProc
  <2> HIDE DEF next
  <2> QED BY <2>1, <2>3, <2>4, <2>5, Begins DEF KnowsRow
<1>4. ASSUME DiscardDraftRead(p, m) PROVE IInv'
  <2> DEFINE d == Draft(m)
             next == [IdleProc EXCEPT !.at = "discard", !.menu = m, !.draft = d]
  <2>1. d \in Versions /\ version[d].state = "DRAFT" /\ version[d].menu = m /\ Begin(p, next)
    BY <1>4, Found DEF DiscardDraftRead
  <2> HIDE DEF d
  <2>2. next \in ProcRecord BY <2>1, <1>0 DEF IdleProc, ProcRecord
  <2>3. Working(next) /\ ~next.held /\ next.live = NoVersion /\ next.at = "discard"
    BY <2>1 DEF Working, IdleProc
  <2>4. KnowsEdit(next, version) BY <2>1 DEF KnowsEdit, IdleProc
  <2> HIDE DEF next
  <2> QED BY <2>1, <2>2, <2>3, <2>4, Begins DEF KnowsRow
<1>5. ASSUME NEW target \in Menus, NEW dish \in Dishes, CopyItemRead(p, m, target, dish) PROVE IInv'
  <2> DEFINE next == [IdleProc EXCEPT !.at = "target", !.menu = m, !.target = target, !.seen = {dish}]
  <2>1. m # target /\ Begin(p, next) BY <1>5 DEF CopyItemRead
  <2>2. next \in ProcRecord BY <1>0 DEF IdleProc, ProcRecord
  <2>3. Working(next) /\ ~next.held /\ next.live = NoVersion /\ next.at = "target"
    BY <2>1 DEF Working, IdleProc
  <2> HIDE DEF next
  <2> QED BY <2>1, <2>2, <2>3, Begins DEF KnowsRow, KnowsEdit
<1> QED BY <1>1, <1>2, <1>3, <1>4, <1>5

LEMMA RestoreReads ==
    ASSUME IInv, NEW p \in Requests, NEW v \in Versions, NEW replaceDraft \in BOOLEAN,
           RestoreRead(p, v, replaceDraft)
    PROVE  IInv'
<1> DEFINE m == version[v].menu
           next == [IdleProc EXCEPT !.at = "restore", !.menu = m, !.firm = replaceDraft,
                        !.doc = DocumentFor(v)]
<1>1. m \in Menus /\ Begin(p, next) BY DEF RestoreRead, IInv, VersionsInv, Counted, Made
<1>2. DocumentFor(v) \in Document BY DocumentsTyped
<1> HIDE DEF m
<1>3. next \in ProcRecord BY <1>1, <1>2 DEF IdleProc, ProcRecord
<1>4. Working(next) /\ ~next.held /\ next.live = NoVersion /\ next.at = "restore"
  BY <1>1 DEF Working, IdleProc
<1> HIDE DEF next
<1> QED BY <1>1, <1>3, <1>4, Begins DEF KnowsRow, KnowsEdit

LEMMA PromotionReads ==
    ASSUME IInv, NEW p \in Requests, NEW q \in Promotions,
           \/ \E offer \in Offers, card \in Menus \cup {NoMenu} :
                 CreatePromotionRead(p, q, offer, card) \/ UpdatePromotionRead(p, q, offer, card)
           \/ \E status \in {"HIDDEN", "PUBLISHED", "ENDED"} : SetStatusRead(p, q, status)
           \/ ListRead(p, q)
    PROVE  IInv'
<1>0. /\ Blank \in Document
      /\ promotion[q].updatedAt \in Nat /\ promotion[q].offer \in Offers \cup {NoOffer}
      /\ promotion[q].card \in Menus \cup {NoMenu}
  BY DocumentsTyped DEF IInv, TablesOK, PromotionRecord
<1>1. ASSUME NEW offer \in Offers, NEW card \in Menus \cup {NoMenu}, CreatePromotionRead(p, q, offer, card)
      PROVE  IInv'
  <2> DEFINE next == [IdleProc EXCEPT !.at = "promote", !.promotion = q, !.offer = offer, !.menu = card]
  <2>1. Begin(p, next) BY <1>1 DEF CreatePromotionRead
  <2>2. next \in ProcRecord BY <1>0 DEF IdleProc, ProcRecord
  <2>3. Working(next) /\ ~next.held /\ next.live = NoVersion /\ next.at = "promote"
    BY DEF Working, IdleProc
  <2> HIDE DEF next
  <2> QED BY <2>1, <2>2, <2>3, Begins DEF KnowsRow, KnowsEdit
<1>2. ASSUME NEW offer \in Offers, NEW card \in Menus \cup {NoMenu}, UpdatePromotionRead(p, q, offer, card)
      PROVE  IInv'
  <2> DEFINE next == [IdleProc EXCEPT !.at = "amend", !.promotion = q, !.row = promotion[q].updatedAt,
                    !.offer = offer, !.menu = card]
  <2>1. Begin(p, next) BY <1>2 DEF UpdatePromotionRead
  <2>2. next \in ProcRecord BY <1>0 DEF IdleProc, ProcRecord
  <2>3. Working(next) /\ ~next.held /\ next.live = NoVersion /\ next.at = "amend"
    BY DEF Working, IdleProc
  <2>4. KnowsRow(next, promotion) BY <1>2 DEF UpdatePromotionRead, Editable, KnowsRow, IdleProc
  <2> HIDE DEF next
  <2> QED BY <2>1, <2>2, <2>3, <2>4, Begins DEF KnowsEdit
<1>3. ASSUME NEW status \in {"HIDDEN", "PUBLISHED", "ENDED"}, SetStatusRead(p, q, status) PROVE IInv'
  <2> DEFINE next == [IdleProc EXCEPT !.at = "status", !.promotion = q, !.status = status,
                    !.menu = promotion[q].card]
  <2>1. Begin(p, next) BY <1>3 DEF SetStatusRead
  <2>2. next \in ProcRecord BY <1>0 DEF IdleProc, ProcRecord
  <2>3. Working(next) /\ ~next.held /\ next.live = NoVersion /\ next.at = "status"
    BY DEF Working, IdleProc
  <2>4. KnowsRow(next, promotion) BY <1>3 DEF SetStatusRead, Editable, KnowsRow, IdleProc
  <2> HIDE DEF next
  <2> QED BY <2>1, <2>2, <2>3, <2>4, Begins DEF KnowsEdit
<1>4. ASSUME ListRead(p, q) PROVE IInv'
  <2> DEFINE next == [IdleProc EXCEPT !.at = "card", !.promotion = q, !.row = promotion[q].updatedAt,
                    !.offer = promotion[q].offer, !.menu = promotion[q].card]
  <2>1. Begin(p, next) /\ promotion[q].status # "NONE" BY <1>4 DEF ListRead, Editable
  <2>2. next \in ProcRecord BY <1>0 DEF IdleProc, ProcRecord
  <2>3. Working(next) /\ ~next.held /\ next.live = NoVersion /\ next.at = "card"
    BY DEF Working, IdleProc
  <2>4. KnowsPromotion(next, version, promotion)
    BY <1>0, <2>1 DEF KnowsPromotion, IdleProc
  <2> HIDE DEF next
  <2>5. Fits(next, version, promotion) /\ ~Holding(next)
    BY <2>3, <2>4 DEF Fits, KnowsDraft, KnowsEdit, KnowsLive, KnowsRow, Holding
  <2> QED BY <2>1, <2>2, <2>5, Reads DEF Begin
<1> QED BY <1>1, <1>2, <1>3, <1>4

\* Before the render a request has no lock and nothing to list.
LEMMA Editing ==
    ASSUME IInv, NEW p \in Requests, NEW next \in ProcRecord, Become(p, next), Working(next),
           KnowsDraft(next, version), KnowsEdit(next, version), ~next.held, next.live = proc[p].live,
           next.at \notin {"amend", "status", "card", "print", "list"},
           UNCHANGED <<menu, version, promotion, listings>>
    PROVE  IInv'
<1>1. KnowsLive(next, version) BY Known DEF KnowsLive
<1>2. Fits(next, version, promotion) /\ ~Holding(next) BY <1>1 DEF Fits, KnowsPromotion, KnowsRow, Holding
<1> QED BY <1>2, Reads

LEMMA SaveReads ==
    ASSUME IInv, NEW p \in Requests, NEW dishes \in SUBSET Dishes, SaveDraftRead(p, dishes)
    PROVE  IInv'
<1> DEFINE m == proc[p].menu
           d == Draft(m)
           doc == WithPromotion(m, [proc[p].doc EXCEPT !.dishes = dishes])
           next == [proc[p] EXCEPT !.at = "save", !.draft = d, !.doc = doc, !.stamp = version[d].updatedAt]
<1>1. /\ proc[p].at = "edit" /\ d # NoVersion /\ Become(p, next)
      /\ proc[p].firm => d = proc[p].draft /\ version[d].updatedAt = proc[p].stamp
      /\ UNCHANGED <<menu, version, promotion, listings>>
  BY DEF SaveDraftRead, At, SameDraft
<1>2. proc[p] \in ProcRecord /\ Working(proc[p]) /\ KnowsEdit(proc[p], version) BY Known
<1>3. m \in Menus BY <1>1, <1>2 DEF Working
<1>4. d \in Versions /\ version[d].updatedAt \in Nat /\ version[d].state = "DRAFT" /\ version[d].menu = m
  BY <1>1, Found, DocumentsTyped
<1>5. doc \in Document
  <2>1. [proc[p].doc EXCEPT !.dishes = dishes] \in Document BY <1>2 DEF ProcRecord, Document
  <2> HIDE DEF m
  <2> QED BY <2>1, <1>3, DocumentsTyped
<1> HIDE DEF d, doc
<1>6. next \in ProcRecord BY <1>2, <1>4, <1>5 DEF ProcRecord
<1>7. Working(next) BY <1>1, <1>2, <1>4 DEF Working, ProcRecord
<1>8. ~next.held /\ next.live = proc[p].live /\ next.at = "save"
  BY <1>1, <1>2 DEF Working, ProcRecord
<1>9. KnowsDraft(next, version) BY <1>8 DEF KnowsDraft
<1>10. KnowsEdit(next, version)
  <2>1. /\ next.draft = d /\ next.menu = m /\ next.stamp = version[d].updatedAt
        /\ next.firm = proc[p].firm /\ next.seen = proc[p].seen
    BY <1>2 DEF ProcRecord
  <2> HIDE DEF next, m
  <2> QED BY <2>1, <1>1, <1>2, <1>4, <1>8 DEF KnowsEdit
<1> HIDE DEF next
<1> QED BY <1>1, <1>6, <1>7, <1>8, <1>9, <1>10, Editing

LEMMA PublishReads ==
    ASSUME IInv, NEW p \in Requests, PublishRead(p)
    PROVE  IInv'
<1> DEFINE m == proc[p].menu
           d == Draft(m)
           doc == WithPromotion(m, version[d].doc)
           next == [proc[p] EXCEPT !.at = "render", !.draft = d, !.stamp = version[d].updatedAt, !.doc = doc]
<1>1. /\ proc[p].at = "edit" /\ d # NoVersion /\ Become(p, next)
      /\ proc[p].firm => d = proc[p].draft /\ version[d].updatedAt = proc[p].stamp
      /\ UNCHANGED <<menu, version, promotion, listings>>
  BY DEF PublishRead, At, SameDraft
<1>2. proc[p] \in ProcRecord /\ Working(proc[p]) /\ KnowsEdit(proc[p], version) BY Known
<1>3. m \in Menus BY <1>1, <1>2 DEF Working
<1>4. d \in Versions /\ version[d].updatedAt \in Nat /\ version[d].state = "DRAFT" /\ version[d].menu = m
  BY <1>1, Found, DocumentsTyped
<1>5. doc \in Document /\ doc.dishes = version[d].doc.dishes
  <2> HIDE DEF m, d
  <2> QED BY <1>3, <1>4, DocumentsTyped
<1> HIDE DEF d, doc
<1>6. next \in ProcRecord BY <1>2, <1>4, <1>5 DEF ProcRecord
<1>7. Working(next) BY <1>1, <1>2, <1>4 DEF Working, ProcRecord
<1>8. ~next.held /\ next.live = proc[p].live /\ next.at = "render"
  BY <1>1, <1>2 DEF Working, ProcRecord
<1>9. KnowsDraft(next, version)
  <2>1. next.draft = d /\ next.menu = m /\ next.stamp = version[d].updatedAt /\ next.doc = doc
    BY <1>2 DEF ProcRecord
  <2> HIDE DEF next, m
  <2> QED BY <2>1, <1>4, <1>5 DEF KnowsDraft
<1>10. KnowsEdit(next, version)
  <2>1. /\ next.draft = d /\ next.menu = m /\ next.stamp = version[d].updatedAt
        /\ next.firm = proc[p].firm /\ next.seen = proc[p].seen
    BY <1>2 DEF ProcRecord
  <2> HIDE DEF next, m
  <2> QED BY <2>1, <1>1, <1>2, <1>4, <1>8 DEF KnowsEdit
<1> HIDE DEF next
<1> QED BY <1>1, <1>6, <1>7, <1>8, <1>9, <1>10, Editing

LEMMA CopyTargets ==
    ASSUME IInv, NEW p \in Requests, CopyTarget(p)
    PROVE  IInv'
<1> DEFINE target == proc[p].target
           d == Draft(target)
           copy == [proc[p] EXCEPT !.at = "copy", !.draft = d, !.laid = version[d].laid]
           make == [proc[p] EXCEPT !.at = "draft", !.menu = target, !.then = "target",
                                   !.target = proc[p].menu, !.doc = FromLive(target)]
<1>1. proc[p].at = "target" /\ UNCHANGED <<menu, version, promotion, listings>>
  BY DEF CopyTarget, At
<1>2. proc[p] \in ProcRecord /\ Working(proc[p]) BY Known
<1>3. target \in Menus /\ proc[p].menu \in Menus /\ target # proc[p].menu /\ ~proc[p].held
  BY <1>1, <1>2 DEF Working
<1>4. CASE d # NoVersion /\ Become(p, copy)
  <2>1. d \in Versions /\ version[d].laid \in Nat /\ version[d].state = "DRAFT" /\ version[d].menu = target
    BY <1>4, Found, DocumentsTyped
  <2> HIDE DEF d
  <2>2. copy \in ProcRecord BY <1>2, <2>1 DEF ProcRecord
  <2>3. Working(copy) BY <1>1, <1>2, <1>3, <2>1 DEF Working, ProcRecord
  <2>4. ~copy.held /\ copy.live = proc[p].live /\ copy.at = "copy" BY <1>2, <1>3 DEF ProcRecord
  <2>5. KnowsDraft(copy, version) BY <2>4 DEF KnowsDraft
  <2>6. KnowsEdit(copy, version)
    <3>1. copy.draft = d /\ copy.target = target BY <1>2 DEF ProcRecord
    <3> HIDE DEF copy, target
    <3> QED BY <2>1, <2>4, <3>1 DEF KnowsEdit
  <2> HIDE DEF copy
  <2> QED BY <1>1, <1>4, <2>2, <2>3, <2>4, <2>5, <2>6, Editing
<1>5. CASE Become(p, make)
  <2>1. FromLive(target) \in Document BY <1>3, DocumentsTyped
  <2>2. make \in ProcRecord BY <1>2, <1>3, <2>1 DEF ProcRecord
  <2>3. Working(make) BY <1>1, <1>2, <1>3 DEF Working, ProcRecord
  <2>4. ~make.held /\ make.live = proc[p].live /\ make.at = "draft" BY <1>2, <1>3 DEF ProcRecord
  <2>5. KnowsDraft(make, version) BY <2>4 DEF KnowsDraft
  <2>6. KnowsEdit(make, version) BY <2>4 DEF KnowsEdit
  <2> HIDE DEF make
  <2> QED BY <1>1, <1>5, <2>2, <2>3, <2>4, <2>5, <2>6, Editing
<1> QED BY <1>4, <1>5 DEF CopyTarget

LEMMA Renders ==
    ASSUME IInv, NEW p \in Requests, Render(p)
    PROVE  IInv'
<1> DEFINE x == proc[p]
           live == Live(x.menu)
           stage == IF At(p, "render") THEN "publish" ELSE "list"
           next == [x EXCEPT !.at = stage, !.live = live]
<1>1. x.at \in {"render", "print"} /\ Become(p, next) /\ UNCHANGED <<menu, version, promotion, listings>>
  BY DEF Render
<1>2. x \in ProcRecord /\ Working(x) /\ KnowsDraft(x, version) /\ KnowsEdit(x, version)
      /\ KnowsPromotion(x, version, promotion)
  BY Known
<1>3. ~x.held /\ x.menu \in Menus BY <1>1, <1>2 DEF Working
<1>4. /\ live \in Versions \cup {NoVersion}
      /\ live # NoVersion => version[live].state = "PUBLISHED"
  BY Found
<1>5. stage = (IF x.at = "render" THEN "publish" ELSE "list") /\ stage \in {"publish", "list"} BY DEF At
<1> HIDE DEF live, stage
<1>6. /\ next \in ProcRecord /\ next.at = stage
      /\ next.live = live /\ next.menu = x.menu /\ next.target = x.target /\ next.then = x.then
      /\ next.draft = x.draft /\ next.from = x.from /\ next.stamp = x.stamp /\ next.doc = x.doc
      /\ next.promotion = x.promotion /\ next.row = x.row /\ next.offer = x.offer
      /\ next.status = x.status /\ next.held = x.held /\ next.firm = x.firm /\ next.seen = x.seen
  <2>1. x \in ProcRecord BY <1>2
  <2>2. stage \in {"publish", "list"} BY <1>5
  <2>3. live \in Versions \cup {NoVersion} BY <1>4
  <2>4. DOMAIN x = {"at", "menu", "target", "draft", "stamp", "laid", "live", "from", "doc", "seen",
                    "firm", "then", "promotion", "row", "offer", "status", "held"}
    BY <2>1 DEF ProcRecord
  <2> HIDE DEF x
  <2>5. next \in ProcRecord BY <2>1, <2>2, <2>3 DEF ProcRecord
  <2> QED BY <2>4, <2>5
<1> HIDE DEF next, x
<1>7. Working(next) BY <1>1, <1>2, <1>3, <1>6, <1>5 DEF Working
<1>8. KnowsDraft(next, version) BY <1>1, <1>2, <1>6, <1>5 DEF KnowsDraft
<1>9. KnowsLive(next, version) BY <1>4, <1>6 DEF KnowsLive, Shown
<1>10. KnowsPromotion(next, version, promotion)
  <2>1. CASE x.at = "render" BY <2>1, <1>6, <1>5 DEF KnowsPromotion
  <2>2. CASE x.at = "print"
    <3>1. x.draft # NoVersion \/ x.from # NoVersion BY <2>2, <1>2 DEF Working
    <3> QED BY <2>2, <3>1, <1>2, <1>3, <1>6, <1>5 DEF KnowsPromotion
  <2> QED BY <2>1, <2>2, <1>1
<1>11. KnowsEdit(next, version) BY <1>1, <1>2, <1>6, <1>5 DEF KnowsEdit
<1>12. Fits(next, version, promotion) /\ ~Holding(next)
  BY <1>3, <1>6, <1>5, <1>7, <1>8, <1>9, <1>10, <1>11 DEF Fits, KnowsRow, Holding
<1> QED BY <1>1, <1>6, <1>12, Reads

\* The card of a promotion prints its offer.
LEMMA CardPrints ==
    ASSUME IInv, NEW q \in Promotions, NEW doc \in Document, promotion[q].card \in Menus
    PROVE  WithPromotion(promotion[q].card, doc).offer = promotion[q].offer
<1> DEFINE m == promotion[q].card
<1>1. CardOf(m) = {q} BY DEF CardOf, IInv, OneCard, MenuCardsAssumption
<1>2. WithPromotion(m, doc) = [doc EXCEPT !.offer = promotion[q].offer]
  <2>1. (CHOOSE r \in CardOf(m) : TRUE) = q BY <1>1
  <2>2. CardOf(m) # {} BY <1>1
  <2> HIDE DEF m
  <2> QED BY <2>1, <2>2, Zenon DEF WithPromotion
<1>3. [doc EXCEPT !.offer = promotion[q].offer].offer = promotion[q].offer BY DEF Document
<1> QED BY <1>2, <1>3, Zenon

LEMMA LoadsCard ==
    ASSUME IInv, NEW p \in Requests, LoadCard(p)
    PROVE  IInv'
<1> DEFINE x == proc[p]
           m == x.menu
           d == Draft(m)
           l == Live(m)
           q == x.promotion
           again == WithPromotion(m, DocumentFor(l))
           doc == WithPromotion(m, version[d].doc)
           none == [x EXCEPT !.at = "list"]
           draft == [x EXCEPT !.at = "print", !.draft = d, !.stamp = version[d].updatedAt, !.doc = doc]
           asIs == [x EXCEPT !.at = "list", !.live = l]
           reprint == [x EXCEPT !.at = "print", !.from = l, !.doc = again]
<1>1. x.at = "card" /\ UNCHANGED <<menu, version, promotion, listings>> BY DEF LoadCard, At
<1>2. x \in ProcRecord /\ Working(x) /\ KnowsPromotion(x, version, promotion) BY Known
<1>3. /\ ~x.held /\ x.draft = NoVersion /\ x.from = NoVersion /\ x.live = NoVersion
      /\ q \in Promotions /\ m \in Menus \cup {NoMenu}
  BY <1>1, <1>2 DEF Working, ProcRecord
<1>4. /\ promotion[q].status # "NONE" /\ x.row <= promotion[q].updatedAt
      /\ x.row = promotion[q].updatedAt => x.offer = promotion[q].offer /\ m = promotion[q].card
  BY <1>1, <1>2 DEF KnowsPromotion
<1>5. ASSUME m \in Menus, NEW t \in Document, x.row = promotion[q].updatedAt
      PROVE  WithPromotion(m, t).offer = x.offer
  <2>1. promotion[q].card \in Menus /\ promotion[q].card = m /\ promotion[q].offer = x.offer
    BY <1>4, <1>5
  <2> HIDE DEF m, q, x
  <2> QED BY <1>3, <2>1, CardPrints
<1>6. CASE Become(p, none)
  <2>1. /\ none \in ProcRecord /\ none.at = "list" /\ none.held = x.held
        /\ none.draft = NoVersion /\ none.from = NoVersion /\ none.live = NoVersion
        /\ none.then = x.then /\ none.target = x.target /\ none.menu = m
        /\ none.promotion = q /\ none.row = x.row /\ none.offer = x.offer
    BY <1>2, <1>3 DEF ProcRecord
  <2> HIDE DEF none
  <2>2. Working(none) BY <1>2, <1>3, <2>1 DEF Working
  <2>3. Fits(none, version, promotion) /\ ~Holding(none)
    BY <1>3, <1>4, <2>1, <2>2 DEF Fits, KnowsDraft, KnowsEdit, KnowsLive, KnowsPromotion, KnowsRow, Holding
  <2> QED BY <1>1, <1>6, <2>1, <2>3, Reads
<1>7. CASE m \in Menus /\ d # NoVersion /\ Become(p, draft)
  <2>1. /\ d \in Versions /\ version[d].doc \in Document /\ version[d].updatedAt \in Nat
        /\ version[d].state = "DRAFT" /\ version[d].menu = m
    BY <1>7, Found, DocumentsTyped
  <2>2. doc \in Document /\ doc.dishes = version[d].doc.dishes
    <3> HIDE DEF m, d
    <3> QED BY <1>7, <2>1, DocumentsTyped
  <2>3. x.row = promotion[q].updatedAt => doc.offer = x.offer
    <3> HIDE DEF m, d, x, q
    <3> QED BY <1>5, <1>7, <2>1
  <2> HIDE DEF d, doc
  <2>4. /\ draft \in ProcRecord /\ draft.at = "print" /\ draft.held = x.held
        /\ draft.draft = d /\ draft.from = NoVersion /\ draft.live = NoVersion
        /\ draft.stamp = version[d].updatedAt /\ draft.doc = doc
        /\ draft.then = x.then /\ draft.target = x.target /\ draft.menu = m
        /\ draft.promotion = q /\ draft.row = x.row /\ draft.offer = x.offer
    BY <1>2, <1>3, <2>1, <2>2 DEF ProcRecord
  <2> HIDE DEF draft
  <2>5. Working(draft) BY <1>2, <1>3, <1>7, <2>1, <2>4 DEF Working
  <2>6. KnowsDraft(draft, version) BY <2>1, <2>2, <2>4 DEF KnowsDraft
  <2>7. KnowsPromotion(draft, version, promotion)
    BY <1>3, <1>4, <2>3, <2>4 DEF KnowsPromotion
  <2>8. Fits(draft, version, promotion) /\ ~Holding(draft)
    BY <2>4, <2>5, <2>6, <2>7 DEF Fits, KnowsEdit, KnowsLive, KnowsRow, Holding
  <2> QED BY <1>1, <1>7, <2>4, <2>8, Reads
<1>8. CASE m \in Menus /\ l # NoVersion /\ ((Become(p, asIs) /\ again = DocumentFor(l)) \/ Become(p, reprint))
  <2>1. l \in Versions /\ version[l].state = "PUBLISHED" /\ DocumentFor(l) \in Document
    BY <1>8, Found, DocumentsTyped
  <2>2. DocumentFor(l) = version[l].printed BY <2>1 DEF DocumentFor
  <2>3. again \in Document
    <3> HIDE DEF m, l
    <3> QED BY <1>8, <2>1, DocumentsTyped
  <2>4. x.row = promotion[q].updatedAt => again.offer = x.offer
    <3> HIDE DEF m, l, x, q
    <3> QED BY <1>5, <1>8, <2>1
  <2> HIDE DEF l, again
  <2>5. CASE Become(p, asIs) /\ again = DocumentFor(l)
    <3>1. /\ asIs \in ProcRecord /\ asIs.at = "list" /\ asIs.held = x.held
          /\ asIs.draft = NoVersion /\ asIs.from = NoVersion /\ asIs.live = l
          /\ asIs.then = x.then /\ asIs.target = x.target /\ asIs.menu = m
          /\ asIs.promotion = q /\ asIs.row = x.row /\ asIs.offer = x.offer
      BY <1>2, <1>3, <2>1 DEF ProcRecord
    <3> HIDE DEF asIs
    <3>2. Working(asIs) BY <1>2, <1>3, <3>1 DEF Working
    <3>3. KnowsPromotion(asIs, version, promotion)
      BY <1>3, <1>4, <2>2, <2>4, <2>5, <3>1 DEF KnowsPromotion
    <3>4. Fits(asIs, version, promotion) /\ ~Holding(asIs)
      BY <1>3, <2>1, <3>1, <3>2, <3>3 DEF Fits, KnowsDraft, KnowsEdit, KnowsLive, KnowsRow, Holding, Shown
    <3> QED BY <1>1, <2>5, <3>1, <3>4, Reads
  <2>6. CASE Become(p, reprint)
    <3>1. /\ reprint \in ProcRecord /\ reprint.at = "print" /\ reprint.held = x.held
          /\ reprint.draft = NoVersion /\ reprint.from = l /\ reprint.live = NoVersion /\ reprint.doc = again
          /\ reprint.then = x.then /\ reprint.target = x.target /\ reprint.menu = m
          /\ reprint.promotion = q /\ reprint.row = x.row /\ reprint.offer = x.offer
      BY <1>2, <1>3, <2>1, <2>3 DEF ProcRecord
    <3> HIDE DEF reprint
    <3>2. Working(reprint) BY <1>2, <1>3, <1>8, <3>1 DEF Working
    <3>3. KnowsPromotion(reprint, version, promotion)
      BY <1>3, <1>4, <2>4, <3>1 DEF KnowsPromotion
    <3>4. Fits(reprint, version, promotion) /\ ~Holding(reprint)
      BY <1>3, <2>1, <3>1, <3>2, <3>3 DEF Fits, KnowsDraft, KnowsEdit, KnowsLive, KnowsRow, Holding
    <3> QED BY <1>1, <2>6, <3>1, <3>4, Reads
  <2> QED BY <1>8, <2>5, <2>6
<1>9. \/ Become(p, none)
      \/ m \in Menus /\ d # NoVersion /\ Become(p, draft)
      \/ m \in Menus /\ l # NoVersion /\ ((Become(p, asIs) /\ again = DocumentFor(l)) \/ Become(p, reprint))
  <2> DEFINE next == IF m = NoMenu \/ (m # NoMenu /\ ~Active(m)) THEN none
                     ELSE IF d # NoVersion THEN draft
                     ELSE IF l = NoVersion THEN none
                     ELSE IF again = DocumentFor(l) THEN asIs ELSE reprint
  <2>1. Become(p, next) BY DEF LoadCard
  <2> HIDE DEF m, d, l, none, draft, asIs, reprint, again
  <2> QED BY <1>3, <2>1
<1> QED BY <1>6, <1>7, <1>8, <1>9

\* Nobody else holds the row that is locked.
LEMMA Locks ==
    ASSUME IInv, NEW p \in Requests, Lock(p)
    PROVE  IInv'
<1> DEFINE x == proc[p]
           next == [x EXCEPT !.held = TRUE]
<1>1. /\ x.at \in {"copy", "amend", "status", "list"} /\ ~x.held /\ Unlocked(p) /\ Become(p, next)
      /\ x.at = "list" => promotion[x.promotion].updatedAt = x.row
      /\ UNCHANGED <<menu, version, promotion, listings>>
  BY DEF Lock
<1>2. /\ x \in ProcRecord /\ Working(x) /\ KnowsDraft(x, version) /\ KnowsEdit(x, version)
      /\ KnowsLive(x, version)
      /\ KnowsPromotion(x, version, promotion) /\ KnowsRow(x, promotion)
  BY Known
<1>3. ASSUME NEW q \in Requests \ {p}, Holding(next), Holding(proc[q])
      PROVE  proc[q].promotion # next.promotion
  <2>1. x.at \in {"amend", "status", "list"} /\ next.promotion = x.promotion
    BY <1>2, <1>3 DEF Holding, ProcRecord
  <2>2. Asked(p) = x.promotion
    <3>1. ~At(p, "copy") BY <2>1 DEF At
    <3> QED BY <1>1, <2>1, <3>1 DEF Asked
  <2>3. Held(q) = {proc[q].promotion}
    BY <1>3 DEF Held, Holding, At
  <2>4. Asked(p) \notin Held(q) BY <1>1 DEF Unlocked
  <2> QED BY <2>1, <2>2, <2>3, <2>4
<1>4. /\ next \in ProcRecord /\ next.at = x.at /\ next.held
      /\ next.live = x.live /\ next.menu = x.menu /\ next.target = x.target /\ next.then = x.then
      /\ next.draft = x.draft /\ next.from = x.from /\ next.stamp = x.stamp /\ next.doc = x.doc
      /\ next.promotion = x.promotion /\ next.row = x.row /\ next.offer = x.offer
      /\ next.status = x.status /\ next.firm = x.firm /\ next.seen = x.seen
  BY <1>2 DEF ProcRecord
<1> HIDE DEF next, x
<1>5. Working(next) BY <1>1, <1>2, <1>4 DEF Working
<1>6. KnowsDraft(next, version) /\ KnowsEdit(next, version) /\ KnowsLive(next, version)
  BY <1>2, <1>4 DEF KnowsDraft, KnowsEdit, KnowsLive
<1>7. KnowsPromotion(next, version, promotion) BY <1>1, <1>2, <1>4 DEF KnowsPromotion
<1>8. KnowsRow(next, promotion) BY <1>2, <1>4 DEF KnowsRow
<1>9. Fits(next, version, promotion) BY <1>5, <1>6, <1>7, <1>8 DEF Fits
<1> QED BY <1>1, <1>3, <1>4, <1>9, Reads

-----------------------------------------------------------------------------
(* What writing versions does to the set of them *)

LEMMA OnceKept ==
    ASSUME IInv, NEW v \in Versions,
           \A w \in Versions \ {v} : version'[w].state \in {"DRAFT", "PUBLISHED"} =>
               /\ version'[w].state = version[w].state /\ version'[w].menu = version[w].menu
               /\ version'[w].state = version'[v].state => version'[w].menu # version'[v].menu
    PROVE  Once'
BY DEF IInv, VersionsInv, Once

\* Versions that are there, their menus and numbers.
SameNumber(w) ==
    /\ version'[w].state = "NONE" <=> version[w].state = "NONE"
    /\ version'[w].menu = version[w].menu /\ version'[w].versionNumber = version[w].versionNumber

LEMMA CountedKept ==
    ASSUME IInv, \A w \in Versions : SameNumber(w),
           \A m \in Menus : /\ menu'[m].versionCounter = menu[m].versionCounter
                            /\ menu'[m].status = "NONE" <=> menu[m].status = "NONE"
    PROVE  Counted' /\ NumberedOnce'
BY DEF IInv, VersionsInv, Counted, NumberedOnce, Made, SameNumber

\* No version is ahead of the counter of its menu.
LEMMA NumberIs ==
    ASSUME IInv, NEW m \in Menus
    PROVE  /\ NextVersionNumber(m) = menu[m].versionCounter + 1
           /\ menu[m].versionCounter \in Nat
<1> DEFINE bumped == menu[m].versionCounter + 1
           ahead == {v \in Versions : version[v].menu = m /\ version[v].state # "GONE"
                                      /\ version[v].versionNumber >= bumped}
<1>1. menu[m].versionCounter \in Nat BY DEF IInv, TablesOK, MenuRecord
<1>2. ASSUME NEW v \in ahead PROVE FALSE
  <2>1. v \in Versions /\ version[v].menu = m /\ version[v].versionNumber >= bumped
    OBVIOUS
  <2>2. v \in Made
    BY <2>1 DEF IInv, VersionsInv, Counted, Made, MenuCardsAssumption
  <2>3. version[v].versionNumber <= menu[m].versionCounter /\ version[v].versionNumber \in Nat
    BY <2>1, <2>2 DEF IInv, VersionsInv, Counted, TablesOK, VersionRecord
  <2> QED BY <1>1, <2>1, <2>3
<1>3. ahead = {} BY <1>2
<1>4. NextVersionNumber(m) = bumped BY <1>3 DEF NextVersionNumber
<1> QED BY <1>1, <1>4

\* A version is made with the next number of its menu.
LEMMA CountedMade ==
    ASSUME IInv, NEW v \in Versions, NEW m \in Menus,
           version[v].state = "NONE", version'[v].state # "NONE",
           version'[v].menu = m, version'[v].versionNumber = menu[m].versionCounter + 1,
           menu'[m].versionCounter = menu[m].versionCounter + 1, menu'[m].status # "NONE",
           \A n \in Menus \ {m} : menu'[n] = menu[n],
           \A w \in Versions \ {v} : SameNumber(w)
    PROVE  Counted' /\ NumberedOnce'
<1>1. menu[m].versionCounter \in Nat /\ \A w \in Versions : version[w].versionNumber \in Nat
  BY DEF IInv, TablesOK, MenuRecord, VersionRecord
<1>2. ASSUME NEW w \in Made'
      PROVE  /\ version'[w].menu \in Menus /\ menu'[version'[w].menu].status # "NONE"
             /\ version'[w].versionNumber <= menu'[version'[w].menu].versionCounter
             /\ w # v => w \in Made /\ version'[w].menu = version[w].menu
                         /\ version'[w].versionNumber = version[w].versionNumber
                         /\ version[w].versionNumber <= menu[version[w].menu].versionCounter
  <2>1. CASE w = v BY <2>1, <1>1
  <2>2. CASE w # v
    <3>1. SameNumber(w) /\ w \in Made /\ w \in Versions BY <2>2, <1>2 DEF Made, SameNumber
    <3>2. /\ version[w].menu \in Menus /\ menu[version[w].menu].status # "NONE"
          /\ version[w].versionNumber <= menu[version[w].menu].versionCounter
      BY <3>1 DEF IInv, VersionsInv, Counted
    <3>3. CASE version[w].menu = m BY <1>1, <2>2, <3>1, <3>2, <3>3 DEF SameNumber
    <3>4. CASE version[w].menu # m BY <1>1, <2>2, <3>1, <3>2, <3>4 DEF SameNumber
    <3> QED BY <3>3, <3>4
  <2> QED BY <2>1, <2>2
<1>3. Counted'
  <2>1. \A n \in Menus : menu'[n].status = "NONE" => menu'[n].versionCounter = 0
    BY DEF IInv, VersionsInv, Counted
  <2>2. \A w \in Versions \ Made' : version'[w].menu = NoMenu
    BY DEF IInv, VersionsInv, Counted, Made, SameNumber
  <2> QED BY <1>2, <2>1, <2>2 DEF Counted
<1>4. NumberedOnce'
  <2> SUFFICES ASSUME NEW w \in Made', NEW u \in Made', w # u, version'[w].menu = version'[u].menu
               PROVE  version'[w].versionNumber # version'[u].versionNumber
    BY DEF NumberedOnce
  <2>1. w \in Versions /\ u \in Versions BY DEF Made
  <2>2. CASE w # v /\ u # v BY <1>2, <2>2 DEF IInv, VersionsInv, NumberedOnce
  <2>3. CASE w = v BY <1>1, <1>2, <2>1, <2>3
  <2>4. CASE u = v BY <1>1, <1>2, <2>1, <2>4
  <2> QED BY <2>2, <2>3, <2>4
<1> QED BY <1>3, <1>4

-----------------------------------------------------------------------------
(* Requests that write versions and no promotion *)

LEMMA VersionWrites ==
    ASSUME IInv, NEW p \in Requests, NEW next \in ProcRecord, Become(p, next),
           Fits(next, version', promotion), ~Holding(next), UNCHANGED <<promotion, listings>>,
           menu' \in [Menus -> MenuRecord], version' \in [Versions -> VersionRecord],
           VersionsStay,
           VersionsInv'
    PROVE  IInv' /\ VersionsStay
<1>1. \A q \in Promotions : promotion[q].updatedAt \in Nat BY DEF IInv, TablesOK, PromotionRecord
<1>2. RowsKept BY <1>1 DEF RowsKept, VersionsStay, PromotionKept, IInv, TablesOK
<1>3. ProcInv' BY <1>2, Moves
<1>4. TablesOK' /\ OneCard' BY DEF IInv, TablesOK, OneCard
<1>5. ListingMatchesCard'
  <2> SUFFICES ASSUME NEW l \in listings, l.card # NoVersion
               PROVE  version'[l.card].state \in Shown /\ version'[l.card].printed.offer = l.offer
    BY DEF ListingMatchesCard, Shown
  <2>1. l.card \in Versions BY DEF IInv, TablesOK, ListingRecord
  <2>2. version[l.card].state \in Shown /\ version[l.card].printed.offer = l.offer
    BY DEF IInv, ListingMatchesCard, Shown
  <2> QED BY <2>1, <2>2 DEF VersionsStay, VersionKept, Shown
<1> QED BY <1>3, <1>4, <1>5 DEF IInv

\* A request that answers knows nothing any more.
LEMMA Commits ==
    ASSUME IInv, NEW p \in Requests, Commit(p), UNCHANGED <<promotion, listings>>,
           menu' \in [Menus -> MenuRecord], version' \in [Versions -> VersionRecord],
           VersionsStay,
           VersionsInv'
    PROVE  IInv' /\ VersionsStay
<1>1. IdleProc \in ProcRecord /\ ~Holding(IdleProc) BY IdleFits DEF IInv
<1>2. Fits(IdleProc, version', promotion)
  BY DEF IdleProc, Fits, Working, KnowsDraft, KnowsEdit, KnowsLive, KnowsPromotion, KnowsRow
<1> QED BY <1>1, <1>2, VersionWrites DEF Commit

\* A draft is written over.
LEMMA WritesDraft ==
    ASSUME IInv, NEW p \in Requests, NEW d \in Versions, NEW rec \in VersionRecord,
           Commit(p), UNCHANGED <<menu, promotion, listings>>,
           version[d].state = "DRAFT", version' = [version EXCEPT ![d] = rec],
           rec.menu = version[d].menu, rec.versionNumber = version[d].versionNumber,
           \/ rec.state = "DRAFT" /\ rec.updatedAt = version[d].updatedAt + 1
           \/ rec.state = "GONE" /\ rec.updatedAt = version[d].updatedAt /\ rec.doc = version[d].doc
    PROVE  IInv' /\ VersionsStay
<1>1. version \in [Versions -> VersionRecord] BY DEF IInv, TablesOK
<1>2. version' \in [Versions -> VersionRecord] /\ version'[d] = rec
      /\ \A w \in Versions \ {d} : version'[w] = version[w]
  BY <1>1
<1>3. \A w \in Versions : version[w].updatedAt \in Nat BY <1>1 DEF VersionRecord
<1>4. VersionsStay BY <1>2, <1>3 DEF VersionsStay, VersionKept, Shown
<1>5. Once' BY <1>2 DEF IInv, VersionsInv, Once
<1>6. \A w \in Versions : SameNumber(w) BY <1>2 DEF SameNumber
<1>7. Counted' /\ NumberedOnce' BY <1>6, CountedKept
<1>8. PrintedAsSaved' BY <1>2 DEF IInv, VersionsInv, PrintedAsSaved, Made
<1>9. VersionsInv' BY <1>5, <1>7, <1>8 DEF VersionsInv
<1>10. menu' \in [Menus -> MenuRecord] BY DEF IInv, TablesOK
<1> QED BY <1>2, <1>4, <1>9, <1>10, Commits

LEMMA DraftSteps ==
    ASSUME IInv, NEW p \in Requests, SaveDraft(p) \/ DiscardDraft(p) \/ CopyItem(p)
    PROVE  IInv' /\ VersionsStay
<1> DEFINE d == proc[p].draft
           n == version[d].updatedAt + 1
<1>1. proc[p].at \in {"save", "discard", "copy"} /\ version[d].state = "DRAFT"
  BY DEF SaveDraft, DiscardDraft, CopyItem, At, Guarded, StillThere
<1>2. d \in Versions /\ proc[p].doc \in Document /\ proc[p].seen \subseteq Dishes
  BY <1>1, Known DEF Working, ProcRecord
<1>3. version[d] \in VersionRecord /\ n \in Nat /\ version[d].doc \in Document
  BY <1>2 DEF IInv, TablesOK, VersionRecord
<1>4. CASE SaveDraft(p)
  <2> DEFINE rec == [version[d] EXCEPT !.doc = proc[p].doc, !.updatedAt = n, !.laid = n]
  <2>1. version' = [version EXCEPT ![d] = rec] BY <1>3, <1>4 DEF SaveDraft, Written, VersionRecord
  <2> HIDE DEF d
  <2>2. rec \in VersionRecord /\ rec.menu = version[d].menu /\ rec.versionNumber = version[d].versionNumber
        /\ rec.state = version[d].state /\ rec.updatedAt = version[d].updatedAt + 1
    BY <1>2, <1>3 DEF VersionRecord
  <2>3. Commit(p) /\ UNCHANGED <<menu, promotion, listings>> BY <1>4 DEF SaveDraft
  <2> HIDE DEF rec
  <2> QED BY <1>1, <1>2, <2>1, <2>2, <2>3, WritesDraft
<1>5. CASE DiscardDraft(p)
  <2> DEFINE rec == [version[d] EXCEPT !.state = "GONE"]
  <2>1. version' = [version EXCEPT ![d] = rec] BY <1>5 DEF DiscardDraft
  <2> HIDE DEF d
  <2>2. rec \in VersionRecord /\ rec.menu = version[d].menu /\ rec.versionNumber = version[d].versionNumber
        /\ rec.state = "GONE" /\ rec.updatedAt = version[d].updatedAt /\ rec.doc = version[d].doc
    BY <1>2, <1>3 DEF VersionRecord
  <2>3. Commit(p) /\ UNCHANGED <<menu, promotion, listings>> BY <1>5 DEF DiscardDraft
  <2> HIDE DEF rec
  <2> QED BY <1>1, <1>2, <2>1, <2>2, <2>3, WritesDraft
<1>6. CASE CopyItem(p)
  <2> DEFINE doc == [dishes |-> version[d].doc.dishes \cup proc[p].seen, offer |-> version[d].doc.offer]
             rec == [version[d] EXCEPT !.doc = doc, !.updatedAt = n]
  <2>1. version' = [version EXCEPT ![d] = rec] BY <1>6 DEF CopyItem, Written
  <2>2. doc \in Document BY <1>2, <1>3 DEF Document
  <2> HIDE DEF d, doc
  <2>3. rec \in VersionRecord /\ rec.menu = version[d].menu /\ rec.versionNumber = version[d].versionNumber
        /\ rec.state = version[d].state /\ rec.updatedAt = version[d].updatedAt + 1
    BY <1>2, <1>3, <2>2 DEF VersionRecord
  <2>4. Commit(p) /\ UNCHANGED <<menu, promotion, listings>> BY <1>6 DEF CopyItem
  <2> HIDE DEF rec
  <2> QED BY <1>1, <1>2, <2>1, <2>3, <2>4, WritesDraft
<1> QED BY <1>4, <1>5, <1>6

\* A draft is made, and the one there was is gone.
WithDraft(v, m, doc) ==
    [w \in Versions |->
        IF w = v THEN DraftRow(m, doc)
        ELSE IF w = Draft(m) THEN [version[w] EXCEPT !.state = "GONE"] ELSE version[w]]

LEMMA DraftMade ==
    ASSUME IInv, NEW v \in Versions, NEW m \in Menus, NEW doc \in Document,
           version[v].state = "NONE",
           version' = WithDraft(v, m, doc),
           menu' \in [Menus -> MenuRecord],
           menu'[m].versionCounter = menu[m].versionCounter + 1, menu'[m].status # "NONE",
           \A n \in Menus \ {m} : menu'[n] = menu[n]
    PROVE  /\ version' \in [Versions -> VersionRecord]
           /\ VersionsStay
           /\ VersionsInv'
<1> DEFINE made == DraftRow(m, doc)
           gone(w) == [version[w] EXCEPT !.state = "GONE"]
<1>1. \A w \in Versions : version[w] \in VersionRecord /\ version[w].updatedAt \in Nat
  BY DEF IInv, TablesOK, VersionRecord
<1>2. /\ made \in VersionRecord /\ made.state = "DRAFT" /\ made.menu = m
      /\ made.versionNumber = menu[m].versionCounter + 1
  BY NumberIs, DocumentsTyped DEF DraftRow, VersionRecord
<1>3. Draft(m) # NoVersion => version[Draft(m)].state = "DRAFT" /\ version[Draft(m)].menu = m
  BY Found
<1>4. ASSUME NEW w \in Versions
      PROVE  /\ gone(w) \in VersionRecord /\ gone(w).state = "GONE" /\ gone(w).menu = version[w].menu
             /\ gone(w).versionNumber = version[w].versionNumber
             /\ gone(w).updatedAt = version[w].updatedAt /\ gone(w).doc = version[w].doc
             /\ gone(w).printed = version[w].printed
  BY <1>1 DEF VersionRecord
<1> HIDE DEF made, gone
<1>5. /\ version'[v] = made
      /\ \A w \in Versions \ {v} : version'[w] = IF w = Draft(m) THEN gone(w) ELSE version[w]
  BY DEF made, gone, WithDraft
<1>6. version' \in [Versions -> VersionRecord]
  <2>1. \A w \in Versions : (IF w = v THEN made ELSE IF w = Draft(m) THEN gone(w) ELSE version[w]) \in VersionRecord
    BY <1>1, <1>2, <1>4
  <2> QED BY <2>1 DEF made, gone, WithDraft
<1>7. \A w \in Versions : w = Draft(m) => version[w].state = "DRAFT" /\ version[w].menu = m
  BY <1>3 DEF IInv, MenuCardsAssumption
<1>8. VersionsStay
  BY <1>1, <1>4, <1>5, <1>7 DEF VersionsStay, VersionKept, Shown
<1>9. \A w \in Versions \ {v} : SameNumber(w) BY <1>4, <1>5, <1>7 DEF SameNumber
<1>10. Counted' /\ NumberedOnce' BY <1>2, <1>5, <1>9, CountedMade
<1>11. Once'
  <2>1. ASSUME NEW w \in Versions \ {v}, version'[w].state \in {"DRAFT", "PUBLISHED"}
        PROVE  /\ version'[w].state = version[w].state /\ version'[w].menu = version[w].menu
               /\ version'[w].state = version'[v].state => version'[w].menu # version'[v].menu
    <3>1. w # Draft(m) /\ version'[w] = version[w] BY <2>1, <1>4, <1>5
    <3>2. ~(version[w].state = "DRAFT" /\ version[w].menu = m)
      <4>1. SUFFICES ASSUME version[w].state = "DRAFT", version[w].menu = m PROVE FALSE
        OBVIOUS
      <4>2. w \in Rows(m, "DRAFT") BY <4>1 DEF Rows
      <4>3. Draft(m) \in Versions /\ version[Draft(m)].state = "DRAFT" /\ version[Draft(m)].menu = m
        BY <4>2, Found
      <4>4. w = Draft(m) BY <4>1, <4>3 DEF IInv, VersionsInv, Once
      <4> QED BY <3>1, <4>4
    <3> QED BY <1>2, <1>5, <3>1, <3>2
  <2> QED BY <2>1, OnceKept
<1>12. PrintedAsSaved'
  BY <1>2, <1>4, <1>5 DEF IInv, VersionsInv, PrintedAsSaved, Made
<1> QED BY <1>6, <1>8, <1>10, <1>11, <1>12 DEF VersionsInv

\* Where there is no draft, none goes.
LEMMA FirstDraftMade ==
    ASSUME IInv, NEW v \in Versions, NEW m \in Menus, NEW doc, Rows(m, "DRAFT") = {},
           version' = [version EXCEPT ![v] = DraftRow(m, doc)]
    PROVE  version' = WithDraft(v, m, doc)
<1>1. Draft(m) \notin Versions BY DEF Draft, First, IInv, MenuCardsAssumption
<1>2. version \in [Versions -> VersionRecord] BY DEF IInv, TablesOK
<1> QED BY <1>1, <1>2 DEF WithDraft

\* The counter moves on.
LEMMA CounterMoves ==
    ASSUME IInv, NEW m \in Menus, Numbered(m), Active(m)
    PROVE  /\ menu' \in [Menus -> MenuRecord]
           /\ menu'[m].versionCounter = menu[m].versionCounter + 1 /\ menu'[m].status # "NONE"
           /\ \A n \in Menus \ {m} : menu'[n] = menu[n]
<1>1. menu \in [Menus -> MenuRecord] /\ menu[m] \in MenuRecord BY DEF IInv, TablesOK
<1>2. NextVersionNumber(m) = menu[m].versionCounter + 1 /\ menu[m].versionCounter \in Nat BY NumberIs
<1> DEFINE rec == [menu[m] EXCEPT !.versionCounter = menu[m].versionCounter + 1]
<1>3. rec \in MenuRecord /\ rec.versionCounter = menu[m].versionCounter + 1 /\ rec.status = "ACTIVE"
  BY <1>1, <1>2 DEF MenuRecord, Active
<1>4. menu' = [menu EXCEPT ![m] = rec] BY <1>1, <1>2 DEF Numbered
<1> HIDE DEF rec
<1> QED BY <1>1, <1>3, <1>4

LEMMA MakesDraft ==
    ASSUME IInv, NEW p \in Requests, NEW v \in Versions,
           CreateMenu(p, v) \/ CreateDraft(p, v) \/ Restore(p, v)
    PROVE  IInv' /\ VersionsStay
<1> DEFINE x == proc[p]
           m == x.menu
<1>1. x.at \in {"create", "draft", "restore"} /\ version[v].state = "NONE" /\ UNCHANGED <<promotion, listings>>
  BY DEF CreateMenu, CreateDraft, Restore, At, Unused
<1>2. x \in ProcRecord /\ Working(x) /\ KnowsLive(x, version) BY Known
<1>3. m \in Menus /\ x.doc \in Document /\ ~x.held BY <1>1, <1>2 DEF Working, ProcRecord
<1>4. CASE CreateMenu(p, v)
  <2> DEFINE rec == [status |-> "ACTIVE", versionCounter |-> 1]
  <2>1. menu[m].status = "NONE" /\ menu' = [menu EXCEPT ![m] = rec] /\ Commit(p)
        /\ version' = [version EXCEPT ![v] = DraftRow(m, x.doc)]
    BY <1>4 DEF CreateMenu
  <2>2. menu[m].versionCounter = 0 BY <1>3, <2>1 DEF IInv, VersionsInv, Counted
  <2>3. Rows(m, "DRAFT") = {} BY <2>1 DEF Rows, IInv, VersionsInv, Counted, Made
  <2>4. rec \in MenuRecord BY DEF MenuRecord
  <2>5. /\ menu' \in [Menus -> MenuRecord]
        /\ menu'[m].versionCounter = menu[m].versionCounter + 1 /\ menu'[m].status # "NONE"
        /\ \A n \in Menus \ {m} : menu'[n] = menu[n]
    BY <1>3, <2>1, <2>2, <2>4 DEF IInv, TablesOK
  <2> HIDE DEF m, x, rec
  <2>6. version' = WithDraft(v, m, x.doc)
    BY <1>3, <2>1, <2>3, FirstDraftMade
  <2>7. /\ version' \in [Versions -> VersionRecord] /\ VersionsInv'
        /\ VersionsStay
    BY <1>1, <1>3, <2>5, <2>6, DraftMade
  <2> QED BY <1>1, <2>1, <2>5, <2>7, Commits
<1>5. CASE Restore(p, v)
  <2>1. /\ Active(m) /\ Numbered(m) /\ Commit(p)
        /\ version' = WithDraft(v, m, x.doc)
    BY <1>5 DEF Restore, LockActiveMenu, WithDraft
  <2> HIDE DEF m, x
  <2>2. /\ menu' \in [Menus -> MenuRecord]
        /\ menu'[m].versionCounter = menu[m].versionCounter + 1 /\ menu'[m].status # "NONE"
        /\ \A n \in Menus \ {m} : menu'[n] = menu[n]
    BY <1>3, <2>1, CounterMoves
  <2>3. /\ version' \in [Versions -> VersionRecord] /\ VersionsInv'
        /\ VersionsStay
    BY <1>1, <1>3, <2>1, <2>2, DraftMade
  <2> QED BY <1>1, <2>1, <2>2, <2>3, Commits
<1>6. CASE CreateDraft(p, v)
  <2> DEFINE next == [x EXCEPT !.at = "target", !.menu = x.target, !.target = m, !.then = "idle",
                               !.doc = Blank]
  <2>1. /\ Active(m) /\ Rows(m, "DRAFT") = {} /\ Numbered(m)
        /\ version' = [version EXCEPT ![v] = DraftRow(m, x.doc)]
        /\ IF x.then = "idle" THEN Commit(p) ELSE Become(p, next)
    BY <1>6, Zenon DEF CreateDraft, LockActiveMenu, NoDraft
  <2>2. x.then # "idle" => x.target \in Menus /\ x.target # m BY <1>2 DEF Working, ProcRecord
  <2> HIDE DEF m, x
  <2>3. /\ menu' \in [Menus -> MenuRecord]
        /\ menu'[m].versionCounter = menu[m].versionCounter + 1 /\ menu'[m].status # "NONE"
        /\ \A n \in Menus \ {m} : menu'[n] = menu[n]
    BY <1>3, <2>1, CounterMoves
  <2>4. version' = WithDraft(v, m, x.doc)
    BY <1>3, <2>1, FirstDraftMade
  <2>5. /\ version' \in [Versions -> VersionRecord] /\ VersionsInv'
        /\ VersionsStay
    BY <1>1, <1>3, <2>3, <2>4, DraftMade
  <2>6. CASE Commit(p) BY <1>1, <2>3, <2>5, <2>6, Commits
  <2>7. CASE x.then # "idle" /\ Become(p, next)
    <3>1. Blank \in Document BY DocumentsTyped
    <3>2. /\ next \in ProcRecord /\ next.at = "target" /\ ~next.held /\ next.then = "idle"
          /\ next.menu \in Menus /\ next.target \in Menus /\ next.target # next.menu
          /\ next.live = x.live
      BY <1>2, <1>3, <2>2, <2>7, <3>1 DEF ProcRecord
    <3> HIDE DEF next
    <3>3. Working(next) BY <3>2 DEF Working
    <3>4. KnowsLive(next, version')
      <4>1. x.live # NoVersion => x.live \in Versions /\ version[x.live].state \in Shown
        BY <1>2 DEF KnowsLive, ProcRecord
      <4> QED BY <2>5, <3>2, <4>1 DEF KnowsLive, VersionsStay, VersionKept, Shown
    <3>5. Fits(next, version', promotion) /\ ~Holding(next)
      BY <3>2, <3>3, <3>4 DEF Fits, KnowsDraft, KnowsEdit, KnowsPromotion, KnowsRow, Holding
    <3> QED BY <1>1, <2>3, <2>5, <2>7, <3>2, <3>5, VersionWrites
  <2> QED BY <2>1, <2>6, <2>7
<1> QED BY <1>4, <1>5, <1>6

\* A version goes live in place of the one before.
LEMMA Published ==
    ASSUME IInv, NEW p \in Requests, NEW v \in Versions, NEW row \in VersionRecord,
           CommitPublish(p, v, row),
           proc[p].menu \in Menus, row.menu = proc[p].menu, row.doc.dishes = proc[p].doc.dishes,
           \/ version[v].state = "NONE"
           \/ version[v].state = "DRAFT" /\ row = version[v]
    PROVE  /\ version' \in [Versions -> VersionRecord]
           /\ VersionsStay
           /\ Once' /\ PrintedAsSaved'
           /\ version'[v].state = "PUBLISHED" /\ version'[v].printed = proc[p].doc
           /\ version'[v].menu = row.menu /\ version'[v].versionNumber = row.versionNumber
           /\ \A w \in Versions \ {v} : SameNumber(w)
<1> DEFINE m == proc[p].menu
           l == proc[p].live
           doc == proc[p].doc
           new == [row EXCEPT !.state = "PUBLISHED", !.printed = doc]
           old(w) == [version[w] EXCEPT !.state = "ARCHIVED"]
<1>1. \A w \in Versions : version[w] \in VersionRecord /\ version[w].updatedAt \in Nat
  BY DEF IInv, TablesOK, VersionRecord
<1>2. doc \in Document BY Known DEF ProcRecord
<1>3. /\ new \in VersionRecord /\ new.state = "PUBLISHED" /\ new.printed = doc
      /\ new.menu = row.menu /\ new.versionNumber = row.versionNumber
      /\ new.doc = row.doc /\ new.updatedAt = row.updatedAt
  BY <1>2 DEF VersionRecord
<1>4. ASSUME NEW w \in Versions
      PROVE  /\ old(w) \in VersionRecord /\ old(w).state = "ARCHIVED" /\ old(w).menu = version[w].menu
             /\ old(w).versionNumber = version[w].versionNumber
             /\ old(w).updatedAt = version[w].updatedAt /\ old(w).doc = version[w].doc
             /\ old(w).printed = version[w].printed
  BY <1>1 DEF VersionRecord
<1>5. /\ l = Live(m)
      /\ l # NoVersion => l \in Versions /\ version[l].state = "PUBLISHED" /\ version[l].menu = m
      /\ l = NoVersion => Rows(m, "PUBLISHED") = {}
  BY Found DEF CommitPublish
<1>6. version' = [w \in Versions |-> IF w = v THEN new ELSE IF w = l THEN old(w) ELSE version[w]]
  BY DEF CommitPublish
<1> HIDE DEF new, old, l, m
<1>7. /\ version'[v] = new
      /\ \A w \in Versions \ {v} : version'[w] = IF w = l THEN old(w) ELSE version[w]
  BY <1>6
<1>8. version' \in [Versions -> VersionRecord] BY <1>1, <1>3, <1>4, <1>6
<1>9. \A w \in Versions : w = l => version[w].state = "PUBLISHED" /\ version[w].menu = m
  BY <1>5 DEF IInv, MenuCardsAssumption
<1>10. VersionsStay
  BY <1>1, <1>3, <1>4, <1>7, <1>9 DEF VersionsStay, VersionKept, Shown
<1>11. \A w \in Versions \ {v} : SameNumber(w) BY <1>4, <1>7, <1>9 DEF SameNumber
<1>12. Once'
  <2>1. ASSUME NEW w \in Versions \ {v}, version'[w].state \in {"DRAFT", "PUBLISHED"}
        PROVE  /\ version'[w].state = version[w].state /\ version'[w].menu = version[w].menu
               /\ version'[w].state = version'[v].state => version'[w].menu # version'[v].menu
    <3>1. w # l /\ version'[w] = version[w] BY <2>1, <1>4, <1>7
    <3>2. ~(version[w].state = "PUBLISHED" /\ version[w].menu = m)
      <4>1. SUFFICES ASSUME version[w].state = "PUBLISHED", version[w].menu = m PROVE FALSE
        OBVIOUS
      <4>2. w \in Rows(m, "PUBLISHED") BY <4>1 DEF Rows
      <4>3. l \in Versions /\ version[l].state = "PUBLISHED" /\ version[l].menu = m
        BY <4>2, <1>5
      <4>4. w = l BY <4>1, <4>3 DEF IInv, VersionsInv, Once
      <4> QED BY <3>1, <4>4
    <3>3. new.menu = m BY <1>3 DEF m
    <3> QED BY <1>3, <1>7, <3>1, <3>2, <3>3
  <2>2. \A w \in Versions \ {v} : version'[w].state \in {"DRAFT", "PUBLISHED"} =>
               /\ version'[w].state = version[w].state /\ version'[w].menu = version[w].menu
               /\ version'[w].state = version'[v].state => version'[w].menu # version'[v].menu
    BY <2>1
  <2> QED BY <2>2, OnceKept
<1>13. PrintedAsSaved'
  BY <1>3, <1>4, <1>7, <1>9 DEF IInv, VersionsInv, PrintedAsSaved, Made
<1> QED BY <1>3, <1>7, <1>8, <1>10, <1>11, <1>12, <1>13

\* What is printed of a draft is what the draft says.
LEMMA DraftPublished ==
    ASSUME IInv, NEW p \in Requests, proc[p].at \in {"publish", "list"}, proc[p].draft # NoVersion,
           proc[p].menu \in Menus, Unmoved(p),
           CommitPublish(p, proc[p].draft, version[proc[p].draft]), UNCHANGED menu
    PROVE  /\ version' \in [Versions -> VersionRecord]
           /\ VersionsStay
           /\ VersionsInv'
           /\ version'[proc[p].draft].state = "PUBLISHED"
           /\ version'[proc[p].draft].printed = proc[p].doc
<1> DEFINE d == proc[p].draft
<1>1. d \in Versions BY Known DEF ProcRecord
<1>2. version[d] \in VersionRecord BY <1>1 DEF IInv, TablesOK
<1>3. version[d].state = "DRAFT" /\ version[d].updatedAt = proc[p].stamp BY DEF Unmoved
<1>4. version[d].menu = proc[p].menu /\ version[d].doc.dishes = proc[p].doc.dishes
  BY <1>3, Known DEF KnowsDraft
<1> HIDE DEF d
<1>5. /\ version' \in [Versions -> VersionRecord]
      /\ VersionsStay
      /\ Once' /\ PrintedAsSaved'
      /\ version'[d].state = "PUBLISHED" /\ version'[d].printed = proc[p].doc
      /\ version'[d].menu = version[d].menu /\ version'[d].versionNumber = version[d].versionNumber
      /\ \A w \in Versions \ {d} : SameNumber(w)
  <2>1. CommitPublish(p, d, version[d]) BY DEF d
  <2> QED BY <1>1, <1>2, <1>3, <1>4, <2>1, Published
<1>6. \A w \in Versions : SameNumber(w) BY <1>3, <1>5 DEF SameNumber
<1>7. Counted' /\ NumberedOnce' BY <1>6, CountedKept
<1> QED BY <1>5, <1>7 DEF VersionsInv, d

LEMMA Publishes ==
    ASSUME IInv, NEW p \in Requests, Publish(p)
    PROVE  IInv' /\ VersionsStay
<1>1. /\ proc[p].at = "publish" /\ Unmoved(p) /\ Commit(p) /\ UNCHANGED <<menu, promotion, listings>>
      /\ CommitPublish(p, proc[p].draft, version[proc[p].draft])
  BY DEF Publish, At
<1>2. proc[p].menu \in Menus /\ proc[p].draft \in Versions /\ proc[p].draft # NoVersion
  BY <1>1, Known DEF Working, IInv, MenuCardsAssumption
<1>3. /\ version' \in [Versions -> VersionRecord]
      /\ VersionsStay
      /\ VersionsInv'
  BY <1>1, <1>2, DraftPublished
<1>4. menu' \in [Menus -> MenuRecord] BY <1>1 DEF IInv, TablesOK
<1> QED BY <1>1, <1>3, <1>4, Commits

LEMMA ArchivesMenu ==
    ASSUME IInv, NEW p \in Requests, NEW m \in Menus, ArchiveMenu(p, m)
    PROVE  IInv'
<1> DEFINE status == IF menu[m].status = "ACTIVE" THEN "ARCHIVED" ELSE "ACTIVE"
           rec == [menu[m] EXCEPT !.status = status]
<1>1. menu[m].status # "NONE" /\ UNCHANGED <<version, promotion, listings, proc>>
  BY DEF ArchiveMenu
<1>2. menu \in [Menus -> MenuRecord] BY DEF IInv, TablesOK
<1>3. status \in {"ACTIVE", "ARCHIVED"} OBVIOUS
<1>4. menu' = [menu EXCEPT ![m] = rec] BY <1>2 DEF ArchiveMenu
<1> HIDE DEF status
<1>5. rec \in MenuRecord /\ rec.status # "NONE" /\ rec.versionCounter = menu[m].versionCounter
  BY <1>2, <1>3 DEF MenuRecord
<1> HIDE DEF rec
<1>6. menu' \in [Menus -> MenuRecord] BY <1>2, <1>4, <1>5
<1>7. Counted' /\ NumberedOnce'
  <2>1. \A w \in Versions : SameNumber(w) BY <1>1 DEF SameNumber
  <2>2. \A n \in Menus : /\ menu'[n].versionCounter = menu[n].versionCounter
                         /\ menu'[n].status = "NONE" <=> menu[n].status = "NONE"
    BY <1>1, <1>2, <1>4, <1>5
  <2> QED BY <2>1, <2>2, CountedKept
<1>8. VersionsInv' BY <1>1, <1>7 DEF IInv, VersionsInv, Once, PrintedAsSaved, Made
<1>9. ProcInv' BY <1>1 DEF IInv, ProcInv, Exclusive
<1>10. (TablesOK /\ OneCard /\ ListingMatchesCard)'
  BY <1>1, <1>6 DEF IInv, TablesOK, OneCard, ListingMatchesCard
<1> QED BY <1>8, <1>9, <1>10 DEF IInv

-----------------------------------------------------------------------------
(* Requests that write a promotion *)

LEMMA HeldByOne ==
    ASSUME IInv, NEW p \in Requests, Holding(proc[p]), NEW q \in Requests \ {p}, Holding(proc[q])
    PROVE  proc[q].promotion # proc[p].promotion
BY DEF IInv, ProcInv, Exclusive

\* A request answers that has written to a promotion nobody else holds.
LEMMA PromotionWrites ==
    ASSUME IInv, NEW p \in Requests, NEW q \in Promotions, NEW rec \in PromotionRecord, Commit(p),
           promotion' = [promotion EXCEPT ![q] = rec],
           \A r \in Requests \ {p} : Holding(proc[r]) => proc[r].promotion # q,
           promotion[q].status # "NONE" =>
               rec.status # "NONE" /\ rec.updatedAt = promotion[q].updatedAt + 1,
           rec.card = promotion[q].card \/ \A r \in Promotions \ {q} :
               rec.card # NoMenu => promotion[r].card # rec.card,
           menu' \in [Menus -> MenuRecord], version' \in [Versions -> VersionRecord],
           VersionsStay,
           VersionsInv', listings' \subseteq ListingRecord, ListingMatchesCard'
    PROVE  IInv'
<1>1. promotion \in [Promotions -> PromotionRecord]
      /\ \A r \in Promotions : promotion[r].updatedAt \in Nat
  BY DEF IInv, TablesOK, PromotionRecord
<1>2. /\ promotion' \in [Promotions -> PromotionRecord] /\ promotion'[q] = rec
      /\ \A r \in Promotions \ {q} : promotion'[r] = promotion[r]
  BY <1>1
<1>3. \A r \in Promotions : PromotionKept(r) BY <1>1, <1>2 DEF PromotionKept
<1>4. RowsKept BY <1>2, <1>3 DEF RowsKept, VersionsStay
<1>5. ProcInv'
  <2>1. IdleProc \in ProcRecord /\ ~Holding(IdleProc) /\ Fits(IdleProc, version', promotion')
    BY IdleFits DEF IInv
  <2>2. ASSUME NEW r \in Requests \ {p}, Holding(proc[r])
        PROVE  promotion'[proc[r].promotion].updatedAt = promotion[proc[r].promotion].updatedAt
    <3>1. proc[r].promotion \in Promotions BY <2>2, Known DEF Working, Holding
    <3> QED BY <2>2, <3>1, <1>2
  <2> QED BY <1>4, <2>1, <2>2, Moves DEF Commit
<1>6. OneCard' BY <1>2 DEF IInv, OneCard
<1>7. TablesOK' BY <1>2 DEF TablesOK
<1> QED BY <1>5, <1>6, <1>7 DEF IInv

\* Where versions and listings stay.
LEMMA PromotionOnly ==
    ASSUME IInv, NEW p \in Requests, NEW q \in Promotions, NEW rec \in PromotionRecord, Commit(p),
           promotion' = [promotion EXCEPT ![q] = rec],
           \A r \in Requests \ {p} : Holding(proc[r]) => proc[r].promotion # q,
           promotion[q].status # "NONE" =>
               rec.status # "NONE" /\ rec.updatedAt = promotion[q].updatedAt + 1,
           rec.card = promotion[q].card \/ \A r \in Promotions \ {q} :
               rec.card # NoMenu => promotion[r].card # rec.card,
           UNCHANGED <<menu, version, listings>>
    PROVE  IInv'
<1>1. menu' \in [Menus -> MenuRecord] /\ version' \in [Versions -> VersionRecord]
      /\ listings' \subseteq ListingRecord
  BY DEF IInv, TablesOK
<1>2. \A v \in Versions : version[v].updatedAt \in Nat BY DEF IInv, TablesOK, VersionRecord
<1>3. VersionsStay BY <1>2 DEF VersionsStay, VersionKept
<1>4. VersionsInv' BY DEF IInv, VersionsInv, Once, Counted, NumberedOnce, PrintedAsSaved, Made
<1>5. ListingMatchesCard' BY DEF IInv, ListingMatchesCard
<1> QED BY <1>1, <1>3, <1>4, <1>5, PromotionWrites

LEMMA PromotionSteps ==
    ASSUME IInv, NEW p \in Requests, CreatePromotion(p) \/ UpdatePromotion(p) \/ SetStatus(p)
    PROVE  IInv'
<1> DEFINE x == proc[p]
           q == x.promotion
           card == x.menu
<1>1. /\ x.at \in {"promote", "amend", "status"} /\ Commit(p) /\ UNCHANGED <<menu, version, listings>>
  BY DEF CreatePromotion, UpdatePromotion, SetStatus, At
<1>2. x \in ProcRecord /\ Working(x) BY Known
<1>3. /\ q \in Promotions /\ x.offer \in Offers \cup {NoOffer} /\ card \in Menus \cup {NoMenu}
      /\ x.status \in {"NONE", "PUBLISHED", "HIDDEN", "ENDED"}
  BY <1>1, <1>2 DEF Working, ProcRecord
<1>4. promotion \in [Promotions -> PromotionRecord] /\ promotion[q] \in PromotionRecord
  BY <1>3 DEF IInv, TablesOK
<1>5. CASE CreatePromotion(p)
  <2> DEFINE rec == [status |-> "DRAFT", offer |-> x.offer, card |-> card, updatedAt |-> 0]
  <2>1. promotion[q].status = "NONE" /\ promotion' = [promotion EXCEPT ![q] = rec]
        /\ (card # NoMenu => CardOf(card) = {})
    BY <1>5 DEF CreatePromotion
  <2>2. \A r \in Requests \ {p} : Holding(proc[r]) => proc[r].promotion # q
    BY <2>1, Known DEF KnowsPromotion, KnowsRow, Holding
  <2>3. \A r \in Promotions : card # NoMenu => promotion[r].card # card BY <2>1 DEF CardOf
  <2>4. rec \in PromotionRecord /\ rec.card = card BY <1>3 DEF PromotionRecord
  <2> HIDE DEF rec, x, q, card
  <2> QED BY <1>1, <1>3, <2>1, <2>2, <2>3, <2>4, PromotionOnly
<1>6. CASE UpdatePromotion(p)
  <2> DEFINE n == promotion[q].updatedAt + 1
             rec == [promotion[q] EXCEPT !.offer = x.offer, !.card = card, !.updatedAt = n]
  <2>1. x.held /\ x.at = "amend" /\ promotion' = [promotion EXCEPT ![q] = rec]
        /\ (card # NoMenu => CardOf(card) \subseteq {q})
    BY <1>3, <1>4, <1>6 DEF UpdatePromotion, At
  <2>2. \A r \in Requests \ {p} : Holding(proc[r]) => proc[r].promotion # q
    BY <2>1, HeldByOne DEF Holding
  <2>3. \A r \in Promotions \ {q} : card # NoMenu => promotion[r].card # card BY <2>1 DEF CardOf
  <2>4. n \in Nat BY <1>4 DEF PromotionRecord
  <2> HIDE DEF n, x, q, card
  <2>5. /\ rec \in PromotionRecord /\ rec.card = card /\ rec.status = promotion[q].status
        /\ rec.updatedAt = n
    BY <1>3, <1>4, <2>4 DEF PromotionRecord
  <2> HIDE DEF rec
  <2> QED BY <1>1, <1>3, <2>1, <2>2, <2>3, <2>5, PromotionOnly DEF n
<1>7. CASE SetStatus(p)
  <2> DEFINE n == promotion[q].updatedAt + 1
             rec == [promotion[q] EXCEPT !.status = x.status, !.updatedAt = n]
  <2>1. x.held /\ x.at = "status" /\ promotion' = [promotion EXCEPT ![q] = rec]
    BY <1>3, <1>4, <1>7 DEF SetStatus, At
  <2>2. \A r \in Requests \ {p} : Holding(proc[r]) => proc[r].promotion # q
    BY <2>1, HeldByOne DEF Holding
  <2>3. x.status # "NONE" BY <1>2, <2>1 DEF Working
  <2>4. n \in Nat BY <1>4 DEF PromotionRecord
  <2> HIDE DEF n, x, q, card
  <2>5. /\ rec \in PromotionRecord /\ rec.card = promotion[q].card /\ rec.status = x.status
        /\ rec.updatedAt = n
    BY <1>3, <1>4, <2>3, <2>4 DEF PromotionRecord
  <2> HIDE DEF rec
  <2> QED BY <1>1, <1>3, <2>1, <2>2, <2>3, <2>5, PromotionOnly DEF n
<1> QED BY <1>5, <1>6, <1>7

-----------------------------------------------------------------------------
(* Requests that list a promotion *)

\* A listing is added whose card prints what it says.
LEMMA Lists ==
    ASSUME IInv, NEW p \in Requests, Holding(proc[p]), NEW card \in Versions \cup {NoVersion},
           Listed(p, card),
           menu' \in [Menus -> MenuRecord], version' \in [Versions -> VersionRecord],
           VersionsStay,
           VersionsInv',
           card # NoVersion =>
               version'[card].state \in Shown /\ version'[card].printed.offer = proc[p].offer
    PROVE  IInv' /\ VersionsStay
<1> DEFINE x == proc[p]
           q == x.promotion
           n == promotion[q].updatedAt + 1
           rec == [promotion[q] EXCEPT !.status = "PUBLISHED", !.updatedAt = n]
           new == [of |-> q, offer |-> x.offer, card |-> card]
<1>1. q \in Promotions /\ x.offer \in Offers \cup {NoOffer}
  BY Known DEF Working, Holding, ProcRecord
<1>2. promotion \in [Promotions -> PromotionRecord] /\ promotion[q] \in PromotionRecord
  BY <1>1 DEF IInv, TablesOK
<1>3. Commit(p) /\ listings' = listings \cup {new} /\ promotion' = [promotion EXCEPT ![q] = rec]
  BY <1>1, <1>2 DEF Listed
<1>4. listings' \subseteq ListingRecord
  BY <1>1, <1>3 DEF IInv, TablesOK, ListingRecord
<1>5. ListingMatchesCard'
  <2> SUFFICES ASSUME NEW l \in listings', l.card # NoVersion
               PROVE  version'[l.card].state \in Shown /\ version'[l.card].printed.offer = l.offer
    BY DEF ListingMatchesCard, Shown
  <2>1. CASE l = new BY <2>1
  <2>2. CASE l \in listings
    <3>1. l.card \in Versions BY <2>2 DEF IInv, TablesOK, ListingRecord
    <3>2. version[l.card].state \in Shown /\ version[l.card].printed.offer = l.offer
      BY <2>2 DEF IInv, ListingMatchesCard, Shown
    <3> QED BY <3>1, <3>2 DEF VersionsStay, VersionKept, Shown
  <2> QED BY <2>1, <2>2, <1>3
<1>6. \A r \in Requests \ {p} : Holding(proc[r]) => proc[r].promotion # q BY HeldByOne
<1>7. n \in Nat BY <1>2 DEF PromotionRecord
<1> HIDE DEF n, new, x, q
<1>8. /\ rec \in PromotionRecord /\ rec.card = promotion[q].card /\ rec.status = "PUBLISHED"
      /\ rec.updatedAt = n
  BY <1>2, <1>7 DEF PromotionRecord
<1> HIDE DEF rec
<1> QED BY <1>1, <1>3, <1>4, <1>5, <1>6, <1>8, PromotionWrites DEF n

\* What a request that holds the row of its promotion knows of it.
LEMMA ListKnows ==
    ASSUME IInv, NEW p \in Requests, List(p)
    PROVE  /\ proc[p] \in ProcRecord /\ proc[p].at = "list" /\ Holding(proc[p])
           /\ proc[p].draft # NoVersion \/ proc[p].from # NoVersion =>
                 proc[p].menu \in Menus /\ proc[p].doc.offer = proc[p].offer
           /\ proc[p].live # NoVersion => version[proc[p].live].state \in Shown
           /\ proc[p].draft = NoVersion /\ proc[p].from = NoVersion /\ proc[p].live # NoVersion =>
                 version[proc[p].live].printed.offer = proc[p].offer
<1>1. proc[p].at = "list" /\ proc[p].held BY DEF List, At
<1>2. /\ proc[p] \in ProcRecord /\ Working(proc[p]) /\ KnowsLive(proc[p], version)
      /\ KnowsPromotion(proc[p], version, promotion)
  BY Known
<1>3. Holding(proc[p]) BY <1>1 DEF Holding
<1>4. proc[p].draft # NoVersion \/ proc[p].from # NoVersion =>
         proc[p].menu \in Menus /\ proc[p].doc.offer = proc[p].offer
  BY <1>1, <1>2 DEF Working, KnowsPromotion
<1>5. proc[p].live # NoVersion => version[proc[p].live].state \in Shown BY <1>2 DEF KnowsLive
<1>6. proc[p].draft = NoVersion /\ proc[p].from = NoVersion /\ proc[p].live # NoVersion =>
         version[proc[p].live].printed.offer = proc[p].offer
  BY <1>1, <1>2 DEF KnowsPromotion
<1> QED BY <1>1, <1>2, <1>3, <1>4, <1>5, <1>6

LEMMA ListSteps ==
    ASSUME IInv, NEW p \in Requests,
           ListAsIs(p) \/ ListWithDraft(p) \/ \E v \in Versions : ListReprinted(p, v)
    PROVE  IInv' /\ VersionsStay
<1> DEFINE x == proc[p]
<1>1. List(p) BY DEF ListAsIs, ListWithDraft, ListReprinted
<1>2. /\ x \in ProcRecord /\ x.at = "list" /\ Holding(x)
      /\ x.draft # NoVersion \/ x.from # NoVersion => x.menu \in Menus /\ x.doc.offer = x.offer
      /\ x.live # NoVersion => version[x.live].state \in Shown
      /\ x.draft = NoVersion /\ x.from = NoVersion /\ x.live # NoVersion =>
            version[x.live].printed.offer = x.offer
  BY <1>1, ListKnows
<1>3. x.live \in Versions \cup {NoVersion} /\ x.draft \in Versions \cup {NoVersion} /\ x.doc \in Document
  BY <1>2 DEF ProcRecord
<1>4. CASE ListAsIs(p)
  <2>1. x.draft = NoVersion /\ x.from = NoVersion /\ Listed(p, x.live) /\ UNCHANGED <<menu, version>>
    BY <1>4 DEF ListAsIs
  <2>2. menu' \in [Menus -> MenuRecord] /\ version' \in [Versions -> VersionRecord]
    BY <2>1 DEF IInv, TablesOK
  <2>3. \A v \in Versions : version[v].updatedAt \in Nat BY DEF IInv, TablesOK, VersionRecord
  <2>4. VersionsStay BY <2>1, <2>3 DEF VersionsStay, VersionKept
  <2>5. VersionsInv'
    BY <2>1 DEF IInv, VersionsInv, Once, Counted, NumberedOnce, PrintedAsSaved, Made
  <2>6. x.live # NoVersion => version'[x.live].state \in Shown /\ version'[x.live].printed.offer = x.offer
    BY <1>2, <2>1
  <2> QED BY <1>2, <1>3, <2>1, <2>2, <2>4, <2>5, <2>6, Lists
<1>5. CASE ListWithDraft(p)
  <2>1. /\ x.draft # NoVersion /\ Unmoved(p) /\ CommitPublish(p, x.draft, version[x.draft])
        /\ Listed(p, x.draft) /\ UNCHANGED menu
    BY <1>5 DEF ListWithDraft
  <2>2. x.at \in {"publish", "list"} /\ x.menu \in Menus BY <1>2, <2>1
  <2>3. /\ version' \in [Versions -> VersionRecord]
        /\ VersionsStay
        /\ VersionsInv'
        /\ version'[x.draft].state = "PUBLISHED" /\ version'[x.draft].printed = x.doc
    BY <2>1, <2>2, DraftPublished
  <2>4. menu' \in [Menus -> MenuRecord] BY <2>1 DEF IInv, TablesOK
  <2>5. version'[x.draft].state \in Shown /\ version'[x.draft].printed.offer = x.offer
    BY <1>2, <2>1, <2>3 DEF Shown
  <2> QED BY <1>2, <1>3, <2>1, <2>3, <2>4, <2>5, Lists
<1>6. ASSUME NEW v \in Versions, ListReprinted(p, v) PROVE IInv' /\ VersionsStay
  <2> DEFINE m == x.menu
             row == DraftRow(m, x.doc)
  <2>1. /\ x.from # NoVersion /\ Active(m) /\ Unused(v) /\ Numbered(m)
        /\ CommitPublish(p, v, row) /\ Listed(p, v)
    BY <1>6 DEF ListReprinted
  <2>2. m \in Menus /\ x.doc.offer = x.offer BY <1>2, <2>1
  <2>3. version[v].state = "NONE" BY <2>1 DEF Unused
  <2>4. /\ NextVersionNumber(m) = menu[m].versionCounter + 1 /\ menu[m].versionCounter \in Nat
        /\ Blank \in Document
    BY <2>2, NumberIs, DocumentsTyped
  <2>5. /\ row \in VersionRecord /\ row.menu = m /\ row.doc = x.doc
        /\ row.versionNumber = menu[m].versionCounter + 1
    BY <1>3, <2>2, <2>4 DEF DraftRow, VersionRecord
  <2>6. /\ menu' \in [Menus -> MenuRecord]
        /\ menu'[m].versionCounter = menu[m].versionCounter + 1 /\ menu'[m].status # "NONE"
        /\ \A n \in Menus \ {m} : menu'[n] = menu[n]
    BY <2>1, <2>2, CounterMoves
  <2> HIDE DEF row
  <2>7. /\ version' \in [Versions -> VersionRecord]
        /\ VersionsStay
        /\ Once' /\ PrintedAsSaved'
        /\ version'[v].state = "PUBLISHED" /\ version'[v].printed = x.doc
        /\ version'[v].menu = row.menu /\ version'[v].versionNumber = row.versionNumber
        /\ \A w \in Versions \ {v} : SameNumber(w)
    BY <2>1, <2>2, <2>3, <2>5, Published
  <2>8. Counted' /\ NumberedOnce'
    <3> HIDE DEF m
    <3> QED BY <2>2, <2>3, <2>5, <2>6, <2>7, CountedMade
  <2>9. VersionsInv' BY <2>7, <2>8 DEF VersionsInv
  <2>10. version'[v].state \in Shown /\ version'[v].printed.offer = x.offer
    BY <2>2, <2>7 DEF Shown
  <2> QED BY <1>2, <2>1, <2>6, <2>7, <2>9, <2>10, Lists
<1> QED BY <1>4, <1>5, <1>6

-----------------------------------------------------------------------------
(* What becomes of pages that are open, and of archived menus *)

\* A request that writes versions writes those of one menu, which is not archived.
WritesOnly(m) ==
    /\ menu[m].status # "ARCHIVED"
    /\ \A v \in Versions : version'[v].menu = m \/ version'[v] = version[v]
    /\ \A n \in Menus \ {m} : menu'[n].versionCounter = menu[n].versionCounter

Writes(p) ==
    \/ SaveDraft(p) \/ DiscardDraft(p) \/ CopyItem(p) \/ Publish(p)
    \/ ListAsIs(p) \/ ListWithDraft(p)
    \/ \E v \in Versions :
          CreateMenu(p, v) \/ CreateDraft(p, v) \/ Restore(p, v) \/ ListReprinted(p, v)

\* Every other step leaves the versions and their numbers alone.
LEMMA OthersWriteNothing ==
    ASSUME IInv, [Next]_vars
    PROVE  \/ \E p \in Requests : Writes(p)
           \/ /\ version' = version
              /\ \A m \in Menus : menu'[m].versionCounter = menu[m].versionCounter
<1> SUFFICES ASSUME ~\E p \in Requests : Writes(p)
             PROVE  /\ version' = version
                    /\ \A m \in Menus : menu'[m].versionCounter = menu[m].versionCounter
  OBVIOUS
<1>1. CASE UNCHANGED <<menu, version>> BY <1>1
<1>2. ASSUME NEW p \in Requests, NEW m \in Menus, ArchiveMenu(p, m)
      PROVE  /\ version' = version
             /\ \A n \in Menus : menu'[n].versionCounter = menu[n].versionCounter
  <2>1. menu \in [Menus -> MenuRecord] BY DEF IInv, TablesOK
  <2>2. version' = version BY <1>2 DEF ArchiveMenu
  <2>3. PICK status : menu' = [menu EXCEPT ![m] = [menu[m] EXCEPT !.status = status]]
    BY <1>2 DEF ArchiveMenu
  <2> QED BY <2>1, <2>2, <2>3 DEF MenuRecord
<1>3. ASSUME NEW p \in Requests, EditMenu(p) \/ EditPromotion(p) \/ Lock(p) \/ Leave(p),
             ~Writes(p), ~\E m \in Menus : ArchiveMenu(p, m)
      PROVE  UNCHANGED <<menu, version>>
  <2>1. CASE EditMenu(p)
    BY <1>3, <2>1 DEF EditMenu, Writes, CreateMenuRead, CreateDraftRead, OpenDraft, DiscardDraftRead,
       CopyItemRead, RestoreRead, SaveDraftRead, PublishRead, CopyTarget, Render, Begin
  <2>2. CASE EditPromotion(p)
    BY <1>3, <2>2 DEF EditPromotion, Writes, CreatePromotionRead, UpdatePromotionRead, SetStatusRead,
       ListRead, CreatePromotion, UpdatePromotion, SetStatus, LoadCard, Begin
  <2> QED BY <1>3, <2>1, <2>2 DEF Lock, Leave
<1> QED BY <1>1, <1>2, <1>3 DEF Next, vars

LEMMA WritesStay ==
    ASSUME IInv, NEW p \in Requests, Writes(p)
    PROVE  VersionsStay
BY DraftSteps, Publishes, ListSteps, MakesDraft, Zenon DEF Writes

\* The menu of a request was locked, and its versions are all that is written.
LEMMA WritesOneMenu ==
    ASSUME IInv, NEW p \in Requests, Writes(p)
    PROVE  (UNCHANGED <<menu, version>>) \/ \E m \in Menus : WritesOnly(m)
<1> DEFINE x == proc[p]
           d == x.draft
<1>0. x \in ProcRecord /\ Working(x) /\ KnowsEdit(x, version) /\ KnowsDraft(x, version) BY Known
<1>1. VersionsStay BY WritesStay
<1>2. version \in [Versions -> VersionRecord] /\ menu \in [Menus -> MenuRecord] BY DEF IInv, TablesOK
\* A draft of m that is written over stays a version of m.
<1>3. ASSUME NEW m \in Menus, NEW rec, version' = [version EXCEPT ![d] = rec], UNCHANGED menu,
             Active(m), version[d].state # "NONE", version[d].menu = m
      PROVE  WritesOnly(m)
  <2>1. \A v \in Versions : v # d => version'[v] = version[v] BY <1>2, <1>3
  <2>2. d \in Versions => version'[d].menu = m BY <1>1, <1>3 DEF VersionsStay, VersionKept
  <2> QED BY <1>3, <2>1, <2>2 DEF WritesOnly, Active
<1>4. CASE SaveDraft(p)
  <2>1. x.at = "save" /\ Active(x.menu) /\ UNCHANGED menu
        /\ version' = [version EXCEPT ![d] = [Written(d, x.doc) EXCEPT !.laid = version[d].updatedAt + 1]]
    BY <1>4 DEF SaveDraft, At, LockActiveMenu
  <2>2. x.menu \in Menus /\ version[d].state # "NONE" /\ version[d].menu = x.menu
    BY <1>0, <2>1 DEF Working, KnowsEdit
  <2> QED BY <1>3, <2>1, <2>2
<1>5. CASE DiscardDraft(p)
  <2>1. x.at = "discard" /\ Active(x.menu) /\ UNCHANGED menu
        /\ version' = [version EXCEPT ![d] = [version[d] EXCEPT !.state = "GONE"]]
    BY <1>5 DEF DiscardDraft, At, LockActiveMenu
  <2>2. x.menu \in Menus /\ version[d].state # "NONE" /\ version[d].menu = x.menu
    BY <1>0, <2>1 DEF Working, KnowsEdit
  <2> QED BY <1>3, <2>1, <2>2
<1>6. CASE CopyItem(p)
  <2>1. x.at = "copy" /\ Active(x.target) /\ UNCHANGED menu
        /\ \E rec : version' = [version EXCEPT ![d] = rec]
    BY <1>6 DEF CopyItem, At
  <2>2. x.target \in Menus /\ version[d].state # "NONE" /\ version[d].menu = x.target
    BY <1>0, <2>1 DEF Working, KnowsEdit
  <2> QED BY <1>3, <2>1, <2>2
\* What goes live is a version of the menu, and what was live is.
<1>7. ASSUME NEW m \in Menus, m = x.menu, NEW v \in Versions, NEW row, row.menu = m,
             row \in VersionRecord, CommitPublish(p, v, row), Active(m),
             \A n \in Menus \ {m} : menu'[n].versionCounter = menu[n].versionCounter
      PROVE  WritesOnly(m)
  <2>1. x.live = Live(m) BY <1>7 DEF CommitPublish
  <2>2. x.live \in Versions => version[x.live].state = "PUBLISHED" /\ version[x.live].menu = m
    BY <2>1, Found DEF IInv, MenuCardsAssumption
  <2>3. x.live \in Versions => version'[x.live].menu = m
    BY <1>1, <2>2 DEF VersionsStay, VersionKept
  <2>4. version'[v].menu = m BY <1>7 DEF CommitPublish, VersionRecord
  <2>5. \A w \in Versions : w # v /\ w # x.live => version'[w] = version[w]
    BY <1>7 DEF CommitPublish
  <2> QED BY <1>7, <2>3, <2>4, <2>5 DEF WritesOnly, Active
<1>8. CASE Publish(p) \/ ListWithDraft(p)
  <2>1. /\ x.at \in {"publish", "list"} /\ d # NoVersion /\ Active(x.menu) /\ UNCHANGED menu
        /\ CommitPublish(p, d, version[d])
    <3>1. CASE Publish(p)
      BY <1>0, <3>1 DEF Publish, At, LockActiveMenu, Working, IInv, MenuCardsAssumption
    <3>2. CASE ListWithDraft(p)
      BY <3>2 DEF ListWithDraft, List, At
    <3> QED BY <1>8, <3>1, <3>2
  <2>2. d \in Versions /\ x.menu \in Menus /\ version[d].menu = x.menu
    BY <1>0, <2>1 DEF ProcRecord, Working, KnowsDraft
  <2>3. version[d] \in VersionRecord BY <1>2, <2>2
  <2> QED BY <1>7, <2>1, <2>2, <2>3
<1>9. ASSUME NEW v \in Versions, ListReprinted(p, v) PROVE \E m \in Menus : WritesOnly(m)
  <2>1. /\ x.at = "list" /\ x.from # NoVersion /\ Active(x.menu) /\ Numbered(x.menu)
        /\ CommitPublish(p, v, DraftRow(x.menu, x.doc))
    BY <1>9 DEF ListReprinted, List, At
  <2>2. x.menu \in Menus /\ x.doc \in Document BY <1>0, <2>1 DEF Working, ProcRecord
  <2>3. \A n \in Menus \ {x.menu} : menu'[n].versionCounter = menu[n].versionCounter
    BY <2>1, <2>2, CounterMoves
  <2>4. NextVersionNumber(x.menu) \in Nat /\ Blank \in Document BY <2>2, NumberIs, DocumentsTyped
  <2>5. DraftRow(x.menu, x.doc) \in VersionRecord /\ DraftRow(x.menu, x.doc).menu = x.menu
    BY <2>2, <2>4 DEF DraftRow, VersionRecord
  <2> QED BY <1>7, <2>1, <2>2, <2>3, <2>5
<1>10. ASSUME NEW v \in Versions, CreateMenu(p, v) \/ CreateDraft(p, v) \/ Restore(p, v)
       PROVE  \E m \in Menus : WritesOnly(m)
  <2> DEFINE m == x.menu
  <2>1. x.at \in {"create", "draft", "restore"} BY <1>10 DEF CreateMenu, CreateDraft, Restore, At
  <2>2. m \in Menus BY <1>0, <2>1 DEF Working
  <2>3. DraftRow(m, x.doc).menu = m BY DEF DraftRow
  <2>4. Draft(m) \in Versions => version[Draft(m)].state # "NONE" /\ version[Draft(m)].menu = m
    BY <2>2, Found DEF IInv, MenuCardsAssumption
  <2>5. Draft(m) \in Versions => version'[Draft(m)].menu = m
    BY <1>1, <2>4 DEF VersionsStay, VersionKept
  <2>6. \/ version' = [version EXCEPT ![v] = DraftRow(m, x.doc)]
        \/ version' = [w \in Versions |->
              IF w = v THEN DraftRow(m, x.doc)
              ELSE IF w = Draft(m) THEN [version[w] EXCEPT !.state = "GONE"] ELSE version[w]]
    BY <1>10 DEF CreateMenu, CreateDraft, Restore
  <2>7. menu[m].status # "ARCHIVED" /\ \A n \in Menus \ {m} : menu'[n].versionCounter = menu[n].versionCounter
    <3>1. CASE CreateMenu(p, v) BY <1>2, <3>1 DEF CreateMenu
    <3>2. CASE CreateDraft(p, v) \/ Restore(p, v)
      <4>1. Active(m) /\ Numbered(m) BY <3>2 DEF CreateDraft, Restore, LockActiveMenu
      <4> HIDE DEF m
      <4> QED BY <2>2, <4>1, CounterMoves DEF Active
    <3> QED BY <1>10, <3>1, <3>2
  <2> HIDE DEF m, x
  <2>8. \A w \in Versions : version'[w].menu = m \/ version'[w] = version[w]
    BY <1>2, <2>3, <2>5, <2>6
  <2> QED BY <2>2, <2>7, <2>8 DEF WritesOnly
<1>11. CASE ListAsIs(p) BY <1>11 DEF ListAsIs
<1> QED BY <1>4, <1>5, <1>6, <1>8, <1>9, <1>10, <1>11 DEF Writes

\* Who saves or publishes the page he has open finds the draft as he saw it.
LEMMA PageUnchanged ==
    ASSUME IInv, [Next]_vars
    PROVE  NothingOverwritten
<1> SUFFICES ASSUME NEW p \in Requests, proc[p].at \in {"save", "publish"}, proc[p].firm,
                    version' # version, proc'[p] # proc[p]
             PROVE  version[proc[p].draft].doc.dishes = proc[p].seen
  BY DEF NothingOverwritten
<1>1. PICK q \in Requests : Writes(q) BY OthersWriteNothing
<1>2. \E next : Become(q, next)
  BY <1>1 DEF Writes, SaveDraft, DiscardDraft, CopyItem, Publish, ListAsIs, ListWithDraft, CreateMenu,
     CreateDraft, Restore, ListReprinted, Listed, Commit
<1>3. q = p BY <1>2 DEF Become, IInv, ProcInv
<1>4. SaveDraft(p) \/ Publish(p)
  BY <1>1, <1>3 DEF Writes, SaveDraft, DiscardDraft, CopyItem, Publish, ListAsIs, ListWithDraft, List,
     CreateMenu, CreateDraft, Restore, ListReprinted, At
<1>5. version[proc[p].draft].updatedAt = proc[p].stamp
  BY <1>4 DEF SaveDraft, Guarded, Publish, Unmoved
<1> QED BY <1>5, Known DEF KnowsEdit

LEMMA EditsRespectedByStep ==
    ASSUME IInv, [Next]_vars
    PROVE  NothingOverwritten /\ ShownStays /\ ArchivedStays
<1>1. VersionsStay \/ version' = version BY OthersWriteNothing, WritesStay
<1>2. ShownStays
  BY <1>1 DEF ShownStays, VersionsStay, VersionKept, Shown
<1>3. ArchivedStays
  <2> SUFFICES ASSUME NEW n \in Menus, menu[n].status = "ARCHIVED" PROVE SameCard(n)
    BY DEF ArchivedStays
  <2>1. CASE version' = version /\ menu'[n].versionCounter = menu[n].versionCounter
    BY <2>1 DEF SameCard, Frozen
  <2>2. ASSUME NEW m \in Menus, WritesOnly(m) PROVE SameCard(n)
    <3>1. m # n /\ menu'[n].versionCounter = menu[n].versionCounter BY <2>2 DEF WritesOnly
    <3>2. ASSUME NEW v \in Versions, version[v].menu = n \/ version'[v].menu = n
          PROVE  version'[v] = version[v]
      <4>1. version[v].menu = n => version'[v].menu = n
        BY <1>1 DEF VersionsStay, VersionKept, IInv, VersionsInv, Counted, Made, MenuCardsAssumption
      <4> QED BY <2>2, <3>1, <3>2, <4>1 DEF WritesOnly
    <3> QED BY <3>1, <3>2 DEF SameCard, Frozen
  <2> QED BY <2>1, <2>2, OthersWriteNothing, WritesOneMenu
<1> QED BY <1>2, <1>3, PageUnchanged

-----------------------------------------------------------------------------
(* The order of the locks *)

\* Whoever holds the first of two menus asks for one that comes later, who holds
\* a promotion asks for a menu, and who holds nothing keeps nobody waiting.
LEMMA NoCircle ==
    ASSUME IInv
    PROVE  NobodyWaitsInACircle
<1> SUFFICES ASSUME NEW S \in SUBSET Requests, S # {},
                    \A p \in S : \E q \in S : Asked(p) \in Held(q)
             PROVE  FALSE
  BY DEF NobodyWaitsInACircle
<1> DEFINE Copying == {p \in S : proc[p].at = "copy" /\ proc[p].held}
<1>1. ASSUME NEW p \in S
      PROVE  /\ proc[p].held => proc[p].at \in {"copy", "amend", "status", "list"}
             /\ proc[p].held /\ proc[p].at # "copy" =>
                   /\ Held(p) = {proc[p].promotion} /\ proc[p].promotion \in Promotions
                   /\ Asked(p) = proc[p].menu /\ Asked(p) \in Menus \cup {NoMenu}
             /\ p \in Copying =>
                   /\ Held(p) = {LockedFirst(p)} /\ Asked(p) = LockedSecond(p)
                   /\ LockedFirst(p) \in Menus /\ LockedSecond(p) \in Menus
                   /\ LockedFirst(p) < LockedSecond(p)
             /\ ~proc[p].held => Held(p) = {}
  <2>1. p \in Requests /\ proc[p] \in ProcRecord /\ Working(proc[p]) BY Known
  <2>2. proc[p].held => proc[p].at \in {"copy", "amend", "status", "list"} BY <2>1 DEF Working
  <2>3. ASSUME proc[p].held, proc[p].at # "copy"
        PROVE  /\ Held(p) = {proc[p].promotion} /\ proc[p].promotion \in Promotions
               /\ Asked(p) = proc[p].menu /\ Asked(p) \in Menus \cup {NoMenu}
    <3>1. proc[p].promotion \in Promotions /\ proc[p].menu \in Menus \cup {NoMenu}
      BY <2>1, <2>2, <2>3 DEF Working, ProcRecord
    <3>2. Asked(p) = proc[p].menu BY <2>2, <2>3 DEF Asked, At
    <3>3. Held(p) = {proc[p].promotion} BY <2>3 DEF Held, At
    <3> QED BY <3>1, <3>2, <3>3
  <2>4. ASSUME p \in Copying
        PROVE  /\ Held(p) = {LockedFirst(p)} /\ Asked(p) = LockedSecond(p)
               /\ LockedFirst(p) \in Menus /\ LockedSecond(p) \in Menus
               /\ LockedFirst(p) < LockedSecond(p)
    <3>1. proc[p].menu \in Menus /\ proc[p].target \in Menus /\ proc[p].target # proc[p].menu
      BY <2>1, <2>4 DEF Working
    <3>2. proc[p].menu \in Nat /\ proc[p].target \in Nat BY <3>1 DEF IInv, MenuCardsAssumption
    <3>3. Held(p) = {LockedFirst(p)} /\ Asked(p) = LockedSecond(p) BY <2>4 DEF Held, Asked, At
    <3> QED BY <3>1, <3>2, <3>3 DEF LockedFirst, LockedSecond
  <2>5. ~proc[p].held => Held(p) = {} BY DEF Held
  <2> QED BY <2>2, <2>3, <2>4, <2>5
<1> HIDE DEF Copying
\* Of those that copy, one has the last of the first menus.
<1>2. CASE Copying # {}
  <2> DEFINE Later(p) == {q \in Copying : LockedFirst(p) < LockedFirst(q)}
             Ranks == {Later(p) : p \in Copying}
  <2>1. Copying \subseteq Requests /\ Copying \subseteq S BY DEF Copying
  <2>2. IsFiniteSet(Copying) BY <2>1, FS_Subset DEF IInv, MenuCardsAssumption
  <2>3. Ranks \subseteq SUBSET Copying OBVIOUS
  <2>4. Ranks # {} BY <1>2
  <2> HIDE DEF Ranks
  <2>5. PICK rank \in Ranks : \A other \in Ranks : other \subseteq rank => other = rank
    BY <2>2, <2>3, <2>4, Smallest
  <2>6. PICK p \in Copying : rank = Later(p) BY DEF Ranks
  <2>7. PICK q \in S : LockedSecond(p) \in Held(q) BY <1>1, <2>1, <2>6
  <2>8. q \in Copying
    <3>1. LockedSecond(p) \in Menus BY <1>1, <2>1, <2>6
    <3>2. proc[q].held BY <1>1, <2>7
    <3>3. proc[q].at = "copy" BY <1>1, <2>7, <3>1, <3>2 DEF IInv, MenuCardsAssumption
    <3> QED BY <3>2, <3>3 DEF Copying
  <2>9. LockedFirst(q) = LockedSecond(p) BY <1>1, <2>7, <2>8
  <2>10. LockedFirst(p) < LockedFirst(q) BY <1>1, <2>1, <2>6, <2>9
  <2>11. \A r \in Copying : LockedFirst(r) \in Nat BY <1>1, <2>1 DEF IInv, MenuCardsAssumption
  <2>12. Later(q) \subseteq Later(p) /\ q \in Later(p) /\ q \notin Later(q)
    BY <2>6, <2>8, <2>10, <2>11
  <2>13. Later(q) \in Ranks BY <2>8 DEF Ranks
  <2> QED BY <2>5, <2>6, <2>12, <2>13
<1>3. CASE Copying = {}
  <2>1. PICK p \in S : TRUE OBVIOUS
  <2>2. PICK q \in S : Asked(p) \in Held(q) BY <2>1
  <2>3. proc[q].held BY <1>1, <2>2
  <2>4. proc[q].at # "copy" BY <1>3, <2>3 DEF Copying
  <2>5. PICK r \in S : Asked(q) \in Held(r) BY <2>2
  <2>6. proc[r].held BY <1>1, <2>5
  <2>7. proc[r].at # "copy" BY <1>3, <2>6 DEF Copying
  <2>8. Asked(q) \in Menus \cup {NoMenu} BY <1>1, <2>3, <2>4
  <2>9. Asked(q) \in Promotions BY <1>1, <2>5, <2>6, <2>7
  <2> QED BY <2>8, <2>9 DEF IInv, MenuCardsAssumption
<1> QED BY <1>2, <1>3

-----------------------------------------------------------------------------
(* The invariant, and what it means *)

LEMMA Initially ==
    ASSUME MenuCardsAssumption, Init
    PROVE  IInv
<1>1. Blank \in Document BY DEF Blank, Document
<1>2. TablesOK
  BY <1>1 DEF Init, TablesOK, MenuRecord, VersionRecord, PromotionRecord
<1>3. ProcInv
  <2>1. IdleProc \in ProcRecord /\ ~Holding(IdleProc) /\ Fits(IdleProc, version, promotion) BY IdleFits
  <2> QED BY <2>1 DEF Init, ProcInv, Exclusive
<1>4. VersionsInv
  BY DEF Init, VersionsInv, Once, Counted, NumberedOnce, PrintedAsSaved, Made
<1>5. OneCard /\ ListingMatchesCard BY DEF Init, OneCard, ListingMatchesCard
<1> QED BY <1>2, <1>3, <1>4, <1>5 DEF IInv

LEMMA Preserved ==
    ASSUME IInv, [Next]_vars
    PROVE  IInv'
<1>1. ASSUME NEW p \in Requests, EditMenu(p) PROVE IInv'
  BY <1>1, MenuReads, RestoreReads, SaveReads, PublishReads, CopyTargets, Renders, ArchivesMenu,
     MakesDraft, DraftSteps, Publishes, Zenon DEF EditMenu
<1>2. ASSUME NEW p \in Requests, EditPromotion(p) PROVE IInv'
  BY <1>2, PromotionReads, PromotionSteps, LoadsCard, ListSteps, Zenon DEF EditPromotion
<1>3. ASSUME NEW p \in Requests, Lock(p) \/ Leave(p) PROVE IInv'
  BY <1>3, Locks, Leaves
<1>4. CASE UNCHANGED vars
  <2>1. TablesOK' /\ OneCard' /\ ListingMatchesCard'
    BY <1>4 DEF vars, IInv, TablesOK, OneCard, ListingMatchesCard
  <2>2. ProcInv' BY <1>4 DEF vars, IInv, ProcInv, Exclusive
  <2>3. VersionsInv'
    BY <1>4 DEF vars, IInv, VersionsInv, Once, Counted, NumberedOnce, PrintedAsSaved, Made
  <2> QED BY <2>1, <2>2, <2>3 DEF IInv
<1> QED BY <1>1, <1>2, <1>3, <1>4 DEF Next

LEMMA AtMostOne ==
    ASSUME NEW S, \A v, w \in S : v = w
    PROVE  Cardinality(S) <= 1
<1>1. CASE S = {} BY <1>1, FS_EmptySet
<1>2. CASE S # {}
  <2>1. PICK v \in S : TRUE BY <1>2
  <2>2. S = {v} BY <2>1
  <2> QED BY <2>2, FS_Singleton
<1> QED BY <1>1, <1>2

LEMMA Means ==
    ASSUME IInv
    PROVE  VersionsKept /\ ListingMatchesCard
<1>1. ASSUME NEW m \in Menus, NEW s \in {"DRAFT", "PUBLISHED"} PROVE Cardinality(Rows(m, s)) <= 1
  <2>1. \A v, w \in Rows(m, s) : v = w BY DEF Rows, IInv, VersionsInv, Once
  <2> QED BY <2>1, AtMostOne
<1>2. OneOfEach BY <1>1 DEF OneOfEach
<1> QED BY <1>2 DEF VersionsKept, IInv, VersionsInv

\* Whatever is saved, copied, discarded, restored, published and reprinted at
\* once, a menu keeps one draft and one live version at most, a version number
\* names one version for ever, and what a version printed is what was saved:
\* lockMenus, nextVersionNumber and commitPublish, for any number of rows.
THEOREM VersionsAreKept == MenuCardsAssumption /\ Spec => []VersionsKept
<1>1. MenuCardsAssumption /\ Init => IInv BY Initially
<1>2. IInv /\ [Next]_vars => IInv' BY Preserved
<1>3. IInv => VersionsKept BY Means
<1> QED BY <1>1, <1>2, <1>3, PTL DEF Spec

\* A listing on the website and the PDF it links say the same offer, though the
\* promotion was edited and the card saved or reprinted while it was rendered.
THEOREM ListingsMatchTheirCards == MenuCardsAssumption /\ Spec => []ListingMatchesCard
<1>1. MenuCardsAssumption /\ Init => IInv BY Initially
<1>2. IInv /\ [Next]_vars => IInv' BY Preserved
<1>3. IInv => ListingMatchesCard BY Means
<1> QED BY <1>1, <1>2, <1>3, PTL DEF Spec

\* Transactions that lock two menus, or a promotion and a menu, never wait for
\* one another in a circle: lockMenus in id order, and promotions before menus.
THEOREM LocksAreOrdered == MenuCardsAssumption /\ Spec => []NobodyWaitsInACircle
<1>1. MenuCardsAssumption /\ Init => IInv BY Initially
<1>2. IInv /\ [Next]_vars => IInv' BY Preserved
<1>3. IInv => NobodyWaitsInACircle BY NoCircle
<1> QED BY <1>1, <1>2, <1>3, PTL DEF Spec

\* Who saves or publishes with the updatedAt of his page writes over what he saw,
\* a published version is never changed, and an archived menu stays as it is,
\* though the request began before: checkUpdatedAt and lockActiveMenu.
THEOREM EditsAreRespected == MenuCardsAssumption /\ Spec => EditsRespected
<1>1. MenuCardsAssumption /\ Init => IInv BY Initially
<1>2. IInv /\ [Next]_vars => IInv' BY Preserved
<1>3. IInv /\ [Next]_vars => [NothingOverwritten /\ ShownStays /\ ArchivedStays]_vars
  BY EditsRespectedByStep
<1> QED BY <1>1, <1>2, <1>3, PTL DEF Spec, EditsRespected
===============================================================================
