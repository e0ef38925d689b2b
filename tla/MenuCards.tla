------------------------------- MODULE MenuCards -------------------------------
(***************************************************************************)
(* Menus with their drafts and published versions, and the promotions that *)
(* print a card from one and list it on the website.                       *)
(*                                                                         *)
(* A request reads what it needs, renders a page for seconds, and then     *)
(* writes in one transaction that first locks the rows of the menus and of *)
(* the promotion it is about.  Whatever a transaction finds changed        *)
(* refuses it: Leave abandons a request at any step, which is also its     *)
(* validation error, its lost race and its death, and gives back its locks.*)
(***************************************************************************)
EXTENDS Naturals, FiniteSets, FiniteSetsExt

CONSTANTS
    Menus,         \* ids, in the order in which rows are locked
    Versions,      \* ids of version rows, in the order in which they are made
    Promotions, Requests, Dishes, Offers,
    NoMenu, NoVersion, NoPromotion, NoOffer,
    MaxSaves,      \* bound: how often a draft is written
    MaxEdits       \* bound: how often a promotion is written

MenuCardsAssumption ==
    /\ Menus \subseteq Nat /\ Versions \subseteq Nat
    /\ NoMenu \notin Menus /\ NoVersion \notin Versions /\ NoPromotion \notin Promotions
    /\ NoOffer \notin Offers
    /\ Menus \cap Promotions = {} /\ NoMenu \notin Promotions
    /\ IsFiniteSet(Requests)
    /\ MaxSaves \in Nat /\ MaxEdits \in Nat

VARIABLES
    menu,          \* the Menu table
    version,       \* the MenuVersion table with its sections and items
    promotion,     \* the Promotion table
    listings,      \* the PromotionPublication rows
    proc           \* the requests, and the editor page a save comes from

vars == <<menu, version, promotion, listings, proc>>

-----------------------------------------------------------------------------
(* Types *)

\* What a menu says: its dishes, and the when-line, price and conditions that a
\* card prints for its promotion.
Document == [dishes : SUBSET Dishes, offer : Offers \cup {NoOffer}]

\* "NONE" is a row that does not exist yet.
MenuRecord == [status : {"NONE", "ACTIVE", "ARCHIVED"}, versionCounter : Nat]

\* doc is the rows of a version, printed the snapshot it was published with;
\* updatedAt counts the writes of a draft, laid is its count when its sections
\* were last replaced.  "GONE" is a row that was deleted.
VersionRecord ==
    [state : {"NONE", "DRAFT", "PUBLISHED", "ARCHIVED", "GONE"}, menu : Menus \cup {NoMenu},
     versionNumber : Nat, doc : Document, printed : Document, updatedAt : Nat, laid : Nat]

PromotionRecord ==
    [status : {"NONE", "DRAFT", "PUBLISHED", "HIDDEN", "ENDED"}, offer : Offers \cup {NoOffer},
     card : Menus \cup {NoMenu}, updatedAt : Nat]

\* A listing says an offer and links the PDF of a version of the card.
ListingRecord ==
    [of : Promotions, offer : Offers \cup {NoOffer}, card : Versions \cup {NoVersion}]

\* menu and target are the menus a request works on; draft with stamp and laid,
\* live, from and doc what it read of them; seen the dishes on the page a person
\* looked at, or the one to copy; firm an expectedUpdatedAt that came with the
\* request, or the yes to replacing a draft; offer, row and status what it read
\* of the promotion or will write to it; held the first lock of two.
ProcRecord ==
    [at : {"idle", "create", "draft", "edit", "save", "discard", "render", "publish", "restore",
           "target", "copy", "promote", "amend", "status", "card", "print", "list"},
     menu : Menus \cup {NoMenu}, target : Menus \cup {NoMenu}, draft : Versions \cup {NoVersion},
     stamp : Nat, laid : Nat, live : Versions \cup {NoVersion}, from : Versions \cup {NoVersion},
     doc : Document, seen : SUBSET Dishes, firm : BOOLEAN, then : {"idle", "target"},
     promotion : Promotions \cup {NoPromotion}, row : Nat, offer : Offers \cup {NoOffer},
     status : {"NONE", "PUBLISHED", "HIDDEN", "ENDED"}, held : BOOLEAN]

TypeOK ==
    /\ menu \in [Menus -> MenuRecord]
    /\ version \in [Versions -> VersionRecord]
    /\ promotion \in [Promotions -> PromotionRecord]
    /\ listings \subseteq ListingRecord
    /\ proc \in [Requests -> ProcRecord]

Blank == [dishes |-> {}, offer |-> NoOffer]

IdleProc ==
    [at |-> "idle", menu |-> NoMenu, target |-> NoMenu, draft |-> NoVersion, stamp |-> 0,
     laid |-> 0, live |-> NoVersion, from |-> NoVersion, doc |-> Blank, seen |-> {}, firm |-> FALSE,
     then |-> "idle", promotion |-> NoPromotion, row |-> 0, offer |-> NoOffer,
     status |-> "NONE", held |-> FALSE]

Init ==
    /\ menu = [m \in Menus |-> [status |-> "NONE", versionCounter |-> 0]]
    /\ version = [v \in Versions |->
          [state |-> "NONE", menu |-> NoMenu, versionNumber |-> 0, doc |-> Blank,
           printed |-> Blank, updatedAt |-> 0, laid |-> 0]]
    /\ promotion = [q \in Promotions |->
          [status |-> "NONE", offer |-> NoOffer, card |-> NoMenu, updatedAt |-> 0]]
    /\ listings = {}
    /\ proc = [p \in Requests |-> IdleProc]

-----------------------------------------------------------------------------
(* Rows and locks *)

At(p, step) == proc[p].at = step

Become(p, next) == proc' = [proc EXCEPT ![p] = next]

Begin(p, next) == At(p, "idle") /\ Become(p, next) /\ UNCHANGED <<menu, version, promotion, listings>>

Rows(m, state) == {v \in Versions : version[v].menu = m /\ version[v].state = state}

\* findFirst.
First(rows) == IF rows = {} THEN NoVersion ELSE CHOOSE v \in rows : TRUE

Draft(m) == First(Rows(m, "DRAFT"))

Live(m) == First(Rows(m, "PUBLISHED"))

\* A draft reads as its rows, any other version as it was printed.
DocumentFor(v) == IF version[v].state = "DRAFT" THEN version[v].doc ELSE version[v].printed

CardOf(m) == {q \in Promotions : promotion[q].card = m}

\* "A promotion's card prints the promotion's when-line, hero price and conditions."
WithPromotion(m, doc) ==
    IF CardOf(m) = {} THEN doc
    ELSE [doc EXCEPT !.offer = promotion[CHOOSE q \in CardOf(m) : TRUE].offer]

\* The menu the dish comes from, then the one it goes to.
LockedFirstUnsorted(p) == proc[p].menu

\* Rows are locked one at a time in id order.
LockedFirst(p) == IF proc[p].menu < proc[p].target THEN proc[p].menu ELSE proc[p].target

LockedSecond(p) == IF LockedFirst(p) = proc[p].menu THEN proc[p].target ELSE proc[p].menu

\* The rows that the transaction of p holds, and the one it asks for next.
Held(p) ==
    IF ~proc[p].held THEN {}
    ELSE IF At(p, "copy") THEN {LockedFirst(p)} ELSE {proc[p].promotion}

Asked(p) ==
    CASE At(p, "copy") -> IF proc[p].held THEN LockedSecond(p) ELSE LockedFirst(p)
      [] proc[p].at \in {"amend", "status", "list"} ->
            IF proc[p].held THEN proc[p].menu ELSE proc[p].promotion
      [] OTHER -> proc[p].menu

Unlocked(p) == \A q \in Requests \ {p} : Asked(p) \notin Held(q)

Active(m) == menu[m].status = "ACTIVE"

\* Locks the menu of p and confirms that it is still live.
LockActiveMenu(p) == Unlocked(p) /\ Active(proc[p].menu)

\* Two changes of a promotion are not compared.
LockUncompared(p) ==
    /\ proc[p].at \in {"copy", "amend", "status", "list"}
    /\ ~proc[p].held
    /\ Unlocked(p)
    /\ Become(p, [proc[p] EXCEPT !.held = TRUE])
    /\ UNCHANGED <<menu, version, promotion, listings>>

\* The first of two locks.
Lock(p) ==
    /\ proc[p].at \in {"copy", "amend", "status", "list"}
    /\ ~proc[p].held
    /\ Unlocked(p)
    /\ proc[p].at \in {"amend", "list"} => promotion[proc[p].promotion].updatedAt = proc[p].row
    /\ Become(p, [proc[p] EXCEPT !.held = TRUE])
    /\ UNCHANGED <<menu, version, promotion, listings>>

\* A transaction commits: its request is answered and its locks are given back.
Commit(p) == Become(p, IdleProc)

Leave(p) == ~At(p, "idle") /\ Become(p, IdleProc) /\ UNCHANGED <<menu, version, promotion, listings>>

-----------------------------------------------------------------------------
(* Drafts *)

\* The number after the highest there is.
NumberAfterHighest(m) ==
    Max({0} \cup {version[v].versionNumber : v \in
        {w \in Versions : version[w].menu = m /\ version[w].state # "GONE"}}) + 1

\* From the menu's own counter, unless a row is ahead of it.
NextVersionNumber(m) ==
    LET bumped == menu[m].versionCounter + 1
        ahead == {v \in Versions : version[v].menu = m /\ version[v].state # "GONE"
                                    /\ version[v].versionNumber >= bumped}
    IN  IF ahead = {} THEN bumped ELSE NumberAfterHighest(m)

\* The id of the next row.
Unused(v) ==
    /\ version[v].state = "NONE"
    /\ \A w \in Versions : version[w].state = "NONE" => v <= w

DraftRow(m, doc) ==
    [state |-> "DRAFT", menu |-> m, versionNumber |-> NextVersionNumber(m), doc |-> doc,
     printed |-> Blank, updatedAt |-> 0, laid |-> 0]

Numbered(m) == menu' = [menu EXCEPT ![m].versionCounter = NextVersionNumber(m)]

\* copyFromMenuId: what is live of it, or its draft.
CreateMenuRead(p, m, source) ==
    LET from == IF Live(source) # NoVersion THEN Live(source) ELSE Draft(source)
    IN  /\ menu[m].status = "NONE"
        /\ source # NoMenu => from # NoVersion
        /\ Begin(p, [IdleProc EXCEPT !.at = "create", !.menu = m,
                        !.doc = IF source = NoMenu THEN Blank ELSE DocumentFor(from)])

\* A name is taken once.
CreateMenu(p, v) ==
    LET m == proc[p].menu
    IN  /\ At(p, "create")
        /\ menu[m].status = "NONE" /\ Unused(v)
        /\ menu' = [menu EXCEPT ![m] = [status |-> "ACTIVE", versionCounter |-> 1]]
        /\ version' = [version EXCEPT ![v] = DraftRow(m, proc[p].doc)]
        /\ Commit(p)
        /\ UNCHANGED <<promotion, listings>>

\* The locked row says whether there is something to do.
ArchiveMenu(p, m) ==
    /\ At(p, "idle")
    /\ menu[m].status # "NONE"
    /\ \A q \in Requests : m \notin Held(q)
    /\ menu' = [menu EXCEPT ![m].status = IF @ = "ACTIVE" THEN "ARCHIVED" ELSE "ACTIVE"]
    /\ UNCHANGED <<version, promotion, listings, proc>>

\* What a new draft starts from: the live version or nothing.
FromLive(m) ==
    WithPromotion(m, IF Live(m) = NoVersion THEN Blank ELSE DocumentFor(Live(m)))

CreateDraftRead(p, m) ==
    /\ Active(m)
    /\ Begin(p, [IdleProc EXCEPT !.at = "draft", !.menu = m, !.doc = FromLive(m)])

\* One draft at most.
NoDraft(m) == Rows(m, "DRAFT") = {}

CreateDraft(p, v) ==
    LET m == proc[p].menu
    IN  /\ At(p, "draft")
        /\ LockActiveMenu(p)
        /\ NoDraft(m) /\ Unused(v)
        /\ Numbered(m)
        /\ version' = [version EXCEPT ![v] = DraftRow(m, proc[p].doc)]
        /\ IF proc[p].then = "idle" THEN Commit(p)
           ELSE Become(p, [proc[p] EXCEPT !.at = "target", !.menu = proc[p].target,
                                          !.target = m, !.then = "idle", !.doc = Blank])
        /\ UNCHANGED <<promotion, listings>>

\* getDraft: the page a person edits or looks through before publishing.
OpenDraft(p, m, firm) ==
    LET d == Draft(m)
    IN  /\ d # NoVersion
        /\ Begin(p, [IdleProc EXCEPT !.at = "edit", !.menu = m, !.draft = d, !.firm = firm,
                        !.stamp = version[d].updatedAt, !.doc = version[d].doc,
                        !.seen = version[d].doc.dishes])

\* checkUpdatedAt: the draft is the one the page was opened on.
SameDraft(p, d) == d = proc[p].draft /\ version[d].updatedAt = proc[p].stamp

\* A save that changes nothing is not a write.
SaveDraftRead(p, dishes) ==
    LET m == proc[p].menu
        d == Draft(m)
        next == WithPromotion(m, [proc[p].doc EXCEPT !.dishes = dishes])
    IN  /\ At(p, "edit")
        /\ Active(m) /\ d # NoVersion
        /\ proc[p].firm => SameDraft(p, d)
        /\ next # version[d].doc
        /\ version[d].updatedAt < MaxSaves
        /\ Become(p, [proc[p] EXCEPT !.at = "save", !.draft = d, !.doc = next,
                                     !.stamp = version[d].updatedAt])
        /\ UNCHANGED <<menu, version, promotion, listings>>

\* checkUpdatedAt is all there is.
GuardedByRead(p) == version[proc[p].draft].state = "DRAFT"

\* A row that is a draft still, and unchanged if the editor asked for that.
Guarded(p) ==
    /\ version[proc[p].draft].state = "DRAFT"
    /\ proc[p].firm => version[proc[p].draft].updatedAt = proc[p].stamp

Written(d, doc) ==
    LET n == version[d].updatedAt + 1
    IN  [version[d] EXCEPT !.doc = doc, !.updatedAt = n]

SaveDraft(p) ==
    LET d == proc[p].draft
    IN  /\ At(p, "save")
        /\ LockActiveMenu(p)
        /\ Guarded(p)
        /\ version' = [version EXCEPT ![d] =
              [Written(d, proc[p].doc) EXCEPT !.laid = version[d].updatedAt + 1]]
        /\ Commit(p)
        /\ UNCHANGED <<menu, promotion, listings>>

DiscardDraftRead(p, m) ==
    /\ Active(m) /\ Draft(m) # NoVersion
    /\ Begin(p, [IdleProc EXCEPT !.at = "discard", !.menu = m, !.draft = Draft(m)])

DiscardDraft(p) ==
    /\ At(p, "discard")
    /\ LockActiveMenu(p)
    /\ version[proc[p].draft].state = "DRAFT"
    /\ version' = [version EXCEPT ![proc[p].draft].state = "GONE"]
    /\ Commit(p)
    /\ UNCHANGED <<menu, promotion, listings>>

\* replaceDraft is what the person confirmed.
RestoreRead(p, v, replaceDraft) ==
    LET m == version[v].menu
    IN  /\ version[v].state \in {"PUBLISHED", "ARCHIVED"}
        /\ Active(m)
        /\ Draft(m) # NoVersion => replaceDraft
        /\ Begin(p, [IdleProc EXCEPT !.at = "restore", !.menu = m, !.firm = replaceDraft,
                        !.doc = DocumentFor(v)])

\* The draft that is there by now is deleted and the version becomes a new one.
Restore(p, v) ==
    LET m == proc[p].menu
    IN  /\ At(p, "restore")
        /\ LockActiveMenu(p)
        /\ Draft(m) # NoVersion => proc[p].firm
        /\ Unused(v)
        /\ Numbered(m)
        /\ version' = [w \in Versions |->
              IF w = v THEN DraftRow(m, proc[p].doc)
              ELSE IF w = Draft(m) THEN [version[w] EXCEPT !.state = "GONE"] ELSE version[w]]
        /\ Commit(p)
        /\ UNCHANGED <<promotion, listings>>

\* A dish of the draft of m for the draft of another menu.
CopyItemRead(p, m, target, dish) ==
    /\ m # target
    /\ Active(m) /\ Active(target)
    /\ Draft(m) # NoVersion /\ dish \in version[Draft(m)].doc.dishes
    /\ Begin(p, [IdleProc EXCEPT !.at = "target", !.menu = m, !.target = target,
                    !.seen = {dish}])

\* Without a draft to copy to, one is made first, in a transaction of its own.
CopyTarget(p) ==
    LET target == proc[p].target
        d == Draft(target)
    IN  /\ At(p, "target")
        /\ \/ /\ d # NoVersion /\ version[d].updatedAt < MaxSaves
              /\ Become(p, [proc[p] EXCEPT !.at = "copy", !.draft = d, !.laid = version[d].laid])
           \/ /\ d = NoVersion /\ Active(target)
              /\ Become(p, [proc[p] EXCEPT !.at = "draft", !.menu = target, !.then = "target",
                                           !.target = proc[p].menu, !.doc = FromLive(target)])
        /\ UNCHANGED <<menu, version, promotion, listings>>

\* The section is looked up in a draft; a save would have replaced it.
StillThere(p) ==
    /\ version[proc[p].draft].state = "DRAFT"
    /\ version[proc[p].draft].laid = proc[p].laid

CopyItem(p) ==
    LET d == proc[p].draft
    IN  /\ At(p, "copy") /\ proc[p].held
        /\ Unlocked(p)
        /\ Active(proc[p].menu) /\ Active(proc[p].target)
        /\ StillThere(p)
        /\ version' = [version EXCEPT ![d] =
              Written(d, [dishes |-> version[d].doc.dishes \cup proc[p].seen,
                          offer |-> version[d].doc.offer])]
        /\ Commit(p)
        /\ UNCHANGED <<menu, promotion, listings>>

-----------------------------------------------------------------------------
(* Publishing a menu *)

\* The page that is printed is the draft with the promotion as it is now.
PublishRead(p) ==
    LET m == proc[p].menu
        d == Draft(m)
    IN  /\ At(p, "edit")
        /\ Active(m) /\ d # NoVersion
        /\ proc[p].firm => SameDraft(p, d)
        /\ Become(p, [proc[p] EXCEPT !.at = "render", !.draft = d,
                        !.stamp = version[d].updatedAt, !.doc = WithPromotion(m, version[d].doc)])
        /\ UNCHANGED <<menu, version, promotion, listings>>

\* preparePublish: the live version is read when the page is rendered.
Render(p) ==
    /\ proc[p].at \in {"render", "print"}
    /\ Become(p, [proc[p] EXCEPT !.at = IF At(p, "render") THEN "publish" ELSE "list",
                                 !.live = Live(proc[p].menu)])
    /\ UNCHANGED <<menu, version, promotion, listings>>

\* Only that it is a draft still.
UnmovedOrSaved(p) == version[proc[p].draft].state = "DRAFT"

\* The draft is the one that was rendered.
Unmoved(p) ==
    /\ version[proc[p].draft].state = "DRAFT"
    /\ version[proc[p].draft].updatedAt = proc[p].stamp

\* commitPublish: row becomes the live version v in place of the one before.
CommitPublish(p, v, row) ==
    /\ Live(proc[p].menu) = proc[p].live
    /\ version' = [w \in Versions |->
          IF w = v THEN [row EXCEPT !.state = "PUBLISHED", !.printed = proc[p].doc]
          ELSE IF w = proc[p].live THEN [version[w] EXCEPT !.state = "ARCHIVED"] ELSE version[w]]

Publish(p) ==
    /\ At(p, "publish")
    /\ LockActiveMenu(p)
    /\ Unmoved(p)
    /\ CommitPublish(p, proc[p].draft, version[proc[p].draft])
    /\ Commit(p)
    /\ UNCHANGED <<menu, promotion, listings>>

-----------------------------------------------------------------------------
(* Promotions *)

\* requireLinkableCard.
Linkable(m) == Active(m) /\ CardOf(m) = {}

CreatePromotionRead(p, q, offer, card) ==
    /\ promotion[q].status = "NONE"
    /\ card # NoMenu => Linkable(card)
    /\ Begin(p, [IdleProc EXCEPT !.at = "promote", !.promotion = q, !.offer = offer, !.menu = card])

\* A card belongs to one promotion; its row is not locked by anybody else.
CreatePromotion(p) ==
    LET q == proc[p].promotion
        card == proc[p].menu
    IN  /\ At(p, "promote")
        /\ Unlocked(p)
        /\ promotion[q].status = "NONE"
        /\ card # NoMenu => CardOf(card) = {}
        /\ promotion' = [promotion EXCEPT ![q] =
              [status |-> "DRAFT", offer |-> proc[p].offer, card |-> card, updatedAt |-> 0]]
        /\ Commit(p)
        /\ UNCHANGED <<menu, version, listings>>

Editable(q) == promotion[q].status # "NONE" /\ promotion[q].updatedAt < MaxEdits

UpdatePromotionRead(p, q, offer, card) ==
    /\ Editable(q)
    /\ <<offer, card>> # <<promotion[q].offer, promotion[q].card>>
    /\ card \notin {NoMenu, promotion[q].card} => Linkable(card)
    /\ Begin(p, [IdleProc EXCEPT !.at = "amend", !.promotion = q, !.row = promotion[q].updatedAt,
                    !.offer = offer, !.menu = card])

UpdatePromotion(p) ==
    LET q == proc[p].promotion
        card == proc[p].menu
    IN  /\ At(p, "amend") /\ proc[p].held
        /\ Unlocked(p)
        /\ card # NoMenu => CardOf(card) \subseteq {q}
        /\ promotion' = [promotion EXCEPT ![q].offer = proc[p].offer, ![q].card = card,
                                          ![q].updatedAt = @ + 1]
        /\ Commit(p)
        /\ UNCHANGED <<menu, version, listings>>

\* hide a live promotion, show one that has a listing, end one.
SetStatusRead(p, q, status) ==
    /\ Editable(q)
    /\ CASE status = "HIDDEN" -> promotion[q].status = "PUBLISHED"
         [] status = "PUBLISHED" -> promotion[q].status # "PUBLISHED" /\ \E l \in listings : l.of = q
         [] status = "ENDED" -> promotion[q].status # "ENDED"
    /\ Begin(p, [IdleProc EXCEPT !.at = "status", !.promotion = q, !.status = status,
                    !.menu = promotion[q].card])

\* Whatever the status is by now.
SetStatus(p) ==
    /\ At(p, "status") /\ proc[p].held
    /\ Unlocked(p)
    /\ promotion' = [promotion EXCEPT ![proc[p].promotion].status = proc[p].status,
                                      ![proc[p].promotion].updatedAt = @ + 1]
    /\ Commit(p)
    /\ UNCHANGED <<menu, version, listings>>

-----------------------------------------------------------------------------
(* Publishing a promotion *)

ListRead(p, q) ==
    /\ Editable(q)
    /\ Begin(p, [IdleProc EXCEPT !.at = "card", !.promotion = q, !.row = promotion[q].updatedAt,
                    !.offer = promotion[q].offer, !.menu = promotion[q].card])

\* loadCard and what is to be done with the card: its draft is published, the
\* live version is printed again because the promotion moved on, or it is
\* listed as it is; an archived card and one never published are not listed.
LoadCard(p) ==
    LET m == proc[p].menu
        d == Draft(m)
        l == Live(m)
        again == WithPromotion(m, DocumentFor(l))
        next ==
            IF m = NoMenu \/ (m # NoMenu /\ ~Active(m)) THEN [proc[p] EXCEPT !.at = "list"]
            ELSE IF d # NoVersion THEN
                [proc[p] EXCEPT !.at = "print", !.draft = d, !.stamp = version[d].updatedAt,
                                !.doc = WithPromotion(m, version[d].doc)]
            ELSE IF l = NoVersion THEN [proc[p] EXCEPT !.at = "list"]
            ELSE IF again = DocumentFor(l) THEN [proc[p] EXCEPT !.at = "list", !.live = l]
            ELSE [proc[p] EXCEPT !.at = "print", !.from = l, !.doc = again]
    IN  /\ At(p, "card")
        /\ Become(p, next)
        /\ UNCHANGED <<menu, version, promotion, listings>>

Listed(p, card) ==
    /\ listings' = listings \cup {[of |-> proc[p].promotion, offer |-> proc[p].offer, card |-> card]}
    /\ promotion' = [promotion EXCEPT ![proc[p].promotion].status = "PUBLISHED",
                                      ![proc[p].promotion].updatedAt = @ + 1]
    /\ Commit(p)

\* Under the lock of the promotion, then that of the card.
List(p) == At(p, "list") /\ proc[p].held /\ Unlocked(p)

\* The card is listed as it is, or there is none to list.
ListAsIs(p) ==
    /\ List(p)
    /\ proc[p].draft = NoVersion /\ proc[p].from = NoVersion
    /\ Listed(p, proc[p].live)
    /\ UNCHANGED <<menu, version>>

ListWithDraft(p) ==
    /\ List(p) /\ proc[p].draft # NoVersion
    /\ Active(proc[p].menu)
    /\ Unmoved(p)
    /\ CommitPublish(p, proc[p].draft, version[proc[p].draft])
    /\ Listed(p, proc[p].draft)
    /\ UNCHANGED menu

\* A draft that is made and published at once.
ListReprinted(p, v) ==
    LET m == proc[p].menu
    IN  /\ List(p) /\ proc[p].from # NoVersion
        /\ Active(m)
        /\ NoDraft(m) /\ Unused(v)
        /\ Numbered(m)
        /\ CommitPublish(p, v, DraftRow(m, proc[p].doc))
        /\ Listed(p, v)

-----------------------------------------------------------------------------
(* Specification *)

EditMenu(p) ==
    \/ \E m \in Menus :
          \/ \E source \in Menus \cup {NoMenu} : CreateMenuRead(p, m, source)
          \/ ArchiveMenu(p, m)
          \/ CreateDraftRead(p, m)
          \/ \E firm \in BOOLEAN : OpenDraft(p, m, firm)
          \/ DiscardDraftRead(p, m)
          \/ \E target \in Menus, dish \in Dishes : CopyItemRead(p, m, target, dish)
    \/ \E v \in Versions, replaceDraft \in BOOLEAN : RestoreRead(p, v, replaceDraft)
    \/ \E dishes \in SUBSET Dishes : SaveDraftRead(p, dishes)
    \/ PublishRead(p)
    \/ \E v \in Versions : CreateMenu(p, v) \/ CreateDraft(p, v) \/ Restore(p, v)
    \/ SaveDraft(p) \/ DiscardDraft(p) \/ CopyTarget(p) \/ CopyItem(p)
    \/ Render(p) \/ Publish(p)

EditPromotion(p) ==
    \/ \E q \in Promotions :
          \/ \E offer \in Offers, card \in Menus \cup {NoMenu} :
                CreatePromotionRead(p, q, offer, card) \/ UpdatePromotionRead(p, q, offer, card)
          \/ \E status \in {"HIDDEN", "PUBLISHED", "ENDED"} : SetStatusRead(p, q, status)
          \/ ListRead(p, q)
    \/ CreatePromotion(p) \/ UpdatePromotion(p) \/ SetStatus(p)
    \/ LoadCard(p) \/ ListAsIs(p) \/ ListWithDraft(p)
    \/ \E v \in Versions : ListReprinted(p, v)

Next == \E p \in Requests : EditMenu(p) \/ EditPromotion(p) \/ Lock(p) \/ Leave(p)

Spec == Init /\ [][Next]_vars

-----------------------------------------------------------------------------
(* Properties *)

OneOfEach ==
    \A m \in Menus : Cardinality(Rows(m, "DRAFT")) <= 1 /\ Cardinality(Rows(m, "PUBLISHED")) <= 1

Made == {v \in Versions : version[v].state # "NONE"}

\* nextVersionNumber: "so a number is never handed out twice".
NumberedOnce ==
    \A v, w \in Made : v # w /\ version[v].menu = version[w].menu =>
        version[v].versionNumber # version[w].versionNumber

\* What was rendered is what the rows said when the version went live.
PrintedAsSaved ==
    \A v \in Made : version[v].state \in {"PUBLISHED", "ARCHIVED"} =>
        version[v].printed.dishes = version[v].doc.dishes

\* Whatever is saved, copied, discarded, restored and published at once: a menu
\* has one draft and one live version at most, a version number names one
\* version for ever, and what a version printed is what was saved.
VersionsKept == OneOfEach /\ NumberedOnce /\ PrintedAsSaved

\* "A publication lists the card version that printed those values ... so the
\* listing and the PDF cannot disagree."
ListingMatchesCard ==
    \A l \in listings : l.card # NoVersion =>
        /\ version[l.card].state \in {"PUBLISHED", "ARCHIVED"}
        /\ version[l.card].printed.offer = l.offer

\* lockMenus: "two transactions touching the same pair queue instead of
\* deadlocking", and neither do menus and promotions wait for one another.
NobodyWaitsInACircle ==
    \A S \in (SUBSET Requests) \ {{}} :
        \E p \in S : \A q \in S : Asked(p) \notin Held(q)

Frozen(m) ==
    \A v \in Versions : version[v].menu = m \/ version'[v].menu = m => version'[v] = version[v]

SameCard(m) == Frozen(m) /\ menu'[m].versionCounter = menu[m].versionCounter

\* A person who saves or publishes with the updatedAt of the page he has open
\* writes over what he saw.
NothingOverwritten ==
    \A p \in Requests :
        proc[p].at \in {"save", "publish"} /\ proc[p].firm /\ version' # version /\ proc'[p] # proc[p] =>
            version[proc[p].draft].doc.dishes = proc[p].seen

ShownStays ==
    \A v \in Versions : version[v].state \in {"PUBLISHED", "ARCHIVED"} =>
        /\ version'[v].state \in {"ARCHIVED", version[v].state}
        /\ version'[v].doc = version[v].doc /\ version'[v].printed = version[v].printed

ArchivedStays == \A m \in Menus : menu[m].status = "ARCHIVED" => SameCard(m)

\* Nobody writes over what somebody else saved meanwhile; what was published once
\* is never changed or deleted; and of an archived menu nothing changes, though
\* the request began before ("will find the menu archived"), until it is unarchived.
EditsRespected == [][NothingOverwritten /\ ShownStays /\ ArchivedStays]_vars
=============================================================================
