---------------------------- MODULE MCFrontOfHouse ----------------------------
(***************************************************************************)
(* Bookings, menus and promotions, and campaigns for TLC.  They share no   *)
(* rows: a behaviour is about one of them, one story at a time, and the    *)
(* others rest in an initial state.                                        *)
(***************************************************************************)
EXTENDS Reservations, TLC

CONSTANTS
    Menus, Versions, Promotions, Dishes, Offers, NoMenu, NoVersion, NoPromotion, NoOffer,
    MaxSaves, MaxEdits,                                      \* of MenuCards
    Guests, NoGuest                                          \* of Campaigns

VARIABLES
    part,                                                    \* what the behaviour is about
    menu, version, promotion, listings, editor,
    campaign, optedIn, recipient, mailed, sender

Cards == INSTANCE MenuCardsProofs WITH proc <- editor
Post == INSTANCE Campaigns WITH proc <- sender

ASSUME FrontAssumption == Cards!MenuCardsAssumption /\ Post!CampaignsAssumption

menuVars == <<menu, version, promotion, listings, editor>>
campaignVars == <<campaign, optedIn, recipient, mailed, sender>>
frontVars == <<part, vars, menuVars, campaignVars>>

FrontInit ==
    /\ part \in {"bookings", "menus", "campaign"}
    /\ Init /\ Cards!Init /\ Post!Init
    /\ part # "campaign" => optedIn = {}

FrontNext ==
    \/ part = "bookings" /\ Next /\ UNCHANGED <<part, menuVars, campaignVars>>
    \/ part = "menus" /\ Cards!Next /\ UNCHANGED <<part, vars, campaignVars>>
    \/ part = "campaign" /\ Post!Next /\ UNCHANGED <<part, vars, menuVars>>

FrontSpec == FrontInit /\ [][FrontNext]_frontVars

Symmetry == Permutations(Requests) \cup Permutations(Dishes) \cup Permutations(Offers)

-----------------------------------------------------------------------------
(* The bounds *)

\* A card on file is charged on the only booking there is; bookings without one
\* compete for the tables with the waiting list.
Sittings ==
    LET booked == {b \in Bookings : Exists(b)}
    IN  (\E b \in booked : reservation[b].card)
            \/ (\E p \in Requests : proc[p].at \in {"recheck", "insert"} /\ proc[p].card) =>
            Cardinality(booked) <= 1 /\ \A w \in Parties : ~waiting[w].joined

MenusMade == {m \in Menus : menu[m].status # "NONE"}

In(steps) == {p \in Requests : editor[p].at \in steps}

\* Nobody else edits.
Alone == Cardinality({p \in Requests : editor[p].at # "idle"}) <= 1

\* Menus are made in the order of their ids.
InOrder == \A m \in MenusMade, n \in Menus : n < m => n \in MenusMade

\* Two menus are there for copying dishes between their drafts: nothing is
\* published, and two requests at once have to do with a copy.
Copying ==
    Cardinality(MenusMade) = 2 =>
        /\ \A q \in Promotions : promotion[q].status = "NONE"
        /\ \A p \in Requests : editor[p].promotion = NoPromotion
        /\ \A v \in Versions : version[v].state \notin {"PUBLISHED", "ARCHIVED"}
        /\ In({"render", "publish", "restore"}) = {}
        /\ \A p \in In({"edit"}) : ~editor[p].firm
        /\ Alone \/ \A p \in In({"draft"}) : editor[p].then = "target"
        /\ Alone \/ \E p \in Requests : editor[p].target # NoMenu

\* Beside a promotion there is one request on up to two versions, or two of which
\* one is about the promotion, on empty cards that are neither archived nor
\* discarded.
Linked ==
    \/ \A q \in Promotions : promotion[q].status = "NONE"
    \/ Alone /\ Cardinality(Cards!Made) <= 2
    \/ /\ \A m \in MenusMade : menu[m].status = "ACTIVE"
       /\ \A v \in Cards!Made : version[v].state # "GONE" /\ version[v].doc.dishes = {}
       /\ \A q \in Promotions : promotion[q].status \in {"DRAFT", "PUBLISHED"}
       /\ In({"status", "discard", "restore"}) = {}
       /\ \A p \in In({"edit", "save"}) : editor[p].firm
       /\ \A p \in Requests : editor[p].doc.dishes = {}
       /\ \E p \in Requests : editor[p].promotion # NoPromotion

\* Two requests at once make the first menu, or none.
Making == Alone \/ MenusMade = {} \/ In({"create", "promote"}) = {}

-----------------------------------------------------------------------------
(* The properties of the others *)

\* One draft and one live version, numbers that are not reused, prints of what
\* was saved.
VersionsKept == Cards!VersionsKept

\* A listing and the PDF it links say the same.
ListingMatchesCard == Cards!ListingMatchesCard

\* Transactions on menus and promotions do not wait for one another in a circle.
NobodyWaitsInACircle == Cards!NobodyWaitsInACircle

\* Nobody writes over what he has not seen, nor into the past of a menu.
EditsRespected == Cards!EditsRespected

\* A live campaign reaches every guest once at most.
MailedOnce == Post!MailedOnce
=============================================================================
