------------------------------ MODULE Campaigns ------------------------------
(***************************************************************************)
(* One e-mail campaign to the guests of a venue: it is edited, simulated,  *)
(* tested and sent live, by people who click twice and requests that die.  *)
(*                                                                         *)
(* The code is services/marketing.service.ts.  A live send mails and logs  *)
(* one guest after another; Leave abandons a request at any step: an error,*)
(* a row that is there already, or its death.                              *)
(***************************************************************************)
EXTENDS Naturals

CONSTANTS Guests, Requests, NoGuest

CampaignsAssumption == NoGuest \notin Guests

VARIABLES
    campaign,      \* the MarketingCampaign row
    optedIn,       \* guests whose e-mail may be used
    recipient,     \* the MarketingCampaignRecipient rows, by guest
    mailed,        \* how often the campaign was mailed to a guest
    proc

vars == <<campaign, optedIn, recipient, mailed, proc>>

\* SCHEDULED and CANCELLED are as good as READY here.  simulatedAt is a test mark:
\* none, one of the last 24 hours, or an older one.
CampaignRecord ==
    [status : {"DRAFT", "READY", "SENT"}, simulatedAt : {"null", "recent", "old"}, sentAt : BOOLEAN]

\* consent is what was loaded of the guests, todo who is still to be mailed, status
\* the status that was read, guest and result the mail that is being logged.
ProcRecord ==
    [at : {"idle", "simulate", "test", "claim", "wipe", "send", "log"},
     status : {"DRAFT", "READY", "SENT"}, consent : SUBSET Guests, todo : SUBSET Guests,
     guest : Guests \cup {NoGuest}, result : {"SENT", "FAILED", "SKIPPED"}]

TypeOK ==
    /\ campaign \in CampaignRecord
    /\ optedIn \subseteq Guests
    /\ recipient \in [Guests -> {"NONE", "SIMULATED", "SKIPPED", "SENT", "FAILED"}]
    /\ mailed \in [Guests -> Nat]
    /\ proc \in [Requests -> ProcRecord]

IdleProc ==
    [at |-> "idle", status |-> "DRAFT", consent |-> {}, todo |-> {}, guest |-> NoGuest,
     result |-> "SKIPPED"]

Init ==
    /\ campaign = [status |-> "DRAFT", simulatedAt |-> "null", sentAt |-> FALSE]
    /\ optedIn \in SUBSET Guests
    /\ recipient = [g \in Guests |-> "NONE"]
    /\ mailed = [g \in Guests |-> 0]
    /\ proc = [p \in Requests |-> IdleProc]

At(p, step) == proc[p].at = step

Become(p, next) == proc' = [proc EXCEPT ![p] = next]

Tables == <<campaign, optedIn, recipient, mailed>>

Begin(p, next) == At(p, "idle") /\ Become(p, next) /\ UNCHANGED Tables

Leave(p) == ~At(p, "idle") /\ Become(p, IdleProc) /\ UNCHANGED Tables

-----------------------------------------------------------------------------
(* What comes before a send *)

\* A manager may set the status back as well.
UpdateCampaign(status) ==
    /\ campaign.status # status
    /\ campaign' = [campaign EXCEPT !.status = status]
    /\ UNCHANGED <<optedIn, recipient, mailed, proc>>

\* The link in the footer of a mail, both ways.
Unsubscribe(g) ==
    /\ optedIn' = IF g \in optedIn THEN optedIn \ {g} ELSE optedIn \cup {g}
    /\ UNCHANGED <<campaign, recipient, mailed, proc>>

\* 24 hours later.
TestGetsOld ==
    /\ campaign.simulatedAt = "recent"
    /\ campaign' = [campaign EXCEPT !.simulatedAt = "old"]
    /\ UNCHANGED <<optedIn, recipient, mailed, proc>>

SimulateRead(p) ==
    Begin(p, [IdleProc EXCEPT !.at = "simulate", !.status = campaign.status, !.consent = optedIn])

\* Whatever the rows say by now, a live send included.
Simulate(p) ==
    /\ At(p, "simulate")
    /\ recipient' = [g \in Guests |-> IF g \in proc[p].consent THEN "SIMULATED" ELSE "SKIPPED"]
    /\ campaign' = [campaign EXCEPT !.simulatedAt = "recent",
                       !.status = IF proc[p].status = "DRAFT" THEN "READY" ELSE proc[p].status]
    /\ Become(p, IdleProc)
    /\ UNCHANGED <<optedIn, mailed>>

\* The mail to the operator, delivered or not.
TestSend(p) == Begin(p, [IdleProc EXCEPT !.at = "test"])

TestMark(p) ==
    /\ At(p, "test")
    /\ campaign' = [campaign EXCEPT !.simulatedAt = "recent"]
    /\ Become(p, IdleProc)
    /\ UNCHANGED <<optedIn, recipient, mailed>>

-----------------------------------------------------------------------------
(* liveCampaignSend *)

LiveSendRead(p) ==
    /\ ~campaign.sentAt /\ campaign.simulatedAt = "recent"
    /\ Begin(p, [IdleProc EXCEPT !.at = "claim", !.consent = optedIn])

\* The check of the read is all there is.
ClaimOnRead(p) ==
    /\ At(p, "claim")
    /\ campaign' = [campaign EXCEPT !.sentAt = TRUE]
    /\ Become(p, [proc[p] EXCEPT !.at = "wipe"])
    /\ UNCHANGED <<optedIn, recipient, mailed>>

\* "Only one caller can flip sentAt."
Claim(p) ==
    /\ At(p, "claim")
    /\ ~campaign.sentAt
    /\ campaign' = [campaign EXCEPT !.sentAt = TRUE]
    /\ Become(p, [proc[p] EXCEPT !.at = "wipe"])
    /\ UNCHANGED <<optedIn, recipient, mailed>>

Wipe(p) ==
    /\ At(p, "wipe")
    /\ recipient' = [g \in Guests |-> "NONE"]
    /\ Become(p, [proc[p] EXCEPT !.at = "send", !.todo = Guests])
    /\ UNCHANGED <<campaign, optedIn, mailed>>

\* The next guest is mailed if he had consented when the audience was loaded.
Mail(p, g, result) ==
    /\ At(p, "send") /\ g \in proc[p].todo
    /\ (result = "SKIPPED") <=> (g \notin proc[p].consent)
    /\ mailed' = IF result = "SENT" THEN [mailed EXCEPT ![g] = @ + 1] ELSE mailed
    /\ Become(p, [proc[p] EXCEPT !.at = "log", !.todo = @ \ {g}, !.guest = g, !.result = result])
    /\ UNCHANGED <<campaign, optedIn, recipient>>

\* One row per contact: another one is an error, and the end of the send.
Log(p) ==
    /\ At(p, "log")
    /\ recipient[proc[p].guest] = "NONE"
    /\ recipient' = [recipient EXCEPT ![proc[p].guest] = proc[p].result]
    /\ Become(p, [proc[p] EXCEPT !.at = "send", !.guest = NoGuest])
    /\ UNCHANGED <<campaign, optedIn, mailed>>

Finish(p) ==
    /\ At(p, "send") /\ proc[p].todo = {}
    /\ campaign' = [campaign EXCEPT !.status = "SENT"]
    /\ Become(p, IdleProc)
    /\ UNCHANGED <<optedIn, recipient, mailed>>

-----------------------------------------------------------------------------
(* Specification *)

Serve(p) ==
    \/ SimulateRead(p) \/ Simulate(p) \/ TestSend(p) \/ TestMark(p)
    \/ LiveSendRead(p) \/ Claim(p) \/ Wipe(p)
    \/ \E g \in Guests, result \in {"SENT", "FAILED", "SKIPPED"} : Mail(p, g, result)
    \/ Log(p) \/ Finish(p) \/ Leave(p)

Next ==
    \/ \E status \in {"DRAFT", "READY", "SENT"} : UpdateCampaign(status)
    \/ \E g \in Guests : Unsubscribe(g)
    \/ TestGetsOld
    \/ \E p \in Requests : Serve(p)

Spec == Init /\ [][Next]_vars

-----------------------------------------------------------------------------
(* Properties *)

\* "A retry after a mid-loop failure can't re-send to everyone": however often
\* the button is pressed, a request dies, the campaign is simulated again or set
\* back to a draft, no guest gets it twice, and a row that says SENT is true.
MailedOnce ==
    \A g \in Guests : mailed[g] <= 1 /\ (recipient[g] = "SENT" => mailed[g] = 1)
=============================================================================
