------------------------------ MODULE ShiftSwaps ------------------------------
(***************************************************************************)
(* Shifts that are open or offered to the team, the people who ask for     *)
(* them and the managers who decide.                                       *)
(*                                                                         *)
(* The code is services/staff.service.ts with the rules of                 *)
(* packages/shared/src/shift-claims.ts.  A request reads the shift, looks  *)
(* for clashes, and writes; Leave abandons it at any step, which is also   *)
(* its refusal, leave that was booked and a certificate that is missing.   *)
(***************************************************************************)
EXTENDS FiniteSets

CONSTANTS
    Shifts, People, Requests,
    Overlaps,        \* pairs of shifts that overlap in time
    Assignable,      \* whom a manager puts on a shift, Nobody for an open one
    Nobody, NoShift  \* neither a person nor a shift

VARIABLES
    shift,           \* the RosterShift table
    claim,           \* the RosterShiftClaim table, one row per shift and person
    confirmed,       \* the StaffShiftConfirmation table
    proc

vars == <<shift, claim, confirmed, proc>>

\* "NONE" is a row that does not exist yet, "GONE" one that was deleted;
\* offeredBy is Nobody while offeredAt is null.
ShiftRecord ==
    [status : {"NONE", "DRAFT", "PUBLISHED", "CANCELLED", "GONE"}, holder : People \cup {Nobody},
     offeredBy : People \cup {Nobody}]

ProcRecord ==
    [at : {"idle", "offer", "takeBack", "clash", "ask", "withdraw", "decline", "approvable", "approve",
           "confirm"},
     shift : Shifts \cup {NoShift}, person : People \cup {Nobody}]

TypeOK ==
    /\ shift \in [Shifts -> ShiftRecord]
    /\ claim \in [Shifts -> [People -> {"NONE", "PENDING", "APPROVED", "DECLINED", "WITHDRAWN"}]]
    /\ confirmed \subseteq Shifts \X People
    /\ proc \in [Requests -> ProcRecord]

IdleProc == [at |-> "idle", shift |-> NoShift, person |-> Nobody]

Init ==
    /\ shift = [s \in Shifts |-> [status |-> "NONE", holder |-> Nobody, offeredBy |-> Nobody]]
    /\ claim = [s \in Shifts |-> [i \in People |-> "NONE"]]
    /\ confirmed = {}
    /\ proc = [p \in Requests |-> IdleProc]

At(p, step) == proc[p].at = step

Goto(p, step) == proc' = [proc EXCEPT ![p].at = step]

Begin(p, step, s, i) ==
    /\ At(p, "idle")
    /\ proc' = [proc EXCEPT ![p] = [at |-> step, shift |-> s, person |-> i]]
    /\ UNCHANGED <<shift, claim, confirmed>>

Done(p) == proc' = [proc EXCEPT ![p] = IdleProc]

Leave(p) == ~At(p, "idle") /\ Done(p) /\ UNCHANGED <<shift, claim, confirmed>>

Exists(s) == shift[s].status \notin {"NONE", "GONE"}

\* A write to a row that was deleted fails.
Write(p, step) == At(p, step) /\ Exists(proc[p].shift) /\ Done(p)

-----------------------------------------------------------------------------
(* The rules of shift-claims.ts *)

Offered(s) == shift[s].offeredBy # Nobody

IsShiftAvailable(s) == shift[s].holder = Nobody \/ Offered(s)

CanClaimShift(s, i) ==
    shift[s].holder # i /\ IsShiftAvailable(s) /\ shift[s].status = "PUBLISHED"

CanOfferShift(s, i) ==
    shift[s].holder = i /\ shift[s].status = "PUBLISHED" /\ ~Offered(s)

CanApproveClaim(s, i) == shift[s].holder # i /\ IsShiftAvailable(s)

\* Another shift of the same person at the same time.
Clashes(s, i) ==
    {r \in Shifts \ {s} : shift[r].holder = i /\ shift[r].status # "CANCELLED"
                          /\ Exists(r) /\ {r, s} \in Overlaps}

-----------------------------------------------------------------------------
(* Managers write the roster *)

CreateRosterShift(s, i, status) ==
    /\ shift[s].status = "NONE"
    /\ shift' = [shift EXCEPT ![s].status = status, ![s].holder = i]
    /\ UNCHANGED <<claim, confirmed, proc>>

\* An offer and the claims stay as they are.
UpdateRosterShift(s, i, status) ==
    /\ Exists(s)
    /\ <<i, status>> # <<shift[s].holder, shift[s].status>>
    /\ shift' = [shift EXCEPT ![s].status = status, ![s].holder = i]
    /\ UNCHANGED <<claim, confirmed, proc>>

PublishRoster ==
    /\ \E s \in Shifts : shift[s].status = "DRAFT"
    /\ shift' = [s \in Shifts |->
          IF shift[s].status = "DRAFT" THEN [shift[s] EXCEPT !.status = "PUBLISHED"] ELSE shift[s]]
    /\ UNCHANGED <<claim, confirmed, proc>>

\* Claims and confirmations go with their shift.
DeleteRosterShift(s) ==
    /\ Exists(s)
    /\ shift' = [shift EXCEPT ![s] = [status |-> "GONE", holder |-> Nobody, offeredBy |-> Nobody]]
    /\ claim' = [claim EXCEPT ![s] = [i \in People |-> "NONE"]]
    /\ confirmed' = {c \in confirmed : c[1] # s}
    /\ UNCHANGED proc

-----------------------------------------------------------------------------
(* What the team does *)

OfferShiftRead(p, s, i) == CanOfferShift(s, i) /\ Begin(p, "offer", s, i)

OfferShift(p) ==
    /\ Write(p, "offer")
    /\ shift' = [shift EXCEPT ![proc[p].shift].offeredBy = proc[p].person]
    /\ UNCHANGED <<claim, confirmed>>

CancelShiftSwapRead(p, s, i) ==
    /\ shift[s].holder = i /\ Offered(s)
    /\ Begin(p, "takeBack", s, i)

\* Whoever waits for an answer gets a no.
CancelShiftSwap(p) ==
    LET s == proc[p].shift
    IN  /\ Write(p, "takeBack")
        /\ shift' = [shift EXCEPT ![s].offeredBy = Nobody]
        /\ claim' = [claim EXCEPT ![s] =
              [i \in People |-> IF claim[s][i] = "PENDING" THEN "DECLINED" ELSE claim[s][i]]]
        /\ UNCHANGED confirmed

ClaimOpenShiftRead(p, s, i) == CanClaimShift(s, i) /\ Begin(p, "clash", s, i)

ClaimClashes(p) ==
    /\ At(p, "clash")
    /\ Clashes(proc[p].shift, proc[p].person) = {}
    /\ Goto(p, "ask")
    /\ UNCHANGED <<shift, claim, confirmed>>

\* The row of an earlier claim is PENDING again, whatever became of it.
ClaimOpenShift(p) ==
    /\ Write(p, "ask")
    /\ claim' = [claim EXCEPT ![proc[p].shift][proc[p].person] = "PENDING"]
    /\ UNCHANGED <<shift, confirmed>>

WithdrawClaimRead(p, s, i) ==
    /\ claim[s][i] \notin {"NONE", "APPROVED"}
    /\ Begin(p, "withdraw", s, i)

WithdrawClaim(p) ==
    /\ Write(p, "withdraw")
    /\ claim' = [claim EXCEPT ![proc[p].shift][proc[p].person] = "WITHDRAWN"]
    /\ UNCHANGED <<shift, confirmed>>

ConfirmMyShiftRead(p, s, i) ==
    /\ shift[s].holder = i /\ Exists(s) /\ shift[s].status # "CANCELLED"
    /\ Begin(p, "confirm", s, i)

ConfirmMyShift(p) ==
    /\ Write(p, "confirm")
    /\ confirmed' = confirmed \cup {<<proc[p].shift, proc[p].person>>}
    /\ UNCHANGED <<shift, claim>>

-----------------------------------------------------------------------------
(* decideClaim *)

DeclineRead(p, s, i) == claim[s][i] = "PENDING" /\ Begin(p, "decline", s, i)

Decline(p) ==
    /\ Write(p, "decline")
    /\ claim' = [claim EXCEPT ![proc[p].shift][proc[p].person] = "DECLINED"]
    /\ UNCHANGED <<shift, confirmed>>

ApproveRead(p, s, i) ==
    /\ claim[s][i] = "PENDING" /\ CanApproveClaim(s, i)
    /\ Begin(p, "approvable", s, i)

ApproveClashes(p) ==
    /\ At(p, "approvable")
    /\ Clashes(proc[p].shift, proc[p].person) = {}
    /\ Goto(p, "approve")
    /\ UNCHANGED <<shift, claim, confirmed>>

\* One transaction, which looks at nothing again.
Approve(p) ==
    LET s == proc[p].shift
        i == proc[p].person
    IN  /\ Write(p, "approve")
        /\ shift' = [shift EXCEPT ![s].holder = i, ![s].offeredBy = Nobody]
        /\ claim' = [claim EXCEPT ![s] =
              [j \in People |-> IF j = i THEN "APPROVED"
                                ELSE IF claim[s][j] = "PENDING" THEN "DECLINED" ELSE claim[s][j]]]
        /\ confirmed' = {c \in confirmed : c[1] = s => c[2] = i}

-----------------------------------------------------------------------------
(* Specification *)

Manage ==
    \/ \E s \in Shifts, i \in Assignable, status \in {"DRAFT", "PUBLISHED", "CANCELLED"} :
          CreateRosterShift(s, i, status) \/ UpdateRosterShift(s, i, status)
    \/ \E s \in Shifts : DeleteRosterShift(s)
    \/ PublishRoster

Serve(p) ==
    \/ \E s \in Shifts, i \in People :
          \/ OfferShiftRead(p, s, i) \/ CancelShiftSwapRead(p, s, i)
          \/ ClaimOpenShiftRead(p, s, i) \/ WithdrawClaimRead(p, s, i)
          \/ ConfirmMyShiftRead(p, s, i)
          \/ DeclineRead(p, s, i) \/ ApproveRead(p, s, i)
    \/ OfferShift(p) \/ CancelShiftSwap(p) \/ ClaimClashes(p) \/ ClaimOpenShift(p)
    \/ WithdrawClaim(p) \/ ConfirmMyShift(p)
    \/ Decline(p) \/ ApproveClashes(p) \/ Approve(p) \/ Leave(p)

Next == Manage \/ \E p \in Requests : Serve(p)

Spec == Init /\ [][Next]_vars

-----------------------------------------------------------------------------
(* Properties *)

\* decideClaim: "two people can never both be told yes", and a shift "must not be
\* reassigned out from under someone": when somebody is told yes, the shift is
\* nobody's, or its holder's to give away.
YesIsForOne ==
    [][\A s \in Shifts, i \in People :
          claim'[s][i] = "APPROVED" /\ claim[s][i] # "APPROVED" => IsShiftAvailable(s)]_vars
=============================================================================
