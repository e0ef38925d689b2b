---------------------------- MODULE MCGiftCardJobs ----------------------------
(***************************************************************************)
(* The two scheduled jobs of GiftCard, for TLC's liveness checking.        *)
(* Neither waits for what the other does: in each behaviour one of them is *)
(* at work and the other rests, which keeps the state graph small.         *)
(***************************************************************************)
EXTENDS GiftCard

VARIABLE job    \* who works in this behaviour

jobsVars == <<vars, job>>

Resting == IF job = "sweep" THEN Drainers ELSE Sweepers

JobsInit == Init /\ job \in {"sweep", "drain"}

JobsNext ==
    /\ Next
    /\ \A p \in Resting : proc'[p] = proc[p]
    /\ UNCHANGED job

JobsSpec ==
    /\ JobsInit
    /\ [][JobsNext]_jobsVars
    /\ job = "sweep" => SweepsFair
    /\ job = "drain" => DrainsFair

\* A buyer who paid gets the card by the sweep alone, even if every webhook is
\* lost, the page is closed before it polls and handlers crash.
SweepHonours == job = "sweep" => PaidIsHonoured

\* A scheduled card is sent once its date has come, however often a send
\* failed or a run of the drain crashed.
DrainSends == job = "drain" => ScheduledIsSent
=============================================================================
