------------------------------ MODULE MCRepairs ------------------------------
(***************************************************************************)
(* What is finished in the end though requests die: the pool of a paid     *)
(* corporate order and the receipt of a paid card, for TLC's liveness      *)
(* checking.  A behaviour is about one of the two; the other rests in an   *)
(* initial state, where its fairness asks for nothing.                     *)
(***************************************************************************)
EXTENDS FinancialDocuments

CONSTANTS Desks, Sessions, Keys, Quantity, NoSession, NoKey

VARIABLES
    part,         \* what the behaviour is about
    order, pool, session, acked, answered, orderProc

Orders == INSTANCE CorporateCards WITH Requests <- Desks, proc <- orderProc

orderVars == <<order, pool, session, acked, answered, orderProc>>
repairVars == <<part, vars, orderVars>>

RepairInit ==
    /\ part \in {"orders", "receipts"}
    /\ Init /\ Orders!Init
    /\ part # "orders" => order.method = "OFFLINE" /\ ~order.test
    /\ part # "receipts" => \A f \in Refunds : refund[f].card = CHOOSE c \in Cards : TRUE

RepairNext ==
    \/ part = "orders" /\ Orders!Next /\ UNCHANGED <<part, vars>>
    \/ part = "receipts" /\ Next /\ UNCHANGED <<part, orderVars>>

RepairSpec ==
    /\ RepairInit
    /\ [][RepairNext]_repairVars
    /\ Fairness
    /\ Orders!Fairness

\* A paid order gets its pool.
PaidIsIssued == Orders!PaidIsIssued
=============================================================================
