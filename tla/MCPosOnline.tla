------------------------------ MODULE MCPosOnline ------------------------------
(***************************************************************************)
(* Instances of PosOnline for TLC.                                         *)
(***************************************************************************)
EXTENDS PosOnline, TLC

\* No gift cards and no points here.
Empty == [m \in Wallets |-> 0]

Symmetry == Permutations(Bills) \cup Permutations(Tills) \cup Permutations(Refs)

\* Bills are rung up and paid; the rest is left to the other runs.
NoReversals ==
    \A p \in Tills :
        proc[p].at \notin {"addSale", "undoDelete", "reopen", "refund", "void", "merge"}
=============================================================================
