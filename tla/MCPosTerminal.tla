----------------------------- MODULE MCPosTerminal -----------------------------
(***************************************************************************)
(* Instances of PosTerminal for TLC.                                       *)
(***************************************************************************)
EXTENDS PosTerminal, TLC

\* No gift cards and no points here.
Empty == [m \in Wallets |-> 0]

Symmetry == Permutations(Tills) \cup Permutations(Refs)

\* Bills are rung up, paid, refunded and reopened; the rest is left to the runs
\* of PosBill.
Corrections == {"addSale", "splitNext", "merge", "undoDelete", "void"}

Editing == {"setLines", "syncRead", "syncClear", "syncCreate"}

\* A bill is edited while a card is on the terminal, but not in the middle of
\* another request.
EditedAlone ==
    \A p, q \in Tills : proc[p].at \in Editing /\ p # q => Idle(q)

PayOnly == EditedAlone /\ \A p \in Tills : proc[p].at \notin Corrections \cup {"refund", "reopen"}
=============================================================================
