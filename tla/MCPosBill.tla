------------------------------- MODULE MCPosBill -------------------------------
(***************************************************************************)
(* PosBill with handlers that die at any step, for TLC.                    *)
(***************************************************************************)
EXTENDS PosBill, TLC

\* What the wallets hold at first.
Rich == [m \in Wallets |-> 2]

Symmetry == Permutations(Bills) \cup Permutations(Tills)

\* Runs that are about some of the operations leave out the others.
Without(steps) == \A p \in Tills : proc[p].at \notin steps

\* Bills that do not split evenly, part payments of one unit, and nobody undoes
\* a payment.
OddBills ==
    /\ Without({"undoDelete"})
    /\ \A p \in Tills : proc[p].want # 2
=============================================================================
