------------------------------ MODULE MCGiftCard ------------------------------
(***************************************************************************)
(* Instances of GiftCard for TLC.                                          *)
(***************************************************************************)
EXTENDS GiftCard, TLC

\* Requests are interchangeable.
RequestSymmetry == Permutations(Requests)

\* A run of the drain meets one other handler or sweep at a time, which keeps
\* the instance small.
DrainMeetsOne ==
    LET busy == {p \in Procs : ~Idle(p)}
    IN  busy \cap Drainers # {} => Cardinality(busy) <= 2

\* The run with several cards is about the promo code: every card is bought
\* with it in a checkout, and is neither redeemed nor e-mailed (a run with one
\* card does that).
PromoCheckouts ==
    /\ \A p \in Procs :
          /\ proc[p].at \notin {"redeemWrite", "resendReset", "send"}
          /\ proc[p].arg # "noPromo"
    /\ \A c \in Cards :
          /\ card[c].status # "NONE" => card[c].promo
          /\ ~card[c].scheduled
          /\ passed[c] = {}
=============================================================================
