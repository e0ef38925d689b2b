---------------------------- MODULE GiftCardLedger ----------------------------
(***************************************************************************)
(* What a gift card promises, without checkouts, handlers or races: a card *)
(* is offered, goes live with its whole face value, is spent down, and     *)
(* ends spent, lapsed or withdrawn.  An offer that fell through may come   *)
(* back to life, with nothing spent of it; a withdrawn card never does.    *)
(***************************************************************************)
EXTENDS Integers

CONSTANTS Cards, FaceValue, Fresh

VARIABLES
    phase,   \* where each card is in its life
    value,   \* what can still be spent of it
    spent    \* what was spent of it

vars == <<phase, value, spent>>

\* A card starts unsold; those outside Fresh start as an offer that fell through.
Init ==
    /\ phase = [c \in Cards |-> IF c \in Fresh THEN "unsold" ELSE "closed"]
    /\ value = [c \in Cards |-> 0]
    /\ spent = [c \in Cards |-> 0]

Set(c, p, v) ==
    /\ phase' = [phase EXCEPT ![c] = p]
    /\ value' = [value EXCEPT ![c] = v]

Offer(c) == phase[c] = "unsold" /\ Set(c, "offered", FaceValue) /\ UNCHANGED spent

GoLive(c) ==
    /\ phase[c] \in {"unsold", "offered", "closed"}
    /\ spent[c] = 0
    /\ Set(c, "live", FaceValue)
    /\ UNCHANGED spent

FallThrough(c) == phase[c] = "offered" /\ Set(c, "closed", 0) /\ UNCHANGED spent

Spend(c, amount) ==
    /\ phase[c] = "live"
    /\ amount <= value[c]
    /\ Set(c, IF amount = value[c] THEN "spent" ELSE "live", value[c] - amount)
    /\ spent' = [spent EXCEPT ![c] = @ + amount]

\* Withdrawing writes off what is left; it is possible at any time after the sale.
Withdraw(c) == phase[c] # "unsold" /\ Set(c, "withdrawn", 0) /\ UNCHANGED spent

Lapse(S) ==
    /\ \A c \in S : phase[c] = "live"
    /\ phase' = [c \in Cards |-> IF c \in S THEN "lapsed" ELSE phase[c]]
    /\ UNCHANGED <<value, spent>>

Next ==
    \/ \E c \in Cards :
          \/ Offer(c)
          \/ GoLive(c)
          \/ FallThrough(c)
          \/ \E amount \in 1..FaceValue : Spend(c, amount)
          \/ Withdraw(c)
    \/ \E S \in SUBSET Cards : Lapse(S)

Spec == Init /\ [][Next]_vars
=============================================================================
