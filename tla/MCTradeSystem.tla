---------------------------- MODULE MCTradeSystem ----------------------------
(***************************************************************************)
(* TradeSystem with values for its constants: p1 owns one of item i1 and    *)
(* nobody else has any; players offer one, nothing, or a malformed offer.   *)
(***************************************************************************)
EXTENDS TradeSystem

CONSTANTS p1, p2, i1

MCPlayers == {p1, p2}
MCItems == {i1}
MCInitialCount == [p \in Players |-> [i \in Items |-> IF p = p1 THEN 1 ELSE 0]]
MCOffers == {NoOffer, [i \in Items |-> 1], Malformed}
=============================================================================
