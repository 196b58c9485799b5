------------------------------- MODULE MCMarket -------------------------------
EXTENDS MarketInvariant

(* ann can pay once, with gold and an item; ben can pay with what ann has  *)
(* paid.                                                                   *)
CONSTANTS ann, ben, gem
MCPlayers == {ann, ben}
MCKind == <<gem, gem, gem>>
MCItem == <<[owner |-> ann, state |-> "available"], [owner |-> ann, state |-> "available"],
            [owner |-> ben, state |-> "local"]>>
MCGold == (ann :> 1) @@ (ben :> 0)
MCPayments == {[gold |-> 1, kind |-> gem]}
===============================================================================
