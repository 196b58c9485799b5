--------------------------- MODULE MarketInvariant ---------------------------
(***************************************************************************)
(* The inductive invariant of the market.  Its parts are predicates on a   *)
(* database, because a command takes the tables through several of them    *)
(* before it commits: within a command offers that have ended are still    *)
(* there, an item may wait for its new listing, and an item that is        *)
(* published again may be for sale twice until its old place is withdrawn. *)
(***************************************************************************)
EXTENDS MarketProperties

(* The types of the tables; among them that no balance is ever negative,  *)
(* whatever settles in one sweep (balance, allocation).                    *)
OfferStatus == {"pending", "accepted", "completed"}
ItemRow == [owner : Players, keeper : Players \cup {None}, wants : BOOLEAN,
            state : {"local", "stray", "delivered", "available", "listed", "claiming"}]
ListingRow == [seller : Players, root : Item, goods : SUBSET Item,
               status : {"open", "agreed", "sold", "withdrawn"}, rev : Nat \ {0},
               ask : Ask, spot : Spots \cup {0}]
OfferRow == [listing : Nat, lrev : Nat \ {0}, buyer : Players, proposer : Players,
             terms : Seq(Price) \ {<<>>}, status : OfferStatus \cup {"ended"},
             post : Nat, signed : [Players -> Price \cup {None}]]
PostRow == [owner : Players, status : {"open", "closed", "fulfilled"}]
Database == [item : [Item -> ItemRow], gold : [Players -> Nat], auto : [Players -> BOOLEAN],
             listing : Seq(ListingRow), offer : Seq(OfferRow), wanted : Seq(PostRow)]
Typed(d) == d \in Database

(* An offer names a listing of another player, and at most its present     *)
(* revision; one of the two parties has proposed its terms.                *)
Linked(d) == \A o \in DOMAIN d.offer :
    LET f == d.offer[o]
    IN  /\ f.listing \in DOMAIN d.listing /\ f.lrev <= d.listing[f.listing].rev
        /\ f.buyer # Seller(d, o) /\ f.proposer \in {f.buyer, Seller(d, o)}
        /\ f.post \in 0 .. Len(d.wanted)

(* What is for sale belongs to the seller: in the Vault when the listing   *)
(* has no published place, in the seller's stash when it has one, which is *)
(* then the place of this listing alone.                                   *)
Holding(l) == IF l.spot = 0 THEN {"listed"} ELSE {"local", "delivered"}
Placed(d) == \A l \in DOMAIN d.listing :
    LET row == d.listing[l]
    IN  /\ row.root \in row.goods
        /\ row.spot # 0 =>
             /\ row.goods = {row.root}
             /\ \A m \in DOMAIN d.listing :
                  /\ d.listing[m].seller = row.seller /\ d.listing[m].root = row.root
                  /\ d.listing[m].spot = row.spot
                  => m = l
        /\ Active(d, l) => \A i \in row.goods : Holds(d, row.seller, i, Holding(row))

(* What the offers of a listing say of its status, and of each other.      *)
Agreed(d) ==
    /\ \A l \in DOMAIN d.listing : d.listing[l].status = "agreed" =>
         \E o \in DOMAIN d.offer : d.offer[o].listing = l /\ d.offer[o].status = "accepted"
    /\ \A o \in DOMAIN d.offer :
         LET f == d.offer[o]
             l == d.listing[f.listing]
             Rest == {x \in DOMAIN d.offer \ {o} : d.offer[x].listing = f.listing}
         IN  /\ f.status = "pending" => /\ l.status \in {"open", "sold"}
                                        /\ l.status = "open" => f.lrev = l.rev
             /\ f.status = "accepted" =>
                  /\ l.status \in {"agreed", "sold"}
                  /\ \A x \in Rest : d.offer[x].status # "accepted"
             /\ f.status = "completed" =>
                  /\ l.status = "sold" /\ l.spot = 0
                  /\ \A x \in Rest : d.offer[x].status = "ended"

(* Who has agreed to the terms of an offer.                                *)
Consented(d) == \A o \in DOMAIN d.offer :
    LET f == d.offer[o]
    IN  /\ f.status = "pending" => f.signed[f.proposer] = Terms(d, o)
        /\ f.status \in {"accepted", "completed"} =>
             /\ f.signed[Seller(d, o)] = Terms(d, o)
             /\ f.signed[f.buyer] = Terms(d, o) \/ Terms(d, o) = Free

Core(d) == Typed(d) /\ Linked(d) /\ Placed(d) /\ Agreed(d) /\ Consented(d)

(* Apart from the listings in Y, an item is for sale at most once.         *)
Exclusive(d, Y) == \A l, m \in DOMAIN d.listing \ Y :
    /\ Active(d, l) /\ Active(d, m) /\ d.listing[l].goods \cap d.listing[m].goods # {}
    => l = m

(* The items in X are not for sale and wait for their new state; the other *)
(* listed items are for sale.                                              *)
Sold(d, i) == \E l \in DOMAIN d.listing : Active(d, l) /\ i \in d.listing[l].goods
ForSale(d, X) == \A i \in Item :
    IF i \in X THEN ~Sold(d, i) ELSE d.item[i].state = "listed" => Sold(d, i)

Sound(d, X) == Core(d) /\ Exclusive(d, {}) /\ ForSale(d, X)

(* Offers that could be settled wait only for the players in P.            *)
Waits(d, P) == \A o \in DOMAIN d.offer : Ready(d, o) => d.offer[o].buyer \in P

(* Between the commands the tables are sound, without the offers that have *)
(* ended, and what is ready waits for a later sweep of its buyer's offers. *)
Orderly ==
    /\ Sound(db, {}) /\ Waits(db, left)
    /\ \A o \in DOMAIN db.offer : db.offer[o].status # "ended"
    /\ away \in [Players -> Nat] /\ left \subseteq Players
===============================================================================
