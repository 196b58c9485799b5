--------------------------- MODULE MarketProperties ---------------------------
(***************************************************************************)
(* What the market promises to the players who are not looking.            *)
(***************************************************************************)
EXTENDS Market, FiniteSets

(* An item that is listed in the Vault is for sale in exactly one listing, *)
(* its owner's; no other item of the Vault is for sale, and an item in a   *)
(* stash at most once, by its owner (requireSingleItem, publish,           *)
(* activateDeposit, settleReady).                                          *)
Sales(i) == {l \in DOMAIN db.listing : Active(db, l) /\ i \in db.listing[l].goods}
OneActiveListing == \A i \in Item :
    /\ Cardinality(Sales(i)) <= 1
    /\ \A l \in Sales(i) : db.listing[l].seller = db.item[i].owner
    /\ db.item[i].state = "listed" => Sales(i) # {}
    /\ db.item[i].state \in {"available", "claiming", "stray"} => Sales(i) = {}

(* A listing is agreed with one offer, the accepted one; a sale of the     *)
(* Vault has one completed offer and ends all others; an offer that waits  *)
(* for an answer is about the listing as it is.  Operators' sales          *)
(* (Market::sale) leave the offers of the listing behind.                  *)
With(l, status) == {o \in DOMAIN db.offer : db.offer[o].listing = l
                                            /\ db.offer[o].status = status}
AgreementsAreUnique == \A l \in DOMAIN db.listing :
    LET row == db.listing[l]
        done == With(l, "completed")
    IN  /\ row.status = "agreed" => Cardinality(With(l, "accepted")) = 1
        /\ row.status \in {"open", "withdrawn"} => With(l, "accepted") = {}
        /\ row.status \in {"agreed", "withdrawn"} => With(l, "pending") = {}
        /\ done # {} => /\ row.status = "sold" /\ Cardinality(done) = 1
                        /\ With(l, "pending") \cup With(l, "accepted") = {}
        /\ row.status = "open" => \A o \in With(l, "pending") : db.offer[o].lrev = row.rev

(* A trade settles on terms both sides have agreed to in what they saw:    *)
(* the buyer proposed or accepted exactly this payment, or pays nothing;   *)
(* the seller did, or asked for exactly this and approves it automatically *)
(* or gives it away.                                                       *)
SettledAsAgreed == \A o \in DOMAIN db.offer :
    LET f == db.offer[o]
        Consents(p) == f.signed[p] = Terms(db, o)
    IN  f.status = "completed" =>
            /\ Consents(Seller(db, o))
            /\ Consents(f.buyer) \/ Terms(db, o) = Free

(* A command does not leave a trade behind that could be settled: the      *)
(* proceeds of one trade fund the next, although nobody is online          *)
(* (settleReady).  Offers are left for a later command only by a sweep     *)
(* that has used its budget, by a pass with more offers than it reads at   *)
(* once (the older ones need not be funded), and by the end of a bundle.   *)
NothingReadyWaits == \A o \in DOMAIN db.offer :
    Ready(db, o) => db.offer[o].buyer \in left
===============================================================================
