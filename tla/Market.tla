-------------------------------- MODULE Market --------------------------------
(***************************************************************************)
(* The market between players: listings, offers, wanted posts, bundles,    *)
(* gifts and the settlement of funded trades.  Every command of the        *)
(* service is one transaction under lockScope, so every command is one     *)
(* action; what races is the state a client has read with the command it   *)
(* sends.  A refused command, and a repeated one, changes nothing and is   *)
(* no step.                                                                *)
(*                                                                         *)
(* db is the database.  Listings, offers and wanted posts are sequences in *)
(* the order of their creation.  An asking price or an offer is some gold  *)
(* and at most one item of a kind, which the payment takes from the first  *)
(* available item of that kind; stacks and bag resources are left out.     *)
(* What custody does with the saves is Custody's subject: here goods are   *)
(* in the owner's stash or in the Vault.                                   *)
(***************************************************************************)
EXTENDS Integers, Sequences, SequencesExt

CONSTANTS Players, None,
          Kinds,      \* kinds of items
          Kind,       \* the kind of each item; items are numbered
          FirstItem,  \* the owner and the state of each item in the beginning
          FirstGold,  \* the gold each player holds in the Vault in the beginning
          Payments,   \* the payments players offer or ask for
          Open,       \* the asking price "open to offers"
          Spots,      \* places of an item on a published page
          Budget,     \* trades one command may settle: 256 in the code
          PassLimit,  \* offers one pass of settlement reads: 256 in the code
          MaxListings, MaxOffers, MaxPosts, MaxRev, MaxTerms,  \* bounds
          MaxMoves    \* bound on the commands that move or list goods

Item == DOMAIN Kind
Free == [gold |-> 0, kind |-> None]
Price == Payments \cup {Free}
Ask == Price \cup {Open}

ASSUME MarketAssumption ==
    /\ None \notin Kinds \cup Players /\ Open \notin Price /\ 0 \notin Spots
    /\ Kind \in Seq(Kinds)
    /\ FirstItem \in [Item -> [owner : Players, state : {"local", "available"}]]
    /\ FirstGold \in [Players -> Nat]
    /\ Payments \subseteq [gold : Nat, kind : Kinds \cup {None}] \ {Free}
    /\ Budget \in Nat \ {0} /\ PassLimit \in Nat \ {0}

VARIABLES db,      \* the tables of the service
          away,    \* gold outside the Vault: in saves, or reserved for them
          moves,   \* how much of MaxMoves is used
          left     \* players whose ready offers a command left for another one

vars == <<db, away, moves, left>>

(* An item is "local" (never in the Vault), "stray" (never in the Vault,   *)
(* its owner changed by an operator), "delivered", or held in the Vault:   *)
(* "available", "listed" or "claiming".  keeper is the owner its Vault     *)
(* record names, which an operator's sale does not change.                 *)
First(i) == [owner |-> FirstItem[i].owner, state |-> FirstItem[i].state, wants |-> FALSE,
             keeper |-> IF FirstItem[i].state = "local" THEN None ELSE FirstItem[i].owner]
Init == /\ db = [item |-> [i \in Item |-> First(i)],
                 gold |-> FirstGold, auto |-> [p \in Players |-> FALSE],
                 listing |-> <<>>, offer |-> <<>>, wanted |-> <<>>]
        /\ away = [p \in Players |-> 0] /\ moves = 0 /\ left = {}

-----------------------------------------------------------------------------
(* Listings and offers of a database d.                                    *)

Active(d, l) == d.listing[l].status \in {"open", "agreed"}
Of(d, i) == {l \in DOMAIN d.listing : d.listing[l].root = i}
Live(d, o) == d.offer[o].status \in {"pending", "accepted"}
Terms(d, o) == Last(d.offer[o].terms)
Seller(d, o) == d.listing[d.offer[o].listing].seller
Goods(d, o) == d.listing[d.offer[o].listing].goods
Holds(d, p, i, states) == d.item[i].owner = p /\ d.item[i].state \in states

(* A revision of an offer is an entry of its terms; it matters no more once *)
(* the offer is not pending.                                               *)
Closed(f, status) == [f EXCEPT !.status = status, !.terms = <<Last(@)>>]
Ended(f) == Closed(f, "ended")

InvalidateOffers(d, ls, except) ==
    [d EXCEPT !.offer = [o \in DOMAIN @ |->
        IF @[o].listing \in ls /\ Live(d, o) /\ o # except
        THEN Ended(@[o]) ELSE @[o]]]

(* Every change of a listing's status is a revision of it.                 *)
Revised(row, status) == [row EXCEPT !.status = status, !.rev = @ + 1]
Reviewed(d, ls, status) ==
    [d EXCEPT !.listing = [l \in DOMAIN @ |->
        IF l \in ls /\ Active(d, l) THEN Revised(@[l], status) ELSE @[l]]]

(* Offers superseded, active listings withdrawn. *)
Withdraw(d, ls) == Reviewed(InvalidateOffers(d, ls, 0), ls, "withdrawn")

Reopen(d, l, ask) == [d EXCEPT !.listing[l] = [Revised(@, "open") EXCEPT !.ask = ask]]

NewListing(p, root, goods, status, ask, spot) ==
    [seller |-> p, root |-> root, goods |-> goods, status |-> status, rev |-> 1,
     ask |-> ask, spot |-> spot]
List(d, row) == [d EXCEPT !.listing = Append(@, row)]

(* signed: the terms each side has put forward or accepted last. *)
NewOffer(l, lrev, buyer, proposer, price, status, post) ==
    [listing |-> l, lrev |-> lrev, buyer |-> buyer, proposer |-> proposer,
     terms |-> <<price>>, status |-> status, post |-> post,
     signed |-> [p \in Players |-> IF p = proposer THEN price ELSE None]]

(* requireSingleItem: the item is no member of an active bundle. *)
Bundled(d, i) == \E l \in DOMAIN d.listing :
    Active(d, l) /\ d.listing[l].goods # {d.listing[l].root} /\ i \in d.listing[l].goods

-----------------------------------------------------------------------------
(* Settlement.                                                             *)

(* allocation: whether the buyer can pay, and with which item. *)
Funding(d, p, kind) == {i \in Item : Holds(d, p, i, {"available"}) /\ Kind[i] = kind}
\* Mutant: the balance is not looked at.
FundedByItem(d, p, price) == price.kind # None => Funding(d, p, price.kind) # {}
Funded(d, p, price) ==
    /\ d.gold[p] >= price.gold
    /\ price.kind # None => Funding(d, p, price.kind) # {}
Allocation(d, p, price) ==
    IF price.kind = None THEN {} ELSE {Min(Funding(d, p, price.kind))}

Approved(d, o) ==
    LET l == d.listing[d.offer[o].listing]
    IN  /\ d.auto[l.seller] \/ Terms(d, o) = Free
        /\ d.offer[o].proposer = d.offer[o].buyer
        /\ l.status = "open" /\ l.ask = Terms(d, o)

Ready(d, o) ==
    LET l == d.listing[d.offer[o].listing]
    IN  /\ Live(d, o)
        /\ d.offer[o].status = "pending" => Approved(d, o)
        /\ d.offer[o].status = "accepted" => l.status = "agreed"
        /\ \A i \in l.goods : Holds(d, l.seller, i, {"listed"})
        /\ Funded(d, d.offer[o].buyer, Terms(d, o))

Approve(d, o) ==
    LET f == d.offer[o]
        l == d.listing[f.listing]
    IN  IF f.status = "pending" /\ (d.auto[l.seller] \/ l.ask = Free)
        THEN [f EXCEPT !.signed[l.seller] = l.ask] ELSE f
Paid(d, p, q, gold) == [d.gold EXCEPT ![p] = @ - gold, ![q] = @ + gold]
Exchanged(d, o) ==
    LET s == Seller(d, o)
        b == d.offer[o].buyer
        paid == Allocation(d, b, Terms(d, o))
    IN  [i \in Item |->
            IF i \in paid THEN [d.item[i] EXCEPT !.owner = s, !.keeper = s, !.wants = TRUE]
            ELSE IF i \in Goods(d, o)
            THEN [owner |-> b, keeper |-> b, state |-> "available", wants |-> TRUE]
            ELSE d.item[i]]
Fulfilled(posts, post) ==
    [w \in DOMAIN posts |-> IF w = post /\ posts[w].status = "open"
                            THEN [posts[w] EXCEPT !.status = "fulfilled"] ELSE posts[w]]
Settled(d, o) ==
    LET f == d.offer[o]
    IN  [InvalidateOffers(d, {f.listing}, o) EXCEPT
          !.gold = Paid(d, f.buyer, Seller(d, o), Terms(d, o).gold),
          !.item = Exchanged(d, o),
          !.listing[f.listing] = Revised(@, "sold"),
          !.offer[o] = Closed(Approve(d, o), "completed"),
          !.wanted = Fulfilled(@, f.post)]

(* A pass of settleReady reads the oldest offers of the first selector in  *)
(* the queue, at most PassLimit of them, whether they are funded or not,   *)
(* and visits what it has read.  A buyer and a seller who are not in the   *)
(* queue are woken.                                                        *)
All == [by |-> "all", of |-> None]
Buyer(p) == [by |-> "buyer", of |-> p]
Focus(o) == [by |-> "offer", of |-> o]
Selects(q, d, o) == \/ q.by = "all"
                    \/ q.by = "buyer" /\ q.of = d.offer[o].buyer
                    \/ q.by = "offer" /\ q.of = o
Enqueued(queue, p) == IF Contains(queue, Buyer(p)) THEN queue ELSE Append(queue, Buyer(p))
\* Mutant: the proceeds of a trade wake nobody but the buyer.
WakeBuyer(queue, seller, buyer) == Enqueued(queue, buyer)
Wake(queue, seller, buyer) == Enqueued(Enqueued(queue, seller), buyer)
Swept(q) == CASE q.by = "all" -> Players
              [] q.by = "buyer" -> {q.of}
              [] OTHER -> {}
Eligible(q, d) == {o \in DOMAIN d.offer :
    /\ Selects(q, d, o) /\ Live(d, o)
    /\ Holds(d, Seller(d, o), d.listing[d.offer[o].listing].root, {"listed"})}
Read(q, d) == LET all == Eligible(q, d)
              IN  {o \in all : Cardinality({x \in all : x < o}) < PassLimit}
Unread(q, d) == {d.offer[o].buyer :
                    o \in {x \in Eligible(q, d) \ Read(q, d) : Ready(d, x)}}
Dequeued(s) == LET q == Head(s.queue)
               IN  [s EXCEPT !.queue = Tail(@), !.left = (@ \ Swept(q)) \cup Unread(q, s.db)]
Visit(read, s, o) ==
    IF s.budget > 0 /\ o \in read /\ Ready(s.db, o)
    THEN [s EXCEPT !.db = Settled(@, o), !.budget = @ - 1,
                   !.queue = Wake(@, Seller(s.db, o), s.db.offer[o].buyer)]
    ELSE s
Pass(s) ==
    LET read == Read(Head(s.queue), s.db)
        visited[o \in 0 .. Len(s.db.offer)] ==
            IF o = 0 THEN Dequeued(s) ELSE Visit(read, visited[o - 1], o)
    IN  visited[Len(s.db.offer)]

(* The passes of a sweep end with its queue or its budget.                 *)
Passes == 2 * Budget + 1
Turn(s) == IF s.queue = <<>> \/ s.budget = 0 THEN s ELSE Pass(s)
Drain(s) ==
    LET drained[n \in 0 .. Passes] == IF n = 0 THEN s ELSE Turn(drained[n - 1])
    IN  drained[Passes]

-----------------------------------------------------------------------------
(* The end of a command: within the model's bounds, the new database,      *)
(* without the offers that were rejected, withdrawn or superseded: nothing *)
(* reads them again.                                                       *)
Bounded(d) == /\ Len(d.listing) <= MaxListings /\ Len(d.offer) <= MaxOffers
              /\ Len(d.wanted) <= MaxPosts
              /\ \A l \in DOMAIN d.listing : d.listing[l].rev <= MaxRev
              /\ \A o \in DOMAIN d.offer : Len(d.offer[o].terms) <= MaxTerms
Unended(offers) ==
    LET kept[o \in 0 .. Len(offers)] ==
            IF o = 0 THEN <<>>
            ELSE IF offers[o].status = "ended" THEN kept[o - 1]
            ELSE Append(kept[o - 1], offers[o])
    IN  kept[Len(offers)]
Commit(d) == LET e == [d EXCEPT !.offer = Unended(@)]
             IN  Bounded(e) /\ db' = e
Sweep(d, first) == [db |-> d, queue |-> <<first>>, budget |-> Budget, left |-> left]
Settle(d, first) ==
    LET s == Drain(Sweep(d, first))
    IN  /\ Commit(s.db)
        /\ left' = IF s.budget = 0 THEN Players ELSE s.left
Unsettled == UNCHANGED <<away, left>>

(* publish: a page of the owner's stash replaces the one published before. *)
(* Rows whose identity is not admitted count as absent.                    *)
Published(d, p) == {l \in DOMAIN d.listing : d.listing[l].seller = p /\ d.listing[l].spot # 0}
Mapped(d, p, i, spot) ==
    {l \in Published(d, p) : d.listing[l].root = i /\ d.listing[l].spot = spot}
PublishRow(d, p, i, row) ==
    LET known == Mapped(d, p, i, row.spot)
        l == Min(known)
    IN  IF known = {}
        THEN List(Withdraw(d, Of(d, i)), NewListing(p, i, {i}, "open", row.ask, row.spot))
        ELSE IF Active(d, l) /\ d.listing[l].ask = row.ask THEN d
        ELSE Reopen(InvalidateOffers(d, {l}, 0), l, row.ask)
PublishRows(p, page) ==
    LET upto[i \in 0 .. Len(Kind)] ==
            IF i = 0 THEN db
            ELSE IF i \in DOMAIN page THEN PublishRow(upto[i - 1], p, i, page[i])
            ELSE upto[i - 1]
    IN  upto[Len(Kind)]
Publish(p, page) ==
    LET known == UNION {Mapped(db, p, i, page[i].spot) : i \in DOMAIN page}
    IN  /\ \A i \in DOMAIN page : Holds(db, p, i, {"local", "delivered"})
        /\ \A l \in known : db.listing[l].status # "sold"
        /\ Commit(Withdraw(PublishRows(p, page), Published(db, p) \ known)) /\ Unsettled

(* withdrawPhysical: before the owner moves the item in the game. *)
WithdrawPhysical(p, i) ==
    /\ Holds(db, p, i, {"local", "stray", "delivered"})
    /\ Commit(Withdraw(db, {l \in Of(db, i) : db.listing[l].seller = p})) /\ Unsettled

(* activateDeposit, at the commit of a custody ticket; with or without a   *)
(* price, and under the listing of one of the item's published places.     *)
Retired(d, p, i) ==
    LET ls == Published(d, p) \cap Of(d, i)
    IN  [Withdraw(d, ls) EXCEPT
           !.listing = [l \in DOMAIN @ |-> IF l \in ls THEN [@[l] EXCEPT !.spot = 0] ELSE @[l]]]
Held(d, p, i, state) ==
    [d EXCEPT !.item[i] = [owner |-> p, keeper |-> p, state |-> state, wants |-> FALSE]]
Deposit(p, i) ==
    LET d == Retired(db, p, i)
        known == Published(db, p) \cap Of(db, i)
    IN  /\ Holds(db, p, i, {"local", "delivered"}) /\ db.item[i].keeper \in {None, p}
        /\ \/ Settle(Held(d, p, i, "available"), Buyer(p))
           \/ \E ask \in Ask :
                \/ known = {} /\ Settle(Held(List(d, NewListing(p, i, {i}, "open", ask, 0)),
                                             p, i, "listed"), Buyer(p))
                \/ \E l \in known : Settle(Held(Reopen(d, l, ask), p, i, "listed"), Buyer(p))
        /\ UNCHANGED away

(* reserveClaim, releaseClaim and completeClaim for one item. *)
Claim(p, i) == /\ Holds(db, p, i, {"available"})
               /\ Commit([db EXCEPT !.item[i].state = "claiming"]) /\ Unsettled
EndClaim(p, i) ==
    /\ Holds(db, p, i, {"claiming"})
    /\ \/ Settle([db EXCEPT !.item[i].state = "available"], Buyer(p))
       \/ Settle(Held(db, p, i, "delivered"), Buyer(p))
    /\ UNCHANGED away

(* Gold leaves the Vault for a save; it comes back with a deposit or with  *)
(* the cancellation of what was reserved.                                  *)
GoldOut(p) == /\ db.gold[p] > 0
              /\ Commit([db EXCEPT !.gold[p] = @ - 1])
              /\ away' = [away EXCEPT ![p] = @ + 1] /\ UNCHANGED left
GoldIn(p) == /\ away[p] > 0 /\ away' = [away EXCEPT ![p] = @ - 1]
             /\ Settle([db EXCEPT !.gold[p] = @ + 1], Buyer(p))

(* escrowCommand *)
SetAuto(p) == Settle([db EXCEPT !.auto[p] = ~@], All) /\ UNCHANGED away

\* Mutant: a member of a bundle is priced or returned on its own.
AnyItem(p, i) == Holds(db, p, i, {"available", "listed"})
Changeable(p, i) == Holds(db, p, i, {"available", "listed"}) /\ ~Bundled(db, i)
EscrowPrice(p, i, ask) ==
    /\ Changeable(p, i)
    /\ Settle(Held(List(Withdraw(db, Of(db, i)), NewListing(p, i, {i}, "open", ask, 0)),
                   p, i, "listed"), All)
    /\ UNCHANGED away
EscrowReturn(p, i) ==
    /\ Changeable(p, i)
    /\ Settle([Held(Withdraw(db, Of(db, i)), p, i, "available") EXCEPT !.item[i].wants = TRUE],
              All)
    /\ UNCHANGED away

(* giftCommand *)
GiftItem(p, q, i) ==
    LET d == List(Withdraw(db, Of(db, i)), NewListing(p, i, {i}, "agreed", Free, 0))
        o == Len(db.offer) + 1
        e == [d EXCEPT !.offer = Append(@, NewOffer(Len(d.listing), 1, q, p, Free,
                                                    "accepted", 0)),
                       !.item[i].state = "listed"]
    IN  /\ Changeable(p, i) /\ p # q
        /\ Settle(e, Focus(o)) /\ db'.item[i].owner = q /\ UNCHANGED away
GiftGold(p, q) == /\ p # q /\ db.gold[p] > 0 /\ UNCHANGED away
                  /\ Settle([db EXCEPT !.gold = Paid(db, p, q, 1)], Buyer(q))

(* bundleCommand.  Neither of the two sweeps. *)
BundleCreate(p, root, goods, ask) ==
    LET own == {l \in DOMAIN db.listing : db.listing[l].root \in goods}
        d == List(Withdraw(db, own), NewListing(p, root, goods, "open", ask, 0))
    IN  /\ root \in goods /\ goods # {root} /\ \A i \in goods : Changeable(p, i)
        /\ \A l \in own : db.listing[l].status # "agreed"
        /\ Commit([d EXCEPT !.item = [i \in Item |-> IF i \in goods
                     THEN [@[i] EXCEPT !.state = "listed", !.wants = FALSE] ELSE @[i]]])
        /\ Unsettled
BundleDissolve(p, l) ==
    LET goods == db.listing[l].goods
    IN  /\ db.listing[l].seller = p /\ db.listing[l].status = "open"
        /\ goods # {db.listing[l].root} /\ \A i \in goods : Holds(db, p, i, {"listed"})
        /\ Commit([Withdraw(db, {l}) EXCEPT !.item = [i \in Item |->
                     IF i \in goods THEN [@[i] EXCEPT !.state = "available", !.wants = FALSE]
                     ELSE @[i]]])
        /\ left' = left \cup {p} /\ UNCHANGED away

(* wantedCommand *)
WantedCreate(p) == /\ Commit([db EXCEPT !.wanted = Append(@, [owner |-> p, status |-> "open"])])
                   /\ Unsettled
WantedClose(p, w) == /\ db.wanted[w] = [owner |-> p, status |-> "open"]
                     /\ Commit([db EXCEPT !.wanted[w].status = "closed"]) /\ Unsettled
WantedRespond(p, w, i, price) ==
    LET open == {l \in Of(db, i) : Active(db, l) /\ db.listing[l].seller = p}
        d == IF open # {} THEN db
             ELSE [List(db, NewListing(p, i, {i}, "open", price, 0))
                   EXCEPT !.item[i].state = "listed"]
        l == IF open # {} THEN CHOOSE x \in open : TRUE ELSE Len(d.listing)
    IN  /\ db.wanted[w].status = "open" /\ db.wanted[w].owner # p
        /\ Changeable(p, i) /\ ~db.item[i].wants
        /\ d.listing[l].status = "open"
        /\ Commit([d EXCEPT !.offer = Append(@, NewOffer(l, d.listing[l].rev, db.wanted[w].owner,
                                                         p, price, "pending", w))])
        /\ Unsettled

(* command: propose, and the answers of the two parties.  An answer names  *)
(* the revision of the offer that its sender has seen.                     *)
Negotiable(l) == db.listing[l].status = "open"
                 /\ db.item[db.listing[l].root].owner = db.listing[l].seller
Propose(p, l, price) ==
    LET row == db.listing[l]
    IN  /\ row.seller # p /\ Negotiable(l)
        /\ row.ask = Free => price = Free /\ Holds(db, row.seller, row.root, {"listed"})
        /\ row.ask \notin {Free, Open} => price # Free
        /\ Settle([db EXCEPT !.offer = Append(@, NewOffer(l, row.rev, p, p, price, "pending", 0))],
                  Focus(Len(db.offer) + 1))
        /\ UNCHANGED away

\* Mutant: an answer to any revision is taken.
AnyRevision(o, seen) == TRUE
Current(o, seen) == seen = Len(db.offer[o].terms)
Answerable(p, o, seen, own) ==
    LET f == db.offer[o]
    IN  /\ p \in {f.buyer, Seller(db, o)} /\ (f.proposer = p) = own
        /\ Current(o, seen) /\ f.status = "pending"
        /\ Negotiable(f.listing) /\ f.lrev = db.listing[f.listing].rev
Signed(d, p, o, price) == [d EXCEPT !.offer[o].signed[p] = price]

\* Mutant: the other proposals of the listing stay pending.
AgreeOnly(d, o) == [d EXCEPT !.offer[o] = Closed(@, "accepted"),
                             !.listing[d.offer[o].listing] = Revised(@, "agreed")]
Agree(d, o) ==
    LET l == d.offer[o].listing
    IN  [InvalidateOffers(d, {l}, o) EXCEPT !.offer[o] = Closed(@, "accepted"),
                                            !.listing[l] = Revised(@, "agreed")]
Accept(p, o, seen) ==
    /\ Answerable(p, o, seen, FALSE)
    /\ Settle(Agree(Signed(db, p, o, db.offer[o].terms[seen]), o), Focus(o)) /\ UNCHANGED away
Refuse(p, o, seen) ==
    /\ \/ /\ Answerable(p, o, seen, FALSE)
          /\ Settle([db EXCEPT !.offer[o] = Ended(@)], Focus(o))
       \/ /\ Answerable(p, o, seen, TRUE)
          /\ Settle([db EXCEPT !.offer[o] = Ended(@)], Focus(o))
    /\ UNCHANGED away
Counter(p, o, seen, price) ==
    /\ Answerable(p, o, seen, FALSE)
    /\ Settle([Signed(db, p, o, price) EXCEPT !.offer[o].terms = Append(@, price),
                                              !.offer[o].proposer = p], Focus(o))
    /\ UNCHANGED away

(* message and trade_reply: a new revision with the old terms. *)
Message(p, o) ==
    LET f == db.offer[o]
    IN  /\ p \in {f.buyer, Seller(db, o)} /\ UNCHANGED away
        /\ Settle([db EXCEPT !.offer[o].terms = IF f.status = "pending"
                                               THEN Append(@, Last(@)) ELSE @], Focus(o))

(* sale: an operator records a trade made outside the Vault. *)
RecordSale(p, q, i) ==
    /\ p # q /\ Holds(db, p, i, {"local", "stray", "delivered"})
    /\ Commit([Reviewed(db, Of(db, i), "sold") EXCEPT
         !.item[i].owner = q, !.item[i].state = IF @ = "local" THEN "stray" ELSE @])
    /\ Unsettled

-----------------------------------------------------------------------------
Pages(p) == UNION {[is -> [spot : Spots, ask : Ask]] :
                     is \in SUBSET {i \in Item : Holds(db, p, i, {"local", "delivered"})}}
(* The answers to what has begun; they are not bounded. *)
Negotiation(p) ==
    \/ SetAuto(p) \/ GoldIn(p) \/ \E i \in Item : EndClaim(p, i)
    \/ \E o \in DOMAIN db.offer : Message(p, o)
    \/ \E l \in DOMAIN db.listing, price \in Price : Propose(p, l, price)
    \/ \E o \in DOMAIN db.offer : \E seen \in DOMAIN db.offer[o].terms :
         \/ Accept(p, o, seen) \/ Refuse(p, o, seen)
         \/ \E price \in Price : Counter(p, o, seen, price)
Moves(p) ==
    \/ \E page \in Pages(p) : Publish(p, page)
    \/ \E i \in Item : \/ WithdrawPhysical(p, i) \/ Deposit(p, i)
                      \/ Claim(p, i)
                      \/ \E q \in Players : RecordSale(p, q, i)
    \/ GoldOut(p) \/ \E q \in Players : GiftGold(p, q)
Listings(p) ==
    \/ \E i \in Item : \/ \E ask \in Ask : EscrowPrice(p, i, ask)
                      \/ EscrowReturn(p, i)
                      \/ \E q \in Players : GiftItem(p, q, i)
    \/ \E goods \in SUBSET Item, root \in Item, ask \in Ask : BundleCreate(p, root, goods, ask)
    \/ \E l \in DOMAIN db.listing : BundleDissolve(p, l)
    \/ WantedCreate(p) \/ \E w \in DOMAIN db.wanted :
         WantedClose(p, w) \/ \E i \in Item, price \in Price : WantedRespond(p, w, i, price)
Next == \E p \in Players :
    \/ moves < MaxMoves /\ (Moves(p) \/ Listings(p)) /\ moves' = moves + 1
    \/ Negotiation(p) /\ UNCHANGED moves

Spec == Init /\ [][Next]_vars
===============================================================================
