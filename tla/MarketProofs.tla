----------------------------- MODULE MarketProofs -----------------------------
(***************************************************************************)
(* Proofs about the market: every command keeps the tables orderly, and    *)
(* what the market promises follows.                                       *)
(***************************************************************************)
EXTENDS MarketTableProofs

USE MarketAssumption

(***************************************************************************)
(* The end of a command.                                                   *)
(***************************************************************************)
\* Offers that can settle in e are offers of d, and so is what they are about.
Left(d, e) ==
    \A x \in DOMAIN e.offer : Live(e, x) /\ Active(e, e.offer[x].listing) =>
      /\ x \in DOMAIN d.offer /\ e.offer[x] = d.offer[x]
      /\ e.listing[d.offer[x].listing] = d.listing[d.offer[x].listing]

LEMMA LeftTrans ==
    ASSUME NEW c, NEW d, NEW e, Left(c, d), Left(d, e)
    PROVE  Left(c, e)
<1> SUFFICES ASSUME NEW x \in DOMAIN e.offer, Live(e, x), Active(e, e.offer[x].listing)
             PROVE  /\ x \in DOMAIN c.offer /\ e.offer[x] = c.offer[x]
                    /\ e.listing[c.offer[x].listing] = c.listing[c.offer[x].listing]
  BY DEF Left
<1>1. /\ x \in DOMAIN d.offer /\ e.offer[x] = d.offer[x]
      /\ e.listing[d.offer[x].listing] = d.listing[d.offer[x].listing]
  BY DEF Left
<1>2. Live(d, x) /\ Active(d, d.offer[x].listing)
  BY <1>1 DEF Live, Active
<1>3. /\ x \in DOMAIN c.offer /\ d.offer[x] = c.offer[x]
      /\ d.listing[c.offer[x].listing] = c.listing[c.offer[x].listing]
  BY <1>1, <1>2 DEF Left
<1> QED
  BY <1>1, <1>3

\* Nobody but the players in Q is richer in e than in d.
Richer(d, e, Q) ==
    \A p \in Players \ Q : /\ e.gold[p] <= d.gold[p]
                           /\ \A i \in Item : Holds(e, p, i, {"available"})
                                              => Holds(d, p, i, {"available"})
\* The offers that can be settled in e could be settled in d, or belong to Q.
Calm(d, e, Q) ==
    \A x \in DOMAIN e.offer : Ready(e, x) =>
      /\ x \in DOMAIN d.offer /\ e.offer[x] = d.offer[x]
      /\ Ready(d, x) \/ e.offer[x].buyer \in Q

LEMMA CalmBy ==
    ASSUME NEW d, Core(d), NEW e, Core(e), NEW Q, e.auto = d.auto, Left(d, e), Richer(d, e, Q)
    PROVE  Calm(d, e, Q)
<1> SUFFICES ASSUME NEW x \in DOMAIN e.offer, Ready(e, x), e.offer[x].buyer \notin Q
             PROVE  x \in DOMAIN d.offer /\ e.offer[x] = d.offer[x] /\ Ready(d, x)
  BY ReadyActive DEF Calm, Left
<1> DEFINE l == e.offer[x].listing
           s == e.listing[l].seller
           b == e.offer[x].buyer
<1>1. /\ Live(e, x) /\ Active(e, l) /\ x \in DOMAIN d.offer /\ e.offer[x] = d.offer[x]
      /\ e.listing[l] = d.listing[l]
  BY ReadyActive DEF Left
<1>2. /\ l \in DOMAIN d.listing /\ l \in DOMAIN e.listing /\ Active(d, l)
      /\ d.listing[l] \in ListingRow
  BY <1>1, RowsOf DEF Active
<1>3. \A i \in d.listing[l].goods : Holds(d, s, i, Holding(d.listing[l]))
                                 /\ Holds(e, s, i, Holding(d.listing[l]))
  BY <1>1, <1>2 DEF Core, Placed
<1>4. ASSUME NEW i \in d.listing[l].goods, Holds(e, s, i, {"listed"})
      PROVE  Holds(d, s, i, {"listed"})
  <2>1. Holding(d.listing[l]) \in {{"listed"}, {"local", "delivered"}}
    BY DEF Holding
  <2> HIDE DEF l, s
  <2> QED
    BY <1>3, <1>4, <2>1 DEF Holds
<1>5. /\ e.gold[b] <= d.gold[b]
      /\ \A i \in Item : Holds(e, b, i, {"available"}) => Holds(d, b, i, {"available"})
  BY <1>1, RowsOf DEF Richer
<1>6. e.gold[b] >= Terms(d, x).gold => d.gold[b] >= Terms(d, x).gold
  <2>1. b \in Players /\ Terms(d, x).gold \in Nat
    BY <1>1, RowsOf
  <2>2. e.gold[b] \in Nat /\ d.gold[b] \in Nat
    BY <2>1, Tables DEF Core
  <2> HIDE DEF b
  <2> QED
    BY <1>5, <2>1, <2>2
<1>7. Terms(e, x) = Terms(d, x)
  BY <1>1 DEF Terms
<1>8. Unhelped(d, e, x, x)
  BY <1>1, <1>4, <1>5, <1>6, <1>7 DEF Unhelped
<1> QED
  BY <1>1, <1>8, ReadyWas

\* What a command leaves.
Committed(e, waiting) ==
    /\ Sound(e, {}) /\ Waits(e, waiting) /\ waiting \subseteq Players
    /\ \A o \in DOMAIN e.offer : e.offer[o].status # "ended"
Covered(d, first, waiting) ==
    \A o \in DOMAIN d.offer : Ready(d, o) =>
        d.offer[o].buyer \in waiting \/ Selects(first, d, o)

\* A command that settles what is ready.
LEMMA Settles ==
    ASSUME left \subseteq Players, NEW d, Sound(d, {}), NEW first \in Selectors,
           Covered(d, first, left), Settle(d, first)
    PROVE  Committed(db', left')
<1> DEFINE s == Sweep(d, first)
           t == Drain(s)
<1>1. Core(d) /\ d \in Database /\ Len(d.offer) \in Nat /\ DOMAIN d.offer = 1 .. Len(d.offer)
  BY Tables DEF Sound, Core, Typed
<1>2. Budget \in Nat \ {0} /\ Passes = 2 * Budget + 1
  BY DEF MarketAssumption, Passes
<1>3. /\ s \in Sweeps /\ s.db = d /\ s.queue = <<first>> /\ s.budget = Budget /\ s.left = left
      /\ Len(<<first>>) = 1 /\ <<first>>[1] = first /\ 1 \in DOMAIN <<first>>
  BY <1>1, <1>2 DEF Sweep, Sweeps
<1> HIDE DEF s
<1>4. Between(s, Passes)
  <2>1. Len(s.queue) + 2 * s.budget <= Passes
    BY <1>2, <1>3
  <2>2. \A o \in DOMAIN d.offer : Selects(first, d, o) => Queued(s, o)
    BY <1>3 DEF Queued
  <2> QED
    BY <1>3, <2>1, <2>2 DEF Between, Sweeping, Covered
<1>5. t \in Sweeps /\ Sound(t.db, {}) /\ (t.budget # 0 => Waits(t.db, t.left))
  BY <1>4, DrainIs
<1>6. Commit(t.db) /\ left' = IF t.budget = 0 THEN Players ELSE t.left
  BY DEF Settle, s
<1> HIDE DEF t
<1>7. Waits(t.db, left') /\ left' \subseteq Players
  <2>1. \A o \in DOMAIN t.db.offer : t.db.offer[o].buyer \in Players
    BY <1>5, RowsOf DEF Sound
  <2> QED
    BY <1>5, <1>6, <2>1 DEF Waits, Sweeps
<1> QED
  BY <1>5, <1>6, <1>7, CommitOrderly DEF Committed

\* One that does not.
LEMMA Commits ==
    ASSUME NEW d, Sound(d, {}), left' \subseteq Players, Waits(d, left'), Commit(d)
    PROVE  Committed(db', left')
  BY CommitOrderly DEF Committed

\* Commands after which only the offers of Q can have become ready.
LEMMA CalmWaits ==
    ASSUME NEW d, NEW P, Waits(d, P), NEW e, NEW Q, Calm(d, e, Q)
    PROVE  Waits(e, P \cup Q)
  BY DEF Waits, Calm

LEMMA CalmCovered ==
    ASSUME NEW d, NEW P, Waits(d, P), NEW e, NEW p, Calm(d, e, {p})
    PROVE  Covered(e, Buyer(p), P)
  BY DEF Waits, Calm, Covered, Selects, Buyer

LEMMA AllCovered ==
    ASSUME NEW e, NEW P
    PROVE  Covered(e, All, P) /\ All \in Selectors
  BY DEF Covered, Selects, All, Selectors

-------------------------------------------------------------------------------
(***************************************************************************)
(* Listings are added, and opened again.                                   *)
(***************************************************************************)
LEMMA WithdrawLeft ==
    ASSUME NEW d, Core(d), NEW ls
    PROVE  Left(d, Withdraw(d, ls))
<1> DEFINE e == Withdraw(d, ls)
<1>1. /\ Typed(d) /\ DOMAIN e.offer = DOMAIN d.offer
      /\ \A l \in DOMAIN d.listing : /\ IF l \in ls /\ Active(d, l)
                                        THEN e.listing[l].status = "withdrawn"
                                        ELSE e.listing[l] = d.listing[l]
      /\ \A o \in DOMAIN d.offer : /\ d.offer[o].listing \in DOMAIN d.listing
                                   /\ IF d.offer[o].listing \in ls /\ Live(d, o)
                                      THEN e.offer[o].status = "ended"
                                      ELSE e.offer[o] = d.offer[o]
  BY WithdrawIs, WithdrawKeeps DEF Core, Linked
<1> HIDE DEF e
<1>2. Left(d, e)
  BY <1>1 DEF Left, Live, Active
<1> QED
  BY <1>2 DEF e

\* A listing that is not sold and whose offers have ended changes nothing
\* for other offers: a change of rows.
LEMMA RowsLeft ==
    ASSUME NEW d, Core(d), NEW e, RowsChanged(d, e)
    PROVE  Left(d, e)
<1>1. \A x \in DOMAIN d.offer : d.offer[x].listing \in DOMAIN d.listing
      /\ d.offer[x].listing \in DOMAIN e.listing
  <2>1. /\ Len(d.listing) \in Nat /\ DOMAIN d.listing = 1 .. Len(d.listing)
    BY Tables DEF Core
  <2>2. Linked(d) /\ \A l \in DOMAIN d.listing : l \in DOMAIN e.listing
    BY <2>1 DEF Core, RowsChanged
  <2> QED
    BY <2>2 DEF Linked
<1> QED
  BY <1>1 DEF Left, RowsChanged, Live

States == {"local", "stray", "delivered", "available", "listed", "claiming"}
HeldParts(d, e, p, i, state) ==
    /\ Typed(e) /\ e.listing = d.listing /\ e.offer = d.offer /\ e.wanted = d.wanted
    /\ e.gold = d.gold /\ e.auto = d.auto
    /\ e.item[i].owner = p /\ e.item[i].state = state
    /\ \A j \in Item : j # i => e.item[j] = d.item[j]

LEMMA HeldIs ==
    ASSUME NEW d, Typed(d), NEW p \in Players, NEW i \in Item, NEW state \in States
    PROVE  HeldParts(d, Held(d, p, i, state), p, i, state)
<1> DEFINE row == [owner |-> p, keeper |-> p, state |-> state, wants |-> FALSE]
           q == [d.item EXCEPT ![i] = row]
           e == Held(d, p, i, state)
<1>1. d.item \in [Item -> ItemRow] /\ d \in Database
  BY Tables DEF Typed
<1>2. row \in ItemRow
  BY DEF ItemRow, States
<1>3. q \in [Item -> ItemRow] /\ q[i] = row /\ \A j \in Item : j # i => q[j] = d.item[j]
  <2> HIDE DEF row
  <2> QED
    BY <1>1, <1>2
<1>4. e = [d EXCEPT !.item = q]
  BY DEF Held
<1> HIDE DEF q, e
<1>5. /\ Typed(e) /\ e.item = q
      /\ e.listing = d.listing /\ e.offer = d.offer /\ e.wanted = d.wanted
      /\ e.gold = d.gold /\ e.auto = d.auto
  BY <1>1, <1>3, <1>4 DEF Typed, Database
<1> QED
  BY <1>3, <1>5 DEF e, HeldParts

LEMMA ListIs ==
    ASSUME NEW d, Typed(d), NEW row \in ListingRow
    PROVE  LET e == List(d, row) IN
           /\ Typed(e) /\ Same(d, e, {"listing"})
           /\ Len(e.listing) = Len(d.listing) + 1
           /\ DOMAIN e.listing = 1 .. (Len(d.listing) + 1)
           /\ \A l \in DOMAIN d.listing : l \in DOMAIN e.listing /\ e.listing[l] = d.listing[l]
                                       /\ l # Len(d.listing) + 1
           /\ \A l \in DOMAIN e.listing : l \in DOMAIN d.listing \/ l = Len(d.listing) + 1
           /\ e.listing[Len(d.listing) + 1] = row
<1> DEFINE q == Append(d.listing, row)
           e == List(d, row)
<1>1. /\ d \in Database /\ d.listing \in Seq(ListingRow) /\ Len(d.listing) \in Nat
      /\ DOMAIN d.listing = 1 .. Len(d.listing)
  BY Tables DEF Typed
<1>2. /\ q \in Seq(ListingRow) /\ Len(q) = Len(d.listing) + 1
      /\ DOMAIN q = 1 .. (Len(d.listing) + 1)
      /\ \A l \in DOMAIN d.listing : q[l] = d.listing[l]
      /\ q[Len(d.listing) + 1] = row
  BY <1>1, SeqAppend
<1>3. e = [d EXCEPT !.listing = q]
  BY DEF List
<1> HIDE DEF q, e
<1>4. Typed(e) /\ e.listing = q /\ Same(d, e, {"listing"})
  BY <1>1, <1>2, <1>3 DEF Typed, Database, Same
<1> QED
  BY <1>1, <1>2, <1>4 DEF e

LEMMA RowIs ==
    ASSUME NEW p \in Players, NEW root \in Item, NEW goods \in SUBSET Item,
           NEW status \in {"open", "agreed"}, NEW ask \in Ask, NEW spot \in Spots \cup {0}
    PROVE  LET row == NewListing(p, root, goods, status, ask, spot) IN
           /\ row \in ListingRow /\ row.seller = p /\ row.root = root /\ row.goods = goods
           /\ row.status = status /\ row.ask = ask /\ row.spot = spot /\ row.rev = 1
  BY DEF NewListing, ListingRow

\* What e has for sale that d has not: the goods of listing l, which is
\* open, in the state that such a listing has its goods in.
Offered(d, e, l) ==
    LET row == e.listing[l]
    IN  /\ Typed(e) /\ RowsChanged(d, e) /\ l \in DOMAIN e.listing
        /\ \A m \in DOMAIN e.listing : m # l => m \in DOMAIN d.listing /\ e.listing[m] = d.listing[m]
        /\ row.status = "open" /\ row.goods \subseteq Item /\ row.root \in row.goods
        /\ \A i \in row.goods : Holds(e, row.seller, i, Holding(row))
        /\ \A i \in Item : i \notin row.goods =>
             e.item[i].owner = d.item[i].owner /\ e.item[i].state = d.item[i].state
        /\ row.spot # 0 =>
             /\ row.goods = {row.root}
             /\ \A m \in DOMAIN d.listing :
                  /\ d.listing[m].seller = row.seller /\ d.listing[m].root = row.root
                  /\ d.listing[m].spot = row.spot
                  => m = l

LEMMA OfferedCore ==
    ASSUME NEW d, Core(d), NEW e, NEW l, Offered(d, e, l),
           \A m \in DOMAIN d.listing : m # l /\ Active(d, m) =>
               \A i \in d.listing[m].goods \cap e.listing[l].goods :
                 e.item[i].owner = d.item[i].owner /\ e.item[i].state = d.item[i].state
    PROVE  Core(e)
<1> DEFINE row == e.listing[l]
<1>1. /\ Typed(d) /\ Typed(e) /\ RowsChanged(d, e) /\ l \in DOMAIN e.listing
      /\ \A m \in DOMAIN e.listing : m # l => m \in DOMAIN d.listing /\ e.listing[m] = d.listing[m]
      /\ Placed(d)
  BY DEF Core, Offered
<1>2. ASSUME NEW m \in DOMAIN e.listing, m # l, Active(e, m), NEW i \in e.listing[m].goods
      PROVE  Holds(e, e.listing[m].seller, i, Holding(e.listing[m]))
  <2>1. m \in DOMAIN d.listing /\ e.listing[m] = d.listing[m] /\ Active(d, m)
    BY <1>1, <1>2 DEF Active
  <2>2. Holds(d, d.listing[m].seller, i, Holding(d.listing[m])) /\ i \in Item
    BY <1>2, <2>1, SoldHolds
  <2>3. e.item[i].owner = d.item[i].owner /\ e.item[i].state = d.item[i].state
    BY <1>2, <2>1, <2>2 DEF Offered
  <2> QED
    BY <2>1, <2>2, <2>3 DEF Holds
<1>3. ASSUME NEW m \in DOMAIN e.listing, m # l, e.listing[m].spot # 0
      PROVE  /\ e.listing[m].goods = {e.listing[m].root}
             /\ \A k \in DOMAIN e.listing :
                  /\ e.listing[k].seller = e.listing[m].seller
                  /\ e.listing[k].root = e.listing[m].root
                  /\ e.listing[k].spot = e.listing[m].spot
                  => k = m
  <2>1. m \in DOMAIN d.listing /\ e.listing[m] = d.listing[m]
    BY <1>1, <1>3
  <2>2. ASSUME e.listing[l].seller = e.listing[m].seller,
               e.listing[l].root = e.listing[m].root,
               e.listing[l].spot = e.listing[m].spot
        PROVE  FALSE
    BY <1>3, <2>1, <2>2 DEF Offered
  <2>3. d.listing[m].goods = {d.listing[m].root}
    BY <1>1, <1>3, <2>1 DEF Placed
  <2>4. ASSUME NEW k \in DOMAIN e.listing, k # m,
               e.listing[k].seller = e.listing[m].seller,
               e.listing[k].root = e.listing[m].root,
               e.listing[k].spot = e.listing[m].spot
        PROVE  FALSE
    <3>1. k # l
      BY <2>2, <2>4
    <3>2. k \in DOMAIN d.listing /\ e.listing[k] = d.listing[k]
      BY <1>1, <3>1
    <3> QED
      BY <1>1, <1>3, <2>1, <2>4, <3>2 DEF Placed
  <2> QED
    BY <2>1, <2>3, <2>4
<1>4. ASSUME row.spot # 0
      PROVE  /\ row.goods = {row.root}
             /\ \A k \in DOMAIN e.listing :
                  /\ e.listing[k].seller = row.seller /\ e.listing[k].root = row.root
                  /\ e.listing[k].spot = row.spot
                  => k = l
  BY <1>1, <1>4 DEF Offered
<1>5. row.root \in row.goods /\ \A i \in row.goods : Holds(e, row.seller, i, Holding(row))
  BY DEF Offered
<1>6. \A m \in DOMAIN e.listing : m # l => e.listing[m].root \in e.listing[m].goods
  BY <1>1 DEF Placed
<1> HIDE DEF row
<1>7. Placed(e)
  <2> SUFFICES ASSUME NEW m \in DOMAIN e.listing
               PROVE  LET r == e.listing[m] IN
                      /\ r.root \in r.goods
                      /\ r.spot # 0 =>
                           /\ r.goods = {r.root}
                           /\ \A k \in DOMAIN e.listing :
                                /\ e.listing[k].seller = r.seller /\ e.listing[k].root = r.root
                                /\ e.listing[k].spot = r.spot
                                => k = m
                      /\ Active(e, m) => \A i \in r.goods : Holds(e, r.seller, i, Holding(r))
    BY DEF Placed
  <2>1. CASE m = l
    BY <1>4, <1>5, <2>1 DEF row
  <2>2. CASE m # l
    BY <1>2, <1>3, <1>6, <2>2
  <2> QED
    BY <2>1, <2>2
<1> QED
  BY <1>1, <1>7, RowsCore

\* ... when nothing else has these goods for sale.
LEMMA OfferedSales ==
    ASSUME NEW d, Core(d), NEW e, NEW l, Offered(d, e, l), NEW Y, Exclusive(d, Y),
           NEW X, ForSale(d, X), l \in DOMAIN d.listing => ~Active(d, l),
           \A i \in e.listing[l].goods : ~Sold(d, i)
    PROVE  Core(e) /\ Exclusive(e, Y) /\ ForSale(e, X \ e.listing[l].goods)
<1> DEFINE g == e.listing[l].goods
<1>1. /\ l \in DOMAIN e.listing /\ Active(e, l) /\ DOMAIN d.listing \subseteq DOMAIN e.listing
      /\ \A m \in DOMAIN e.listing : m # l => m \in DOMAIN d.listing /\ e.listing[m] = d.listing[m]
      /\ \A i \in Item : i \notin g => e.item[i].owner = d.item[i].owner /\ e.item[i].state = d.item[i].state
  <2>1. DOMAIN d.listing \subseteq DOMAIN e.listing
    BY Tables DEF Core, Offered, RowsChanged
  <2> QED
    BY <2>1 DEF Offered, Active
<1>2. ASSUME NEW m \in DOMAIN e.listing, m # l, Active(e, m)
      PROVE  m \in DOMAIN d.listing /\ Active(d, m) /\ e.listing[m].goods = d.listing[m].goods
             /\ d.listing[m].goods \cap g = {}
  BY <1>1, <1>2 DEF Active, Sold
<1>3. Core(e)
  <2>1. \A m \in DOMAIN d.listing : Active(d, m) => d.listing[m].goods \cap g = {}
    BY DEF Sold
  <2> QED
    BY <2>1, OfferedCore
<1> HIDE DEF g
<1>4. Exclusive(e, Y)
  <2> SUFFICES ASSUME NEW k \in DOMAIN e.listing, NEW m \in DOMAIN e.listing, k \notin Y, m \notin Y,
                      Active(e, k), Active(e, m), e.listing[k].goods \cap e.listing[m].goods # {},
                      k # m
               PROVE  FALSE
    BY DEF Exclusive
  <2>1. CASE k # l /\ m # l
    BY <1>2, <2>1 DEF Exclusive
  <2>2. CASE k = l \/ m = l
    BY <1>2, <2>2 DEF g
  <2> QED
    BY <2>1, <2>2
<1>5. ForSale(e, X \ g)
  <2> SUFFICES ASSUME NEW i \in Item
               PROVE  IF i \in X \ g THEN ~Sold(e, i)
                      ELSE e.item[i].state = "listed" => Sold(e, i)
    BY DEF ForSale
  <2>1. CASE i \in g
    BY <1>1, <2>1 DEF Sold, g
  <2>2. CASE i \notin g
    <3>1. Sold(e, i) <=> Sold(d, i)
      <4>1. ASSUME Sold(d, i) PROVE Sold(e, i)
        <5>1. PICK m \in DOMAIN d.listing : Active(d, m) /\ i \in d.listing[m].goods
          BY <4>1 DEF Sold
        <5>2. m # l /\ m \in DOMAIN e.listing
          BY <1>1, <5>1
        <5> QED
          BY <1>1, <5>1, <5>2 DEF Sold, Active
      <4>2. ASSUME Sold(e, i) PROVE Sold(d, i)
        <5>1. PICK m \in DOMAIN e.listing : Active(e, m) /\ i \in e.listing[m].goods
          BY <4>2 DEF Sold
        <5>2. m # l
          BY <2>2, <5>1 DEF g
        <5> QED
          BY <1>2, <5>1, <5>2 DEF Sold
      <4> QED
        BY <4>1, <4>2
    <3> QED
      BY <1>1, <2>2, <3>1 DEF ForSale
  <2> QED
    BY <2>1, <2>2
<1> QED
  BY <1>3, <1>4, <1>5 DEF g

-------------------------------------------------------------------------------
\* A new listing, and its goods.
Added(d, e, row) ==
    /\ Typed(e) /\ e.listing = Append(d.listing, row) /\ e.offer = d.offer
    /\ e.wanted = d.wanted
    /\ \A i \in row.goods : Holds(e, row.seller, i, Holding(row))
    /\ \A i \in Item : i \notin row.goods =>
         e.item[i].owner = d.item[i].owner /\ e.item[i].state = d.item[i].state
Fresh(d, row) ==
    /\ row \in ListingRow /\ row.status = "open" /\ row.root \in row.goods
    /\ row.spot # 0 =>
         /\ row.goods = {row.root}
         /\ \A m \in DOMAIN d.listing :
              ~(/\ d.listing[m].seller = row.seller /\ d.listing[m].root = row.root
                /\ d.listing[m].spot = row.spot)

LEMMA AddedIs ==
    ASSUME NEW d, Core(d), NEW row, Fresh(d, row), NEW e, Added(d, e, row)
    PROVE  LET l == Len(d.listing) + 1 IN
           /\ Offered(d, e, l) /\ e.listing[l] = row /\ l \notin DOMAIN d.listing
           /\ \A m \in DOMAIN d.listing : e.listing[m] = d.listing[m]
<1> USE DEF Added, Fresh
<1> DEFINE l == Len(d.listing) + 1
<1>1. /\ Typed(d) /\ Len(d.listing) \in Nat /\ Len(d.wanted) \in Nat
      /\ DOMAIN d.listing = 1 .. Len(d.listing)
      /\ \A m \in DOMAIN d.listing : d.listing[m].rev \in Nat
  BY Tables DEF Core, ListingRow
<1>2. /\ Len(e.listing) = Len(d.listing) + 1
      /\ \A m \in DOMAIN d.listing : m \in DOMAIN e.listing /\ e.listing[m] = d.listing[m] /\ m # l
      /\ \A m \in DOMAIN e.listing : m \in DOMAIN d.listing \/ m = l
      /\ l \in DOMAIN e.listing /\ e.listing[l] = row
  <2>1. List(d, row).listing = e.listing
    BY <1>1 DEF List, Typed, Database
  <2>2. /\ Len(e.listing) = Len(d.listing) + 1
        /\ DOMAIN e.listing = 1 .. (Len(d.listing) + 1)
        /\ \A m \in DOMAIN d.listing : m \in DOMAIN e.listing /\ e.listing[m] = d.listing[m]
                                    /\ m # l
        /\ \A m \in DOMAIN e.listing : m \in DOMAIN d.listing \/ m = l
        /\ e.listing[l] = row
    BY <1>1, <2>1, ListIs
  <2>3. l \in 1 .. (Len(d.listing) + 1)
    BY <1>1
  <2> QED
    BY <2>2, <2>3
<1> HIDE DEF l
<1>3. \A o \in DOMAIN d.offer : d.offer[o].listing # l
  BY <1>2 DEF Core, Linked
<1>4. RowsChanged(d, e)
  <2>1. \A m \in DOMAIN d.listing : e.listing[m].rev >= d.listing[m].rev
    BY <1>1, <1>2
  <2>2. Len(e.listing) >= Len(d.listing) /\ Len(e.wanted) >= Len(d.wanted)
    BY <1>1, <1>2
  <2> QED
    BY <1>2, <1>3, <2>1, <2>2 DEF RowsChanged
<1>5. row.goods \subseteq Item
  BY DEF ListingRow
<1> QED
  BY <1>2, <1>4, <1>5 DEF Offered, l

LEMMA ReopenIs ==
    ASSUME NEW d, Typed(d), NEW l \in DOMAIN d.listing, NEW ask \in Ask
    PROVE  LET e == Reopen(d, l, ask) IN
           /\ Typed(e) /\ Same(d, e, {"listing"}) /\ DOMAIN e.listing = DOMAIN d.listing
           /\ Len(e.listing) = Len(d.listing)
           /\ \A m \in DOMAIN d.listing : m # l => e.listing[m] = d.listing[m]
           /\ e.listing[l].seller = d.listing[l].seller /\ e.listing[l].root = d.listing[l].root
           /\ e.listing[l].goods = d.listing[l].goods /\ e.listing[l].spot = d.listing[l].spot
           /\ e.listing[l].status = "open" /\ e.listing[l].rev = d.listing[l].rev + 1
           /\ e.listing[l].ask = ask
<1> DEFINE e == Reopen(d, l, ask)
           row == [Revised(d.listing[l], "open") EXCEPT !.ask = ask]
           q == [d.listing EXCEPT ![l] = row]
<1>1. /\ d \in Database /\ Len(d.listing) \in Nat /\ DOMAIN d.listing = 1 .. Len(d.listing)
      /\ \A m \in DOMAIN d.listing : d.listing[m] \in ListingRow
  BY Tables DEF Typed
<1>2. /\ row \in ListingRow /\ row.status = "open" /\ row.rev = d.listing[l].rev + 1
      /\ row.ask = ask
      /\ row.seller = d.listing[l].seller /\ row.root = d.listing[l].root
      /\ row.goods = d.listing[l].goods /\ row.spot = d.listing[l].spot
  <2> DEFINE r == Revised(d.listing[l], "open")
  <2>1. /\ r \in ListingRow
           /\ r.status = "open" /\ r.rev = d.listing[l].rev + 1
           /\ r.seller = d.listing[l].seller /\ r.root = d.listing[l].root
           /\ r.goods = d.listing[l].goods /\ r.spot = d.listing[l].spot
    BY <1>1, RevisedRow
  <2> HIDE DEF r
  <2>2. row = [r EXCEPT !.ask = ask]
    BY DEF r
  <2> QED
    BY <2>1, <2>2 DEF ListingRow
<1>3. e = [d EXCEPT !.listing = q]
  BY DEF Reopen
<1> HIDE DEF row, e
<1>4. /\ DOMAIN q = DOMAIN d.listing /\ q[l] = row /\ q = [m \in DOMAIN q |-> q[m]]
      /\ \A m \in DOMAIN d.listing : m # l => q[m] = d.listing[m]
  OBVIOUS
<1> HIDE DEF q
<1>5. \A m \in DOMAIN q : q[m] \in ListingRow
  BY <1>1, <1>2, <1>4
<1>6. q \in Seq(ListingRow) /\ Len(q) = Len(d.listing)
  <2>1. DOMAIN q = 1 .. Len(d.listing)
    BY <1>1, <1>4
  <2> QED
    BY <1>1, <1>4, <1>5, <2>1, SeqBy
<1>7. Typed(e) /\ e.listing = q /\ Same(d, e, {"listing"})
  BY <1>1, <1>3, <1>6 DEF Typed, Database, Same
<1> QED
  BY <1>2, <1>4, <1>6, <1>7 DEF e

\* A listing whose offers have ended is opened again, for its goods in e.
Reopened(d, e, l, ask) ==
    /\ l \in DOMAIN d.listing /\ ask \in Ask
    /\ \A o \in DOMAIN d.offer : d.offer[o].listing = l => d.offer[o].status = "ended"
    /\ Typed(e) /\ e.listing = Reopen(d, l, ask).listing /\ e.offer = d.offer
    /\ e.wanted = d.wanted
    /\ \A i \in d.listing[l].goods : Holds(e, d.listing[l].seller, i, Holding(d.listing[l]))
    /\ \A i \in Item : i \notin d.listing[l].goods =>
         e.item[i].owner = d.item[i].owner /\ e.item[i].state = d.item[i].state

LEMMA ReopenedIs ==
    ASSUME NEW d, Core(d), NEW l, NEW ask, NEW e, Reopened(d, e, l, ask)
    PROVE  Offered(d, e, l) /\ e.listing[l].goods = d.listing[l].goods
<1> USE DEF Reopened
<1>1. /\ Typed(d) /\ Len(d.listing) \in Nat /\ Len(d.wanted) \in Nat
      /\ \A m \in DOMAIN d.listing : d.listing[m] \in ListingRow
  BY Tables DEF Core
<1>2. /\ DOMAIN e.listing = DOMAIN d.listing /\ Len(e.listing) = Len(d.listing)
      /\ \A m \in DOMAIN d.listing : m # l => e.listing[m] = d.listing[m]
      /\ e.listing[l].seller = d.listing[l].seller /\ e.listing[l].root = d.listing[l].root
      /\ e.listing[l].goods = d.listing[l].goods /\ e.listing[l].spot = d.listing[l].spot
      /\ e.listing[l].status = "open" /\ e.listing[l].rev = d.listing[l].rev + 1
  BY <1>1, ReopenIs
<1>3. /\ \A m \in DOMAIN d.listing : d.listing[m].rev \in Nat /\ d.listing[m].goods \subseteq Item
  BY <1>1 DEF ListingRow
<1>4. RowsChanged(d, e)
  <2>1. \A m \in DOMAIN d.listing : e.listing[m].rev >= d.listing[m].rev
                                 /\ e.listing[m].seller = d.listing[m].seller
    <3> TAKE m \in DOMAIN d.listing
    <3>1. CASE m = l
      <4>1. d.listing[l].rev \in Nat
        BY <1>3
      <4> QED
        BY <1>2, <3>1, <4>1
    <3>2. CASE m # l
      <4>1. d.listing[m].rev \in Nat
        BY <1>3
      <4> QED
        BY <1>2, <3>2, <4>1
    <3> QED
      BY <3>1, <3>2
  <2>2. Len(e.listing) >= Len(d.listing) /\ Len(e.wanted) >= Len(d.wanted)
    BY <1>1, <1>2
  <2> QED
    BY <1>2, <2>1, <2>2 DEF RowsChanged
<1>5. Holding(e.listing[l]) = Holding(d.listing[l])
  BY <1>2 DEF Holding
<1>6. /\ d.listing[l].root \in d.listing[l].goods
      /\ d.listing[l].spot # 0 =>
           /\ d.listing[l].goods = {d.listing[l].root}
           /\ \A m \in DOMAIN d.listing :
                /\ d.listing[m].seller = d.listing[l].seller /\ d.listing[m].root = d.listing[l].root
                /\ d.listing[m].spot = d.listing[l].spot
                => m = l
  BY DEF Core, Placed
<1> QED
  BY <1>2, <1>3, <1>4, <1>5, <1>6 DEF Offered

\* A command has gone forward to tables in which the sales are in order.
Forward(d, e) == Core(e) /\ Exclusive(e, {}) /\ ForSale(e, {}) /\ Left(d, e)
Waiting(d, X) == Core(d) /\ Exclusive(d, {}) /\ ForSale(d, X)

LEMMA AddedForward ==
    ASSUME NEW d, NEW X, Waiting(d, X), NEW row, Fresh(d, row), NEW e, Added(d, e, row),
           X \subseteq row.goods, \A i \in row.goods : ~Sold(d, i)
    PROVE  Forward(d, e)
<1> DEFINE l == Len(d.listing) + 1
<1>1. Core(d) /\ Exclusive(d, {}) /\ ForSale(d, X)
  BY DEF Waiting
<1>2. Offered(d, e, l) /\ e.listing[l] = row /\ l \notin DOMAIN d.listing
  BY <1>1, AddedIs
<1> HIDE DEF l
<1>3. Core(e) /\ Exclusive(e, {}) /\ ForSale(e, X \ e.listing[l].goods)
  BY <1>1, <1>2, OfferedSales
<1>4. X \ e.listing[l].goods = {}
  BY <1>2
<1>5. Left(d, e)
  BY <1>1, <1>2, RowsLeft DEF Offered
<1> QED
  BY <1>3, <1>4, <1>5 DEF Forward

LEMMA ReopenedForward ==
    ASSUME NEW d, NEW X, Waiting(d, X), NEW l, NEW ask, NEW e, Reopened(d, e, l, ask),
           ~Active(d, l), X \subseteq d.listing[l].goods, \A i \in d.listing[l].goods : ~Sold(d, i)
    PROVE  Forward(d, e)
<1>1. Core(d) /\ Exclusive(d, {}) /\ ForSale(d, X)
  BY DEF Waiting
<1>2. Offered(d, e, l) /\ e.listing[l].goods = d.listing[l].goods
  BY <1>1, ReopenedIs
<1>3. Core(e) /\ Exclusive(e, {}) /\ ForSale(e, X \ e.listing[l].goods)
  BY <1>1, <1>2, OfferedSales
<1>4. X \ e.listing[l].goods = {}
  BY <1>2
<1>5. Left(d, e)
  BY <1>1, <1>2, RowsLeft DEF Offered
<1> QED
  BY <1>3, <1>4, <1>5 DEF Forward

\* Items change that are not for sale, and what is no item or offer.
Moved(d, e, X) ==
    /\ Typed(e) /\ e.listing = d.listing /\ e.offer = d.offer /\ Len(e.wanted) >= Len(d.wanted)
    /\ \A i \in Item :
         /\ Sold(d, i) => e.item[i].owner = d.item[i].owner /\ e.item[i].state = d.item[i].state
         /\ e.item[i].state = "listed" => d.item[i].state = "listed" /\ i \notin X

LEMMA MovedForward ==
    ASSUME NEW d, NEW X, Waiting(d, X), NEW e, Moved(d, e, X)
    PROVE  Forward(d, e)
<1>1. /\ Core(d) /\ Exclusive(d, {}) /\ ForSale(d, X) /\ e.listing = d.listing
      /\ e.offer = d.offer
  BY DEF Waiting, Moved
<1>2. Core(e)
  BY <1>1, ItemsCore DEF Moved
<1>3. Exclusive(e, {}) /\ ForSale(e, {})
  <2>1. \A i \in Item : e.item[i].state = "listed" => d.item[i].state = "listed" /\ i \notin X
    BY DEF Moved
  <2> QED
    BY <1>1, <2>1 DEF Exclusive, ForSale, Sold, Active
<1>4. Left(d, e)
  BY <1>1 DEF Left, Core, Linked
<1> QED
  BY <1>2, <1>3, <1>4 DEF Forward

-------------------------------------------------------------------------------
(***************************************************************************)
(* Deposits.                                                               *)
(***************************************************************************)
\* The listings of an item that is in a stash.
LEMMA InStash ==
    ASSUME NEW d, Core(d), NEW i \in Item, d.item[i].state \in {"local", "stray", "delivered"},
           NEW l \in DOMAIN d.listing, Active(d, l), i \in d.listing[l].goods
    PROVE  /\ d.listing[l].spot # 0 /\ d.listing[l].goods = {i} /\ d.listing[l].root = i
           /\ d.listing[l].seller = d.item[i].owner
<1>1. Holds(d, d.listing[l].seller, i, Holding(d.listing[l]))
  BY SoldHolds
<1>2. d.listing[l].spot # 0 /\ d.listing[l].seller = d.item[i].owner
  BY <1>1 DEF Holds, Holding
<1>3. d.listing[l].goods = {d.listing[l].root}
  BY <1>2 DEF Core, Placed
<1> QED
  BY <1>2, <1>3

\* ... and of what is published: no item that the Vault lists.
LEMMA PublishedIs ==
    ASSUME NEW d, Core(d), NEW l \in DOMAIN d.listing, d.listing[l].spot # 0
    PROVE  /\ d.listing[l].goods = {d.listing[l].root} /\ d.listing[l].root \in Item
           /\ Active(d, l) => d.item[d.listing[l].root].state \in {"local", "delivered"}
           /\ \A o \in DOMAIN d.offer : d.offer[o].listing = l =>
                d.offer[o].status # "completed"
<1>1. d.listing[l] \in ListingRow /\ d.listing[l].goods = {d.listing[l].root}
  BY Tables DEF Core, Placed
<1>2. d.listing[l].root \in Item
  BY <1>1 DEF ListingRow
<1>3. ASSUME Active(d, l) PROVE d.item[d.listing[l].root].state \in {"local", "delivered"}
  <2>1. Holds(d, d.listing[l].seller, d.listing[l].root, Holding(d.listing[l]))
    BY <1>1, <1>3, SoldHolds
  <2> QED
    BY <2>1 DEF Holds, Holding
<1>4. AgreedPairs(d)
  BY AgreedSays
<1>5. ASSUME NEW o \in DOMAIN d.offer, d.offer[o].listing = l PROVE d.offer[o].status # "completed"
  BY <1>4, <1>5, AgreedOffer DEF OfferAgrees
<1> QED
  BY <1>1, <1>2, <1>3, <1>5

\* The published places of an item end.
RetiredParts(d, e, p, i) ==
    LET ls == Published(d, p) \cap Of(d, i)
    IN  /\ Core(e) /\ Exclusive(e, {}) /\ ForSale(e, {i}) /\ Left(d, e)
        /\ e.item = d.item /\ e.gold = d.gold /\ e.auto = d.auto
        /\ DOMAIN e.listing = DOMAIN d.listing
        /\ \A l \in ls : /\ l \in DOMAIN e.listing
                         /\ e.listing[l].seller = p /\ e.listing[l].root = i
                         /\ e.listing[l].goods = {i} /\ e.listing[l].spot = 0 /\ ~Active(e, l)
                         /\ \A o \in DOMAIN e.offer : e.offer[o].listing = l =>
                              e.offer[o].status = "ended"

LEMMA RetiredIs ==
    ASSUME NEW d, Sound(d, {}), NEW p \in Players, NEW i \in Item,
           Holds(d, p, i, {"local", "delivered"})
    PROVE  RetiredParts(d, Retired(d, p, i), p, i)
<1> DEFINE ls == Published(d, p) \cap Of(d, i)
           w == Withdraw(d, ls)
           e == Retired(d, p, i)
           q == [l \in DOMAIN w.listing |-> IF l \in ls THEN [w.listing[l] EXCEPT !.spot = 0]
                                            ELSE w.listing[l]]
<1>1. /\ Core(d) /\ Typed(d) /\ Exclusive(d, {}) /\ ForSale(d, {})
      /\ d.item[i].owner = p /\ d.item[i].state \in {"local", "delivered"}
  BY DEF Sound, Core, Holds
<1>2. \A l \in ls : /\ l \in DOMAIN d.listing /\ d.listing[l].spot # 0 /\ d.listing[l].seller = p
                    /\ d.listing[l].root = i /\ d.listing[l].goods = {i}
                    /\ \A o \in DOMAIN d.offer : d.offer[o].listing = l =>
                         d.offer[o].status # "completed"
  <2>1. \A l \in ls : /\ l \in DOMAIN d.listing /\ d.listing[l].spot # 0 /\ d.listing[l].seller = p
                      /\ d.listing[l].root = i
    BY DEF Published, Of
  <2> QED
    BY <1>1, <2>1, PublishedIs
<1>3. \A l \in DOMAIN d.listing : Active(d, l) /\ i \in d.listing[l].goods => l \in ls
  <2>1. \A l \in DOMAIN d.listing : Active(d, l) /\ i \in d.listing[l].goods =>
           /\ d.listing[l].spot # 0 /\ d.listing[l].root = i /\ d.listing[l].seller = p
    BY <1>1, InStash
  <2> QED
    BY <2>1 DEF Published, Of
<1> HIDE DEF ls
<1>4. Core(w) /\ Exclusive(w, {}) /\ ForSale(w, {i}) /\ Left(d, w)
  <2>1. Core(w) /\ Left(d, w)
    BY <1>1, WithdrawCore, WithdrawLeft
  <2>2. \A l \in DOMAIN d.listing : Active(d, l) /\ d.listing[l].goods \cap {i} # {} => l \in ls
    BY <1>3
  <2>3. \A l \in DOMAIN d.listing \cap ls : Active(d, l) =>
              \A j \in d.listing[l].goods : d.item[j].state = "listed" => j \in {i}
    BY <1>2
  <2>4. Exclusive(w, {} \ ls) /\ ForSale(w, {i})
    BY <1>1, <2>2, <2>3, WithdrawSales
  <2> QED
    BY <2>1, <2>4
<1>5. /\ w.item = d.item /\ w.gold = d.gold /\ w.auto = d.auto /\ w.wanted = d.wanted
      /\ DOMAIN w.listing = DOMAIN d.listing /\ DOMAIN w.offer = DOMAIN d.offer
      /\ \A l \in DOMAIN d.listing :
           /\ w.listing[l].seller = d.listing[l].seller /\ w.listing[l].root = d.listing[l].root
           /\ w.listing[l].goods = d.listing[l].goods /\ w.listing[l].spot = d.listing[l].spot
           /\ Active(w, l) <=> Active(d, l) /\ l \notin ls
      /\ \A o \in DOMAIN d.offer :
           /\ w.offer[o].listing = d.offer[o].listing
           /\ IF d.offer[o].listing \in ls /\ Live(d, o) THEN w.offer[o].status = "ended"
              ELSE w.offer[o] = d.offer[o]
  BY <1>1, WithdrawIs, WithdrawKeeps DEF Same
<1>6. e = [w EXCEPT !.listing = q]
  BY DEF Retired, ls
<1> HIDE DEF w, e
<1>7. /\ Typed(w) /\ Len(w.listing) \in Nat /\ DOMAIN w.listing = 1 .. Len(w.listing)
      /\ \A l \in DOMAIN w.listing : w.listing[l] \in ListingRow
      /\ \A o \in DOMAIN w.offer : w.offer[o] \in OfferRow
      /\ Len(w.wanted) \in Nat
  BY <1>4, Tables DEF Core
<1>8. /\ q \in Seq(ListingRow) /\ Len(q) = Len(w.listing) /\ DOMAIN q = DOMAIN w.listing
      /\ \A l \in DOMAIN w.listing :
           /\ q[l].seller = w.listing[l].seller /\ q[l].root = w.listing[l].root
           /\ q[l].goods = w.listing[l].goods /\ q[l].status = w.listing[l].status
           /\ q[l].rev = w.listing[l].rev
           /\ q[l].spot = IF l \in ls THEN 0 ELSE w.listing[l].spot
           /\ l \notin ls => q[l] = w.listing[l]
  <2>1. \A l \in DOMAIN w.listing :
           /\ q[l] \in ListingRow
           /\ q[l].seller = w.listing[l].seller /\ q[l].root = w.listing[l].root
           /\ q[l].goods = w.listing[l].goods /\ q[l].status = w.listing[l].status
           /\ q[l].rev = w.listing[l].rev
           /\ q[l].spot = IF l \in ls THEN 0 ELSE w.listing[l].spot
           /\ l \notin ls => q[l] = w.listing[l]
    BY <1>7 DEF ListingRow
  <2>2. DOMAIN q = DOMAIN w.listing /\ q = [l \in DOMAIN q |-> q[l]]
    OBVIOUS
  <2> HIDE DEF q
  <2>3. DOMAIN q = 1 .. Len(w.listing)
    BY <1>7, <2>2
  <2>5. \A l \in DOMAIN q : q[l] \in ListingRow
    BY <2>1, <2>2
  <2>4. q \in Seq(ListingRow) /\ Len(q) = Len(w.listing)
    BY <1>7, <2>2, <2>3, <2>5, SeqBy
  <2> QED
    BY <2>1, <2>2, <2>4
<1> HIDE DEF q
<1>9. Typed(e) /\ e.listing = q /\ Same(w, e, {"listing"})
  BY <1>6, <1>7, <1>8 DEF Typed, Database, Same
<1>10. /\ e.item = w.item /\ e.gold = w.gold /\ e.auto = w.auto /\ e.wanted = w.wanted
       /\ e.offer = w.offer
  BY <1>9 DEF Same
<1>11. \A l \in DOMAIN w.listing : Active(e, l) <=> Active(w, l)
  BY <1>8, <1>9 DEF Active
<1>12. \A o \in DOMAIN w.offer : w.offer[o].listing \in ls => w.offer[o].status = "ended"
  <2> SUFFICES ASSUME NEW o \in DOMAIN w.offer, w.offer[o].listing \in ls
               PROVE  w.offer[o].status = "ended"
    OBVIOUS
  <2>1. d.offer[o].listing \in ls /\ o \in DOMAIN d.offer /\ d.offer[o].status # "completed"
    BY <1>2, <1>5
  <2>2. ~Live(d, o) => w.offer[o] = d.offer[o]
    BY <1>5
  <2>3. w.offer[o].status \in {"pending", "accepted", "completed", "ended"}
    BY <1>7 DEF OfferRow, OfferStatus
  <2> QED
    BY <1>5, <2>1, <2>2, <2>3 DEF Live
<1>13. RowsChanged(w, e)
  <2>1. \A l \in DOMAIN w.listing : w.listing[l].rev \in Nat
    BY <1>7 DEF ListingRow
  <2>2. \A l \in ls : w.listing[l].status # "agreed"
    BY <1>2, <1>5 DEF Active
  <2>3. e.offer = w.offer /\ Len(e.wanted) >= Len(w.wanted) /\ Len(e.listing) >= Len(w.listing)
    BY <1>7, <1>8, <1>9, <1>10
  <2>4. \A l \in DOMAIN w.listing : e.listing[l].seller = w.listing[l].seller
                                 /\ e.listing[l].rev >= w.listing[l].rev
    BY <1>8, <1>9, <2>1
  <2>5. ASSUME NEW l \in DOMAIN e.listing, l \notin ls
        PROVE  l \in DOMAIN w.listing /\ e.listing[l] = w.listing[l]
    BY <1>8, <1>9, <2>5
  <2>6. ASSUME NEW l \in ls, l \in DOMAIN w.listing
        PROVE  /\ e.listing[l].status # "agreed"
               /\ \A o \in DOMAIN w.offer : w.offer[o].listing = l => w.offer[o].status = "ended"
    BY <1>8, <1>9, <1>12, <2>2, <2>6
  <2>7. DOMAIN e.listing = DOMAIN w.listing
    BY <1>8, <1>9
  <2> QED
    BY <2>3, <2>4, <2>5, <2>6, <2>7 DEF RowsChanged
<1>14. Placed(e)
  <2>1. \A l \in ls : ~Active(e, l)
    BY <1>2, <1>5, <1>11
  <2> SUFFICES ASSUME NEW l \in DOMAIN e.listing
               PROVE  LET r == e.listing[l] IN
                      /\ r.root \in r.goods
                      /\ r.spot # 0 =>
                           /\ r.goods = {r.root}
                           /\ \A k \in DOMAIN e.listing :
                                /\ e.listing[k].seller = r.seller /\ e.listing[k].root = r.root
                                /\ e.listing[k].spot = r.spot
                                => k = l
                      /\ Active(e, l) => \A j \in r.goods : Holds(e, r.seller, j, Holding(r))
    BY DEF Placed
  <2>2. l \in DOMAIN w.listing /\ Placed(w)
    BY <1>4, <1>8, <1>9 DEF Core
  <2>3. CASE l \in ls
    BY <1>8, <1>9, <2>1, <2>2, <2>3 DEF Placed
  <2>4. CASE l \notin ls
    <3>1. e.listing[l] = w.listing[l] /\ (Active(e, l) <=> Active(w, l)) /\ e.item = w.item
      BY <1>8, <1>9, <1>10, <1>11, <2>2, <2>4
    <3>2. ASSUME e.listing[l].spot # 0, NEW k \in DOMAIN e.listing,
                 e.listing[k].seller = e.listing[l].seller,
                 e.listing[k].root = e.listing[l].root, e.listing[k].spot = e.listing[l].spot
          PROVE  k = l
      <4>1. k \in DOMAIN w.listing /\ k \notin ls
        BY <1>8, <1>9, <3>2
      <4>2. e.listing[k] = w.listing[k]
        BY <1>8, <1>9, <4>1
      <4> QED
        BY <2>2, <3>1, <3>2, <4>1, <4>2 DEF Placed
    <3>3. /\ e.listing[l].root \in e.listing[l].goods
          /\ e.listing[l].spot # 0 => e.listing[l].goods = {e.listing[l].root}
      BY <2>2, <3>1 DEF Placed
    <3>4. ASSUME Active(e, l), NEW j \in e.listing[l].goods
          PROVE  Holds(e, e.listing[l].seller, j, Holding(e.listing[l]))
      BY <2>2, <3>1, <3>4 DEF Placed, Holds
    <3> QED
      BY <3>2, <3>3, <3>4
  <2> QED
    BY <2>3, <2>4
<1>15. Core(e) /\ Left(w, e)
  BY <1>4, <1>9, <1>13, <1>14, RowsCore, RowsLeft
<1>16. Exclusive(e, {}) /\ ForSale(e, {i})
  <2>1. /\ DOMAIN e.listing = DOMAIN w.listing
        /\ \A l \in DOMAIN w.listing : /\ e.listing[l].goods = w.listing[l].goods
                                       /\ Active(e, l) <=> Active(w, l)
    BY <1>8, <1>9, <1>11
  <2>2. \A j \in Item : Sold(e, j) <=> Sold(w, j)
    BY <2>1 DEF Sold
  <2>3. Exclusive(e, {})
    BY <1>4, <2>1 DEF Exclusive
  <2>4. ForSale(e, {i})
    BY <1>4, <1>10, <2>2 DEF ForSale
  <2> QED
    BY <2>3, <2>4
<1>17. Left(d, e)
  BY <1>4, <1>15, LeftTrans
<1>18. \A l \in ls : /\ l \in DOMAIN e.listing
                     /\ e.listing[l].seller = p /\ e.listing[l].root = i
                     /\ e.listing[l].goods = {i} /\ e.listing[l].spot = 0 /\ ~Active(e, l)
                     /\ \A o \in DOMAIN e.offer : e.offer[o].listing = l =>
                          e.offer[o].status = "ended"
  <2> TAKE l \in ls
  <2>1. l \in DOMAIN w.listing /\ l \in DOMAIN e.listing
    BY <1>2, <1>5, <1>8, <1>9
  <2>2. e.listing[l].seller = p /\ e.listing[l].root = i /\ e.listing[l].goods = {i}
    <3>1. d.listing[l].seller = p /\ d.listing[l].root = i /\ d.listing[l].goods = {i}
      BY <1>2
    <3>2. w.listing[l].seller = p /\ w.listing[l].root = i /\ w.listing[l].goods = {i}
      BY <1>5, <2>1, <3>1
    <3> QED
      BY <1>8, <1>9, <2>1, <3>2
  <2>3. e.listing[l].spot = 0 /\ ~Active(e, l)
    BY <1>5, <1>8, <1>9, <1>11, <2>1
  <2>4. \A o \in DOMAIN e.offer : e.offer[o].listing = l => e.offer[o].status = "ended"
    BY <1>10, <1>12
  <2> QED
    BY <2>1, <2>2, <2>3, <2>4
<1> QED
  BY <1>5, <1>8, <1>9, <1>10, <1>15, <1>16, <1>17, <1>18 DEF RetiredParts, e, ls

-------------------------------------------------------------------------------
\* What a command may assume.
LEMMA Before ==
    ASSUME Orderly
    PROVE  /\ Sound(db, {}) /\ Core(db) /\ Typed(db) /\ Exclusive(db, {}) /\ ForSale(db, {})
           /\ Waits(db, left) /\ left \subseteq Players /\ Waiting(db, {})
           /\ away \in [Players -> Nat]
           /\ \A p \in Players : db.gold[p] \in Nat
<1>1. Core(db)
  BY DEF Orderly, Sound
<1>2. \A p \in Players : db.gold[p] \in Nat
  BY <1>1, Tables DEF Core
<1> QED
  BY <1>2 DEF Orderly, Sound, Core, Waiting

\* A command sweeps that goes forward and helps the offers of p only; ...
LEMMA SettlesFor ==
    ASSUME Orderly, NEW p \in Players, NEW e, Forward(db, e), e.auto = db.auto,
           Richer(db, e, {p}), Settle(e, Buyer(p))
    PROVE  Committed(db', left')
<1>1. Core(db) /\ Waits(db, left) /\ left \subseteq Players
  BY Before
<1>2. Calm(db, e, {p})
  BY <1>1, CalmBy DEF Forward
<1>3. Covered(e, Buyer(p), left)
  BY <1>1, <1>2, CalmCovered
<1>4. Sound(e, {}) /\ Buyer(p) \in Selectors
  BY DEF Sound, Forward, Selectors
<1> QED
  BY <1>1, <1>3, <1>4, Settles

\* ... a command sweeps for all; ...
LEMMA SettlesAll ==
    ASSUME Orderly, NEW d, NEW e, Forward(d, e), Settle(e, All)
    PROVE  Committed(db', left')
<1>1. left \subseteq Players
  BY Before
<1>2. Covered(e, All, left) /\ All \in Selectors
  BY AllCovered
<1>3. Sound(e, {})
  BY DEF Sound, Forward
<1> QED
  BY <1>1, <1>2, <1>3, Settles

\* ... and a command helps nobody, or leaves the offers of Q waiting.
LEMMA CommitsFor ==
    ASSUME Orderly, NEW Q \in SUBSET Players, NEW e, Forward(db, e), e.auto = db.auto,
           Richer(db, e, Q), Commit(e), left' = left \cup Q
    PROVE  Committed(db', left')
<1>1. Core(db) /\ Waits(db, left) /\ left \subseteq Players
  BY Before
<1>2. Calm(db, e, Q)
  BY <1>1, CalmBy DEF Forward
<1>3. Waits(e, left \cup Q)
  BY <1>1, <1>2, CalmWaits
<1>4. Sound(e, {}) /\ left' \subseteq Players
  BY <1>1 DEF Sound, Forward
<1> QED
  BY <1>3, <1>4, Commits

LEMMA ForwardTrans ==
    ASSUME NEW c, NEW d, NEW e, Left(c, d), Forward(d, e)
    PROVE  Forward(c, e)
  BY LeftTrans DEF Forward

LEMMA RowFresh ==
    ASSUME NEW d, NEW p \in Players, NEW root \in Item, NEW goods \in SUBSET Item, root \in goods,
           NEW ask \in Ask
    PROVE  LET row == NewListing(p, root, goods, "open", ask, 0) IN
           Fresh(d, row) /\ row.goods = goods /\ row.seller = p /\ Holding(row) = {"listed"}
  BY DEF NewListing, ListingRow, Fresh, Holding

\* One item of p is put up for sale.
Priced(d, p, i, ask) == Held(List(d, NewListing(p, i, {i}, "open", ask, 0)), p, i, "listed")

LEMMA PricedForward ==
    ASSUME NEW d, NEW X, Waiting(d, X), NEW p \in Players, NEW i \in Item, X \subseteq {i},
           NEW ask \in Ask, ~Sold(d, i)
    PROVE  LET e == Priced(d, p, i, ask) IN
           /\ Forward(d, e) /\ e.gold = d.gold /\ e.auto = d.auto
           /\ e.item[i].owner = p /\ e.item[i].state = "listed"
           /\ \A j \in Item : j # i => e.item[j] = d.item[j]
<1> DEFINE row == NewListing(p, i, {i}, "open", ask, 0)
           c == List(d, row)
           e == Held(c, p, i, "listed")
<1>1. Fresh(d, row) /\ row.goods = {i} /\ row.seller = p /\ Holding(row) = {"listed"}
  <2>1. {i} \in SUBSET Item /\ i \in {i}
    OBVIOUS
  <2> QED
    BY <2>1, RowFresh, Zenon
<1>2. Typed(d) /\ d \in Database
  BY DEF Waiting, Core, Typed
<1>3. c.listing = Append(d.listing, row)
  BY <1>2 DEF List, Database
<1> HIDE DEF row
<1>4. Typed(c) /\ Same(d, c, {"listing"})
  BY <1>1, <1>2, ListIs DEF Fresh
<1> HIDE DEF c
<1>5. "listed" \in States
  BY DEF States
<1>6. HeldParts(c, e, p, i, "listed")
  BY <1>4, <1>5, HeldIs
<1>7. e = Priced(d, p, i, ask)
  BY DEF Priced, c, row
<1> HIDE DEF e
<1>8. Added(d, e, row)
  BY <1>1, <1>3, <1>4, <1>6 DEF Added, HeldParts, Same, Holds
<1>9. Forward(d, e)
  <2>1. X \subseteq row.goods /\ \A j \in row.goods : ~Sold(d, j)
    BY <1>1
  <2> QED
    BY <1>1, <1>8, <2>1, AddedForward
<1> QED
  BY <1>4, <1>6, <1>7, <1>9 DEF HeldParts, Same

-------------------------------------------------------------------------------
\* A deposit is available, or for sale, and helps its owner's offers only.
LEMMA DepositCommits ==
    ASSUME Orderly, NEW p \in Players, NEW i \in Item, Deposit(p, i)
    PROVE  Committed(db', left')
<1> DEFINE r == Retired(db, p, i)
           ls == Published(db, p) \cap Of(db, i)
<1>1. /\ Sound(db, {}) /\ Core(db) /\ Holds(db, p, i, {"local", "delivered"})
      /\ \A q \in Players : db.gold[q] \in Nat
  BY Before DEF Deposit
<1>2. RetiredParts(db, r, p, i)
  BY <1>1, RetiredIs
<1>3. \/ Settle(Held(r, p, i, "available"), Buyer(p))
      \/ \E ask \in Ask :
           \/ Settle(Held(List(r, NewListing(p, i, {i}, "open", ask, 0)), p, i, "listed"), Buyer(p))
           \/ \E l \in ls : Settle(Held(Reopen(r, l, ask), p, i, "listed"), Buyer(p))
  BY DEF Deposit
<1> HIDE DEF r
<1>4. /\ Waiting(r, {i}) /\ Left(db, r) /\ r.item = db.item /\ r.gold = db.gold
      /\ r.auto = db.auto /\ Typed(r) /\ ~Sold(r, i)
  BY <1>2 DEF RetiredParts, Core, Waiting, ForSale
<1>5. \A l \in ls : /\ l \in DOMAIN r.listing
                    /\ r.listing[l].seller = p
                    /\ r.listing[l].goods = {i} /\ r.listing[l].spot = 0 /\ ~Active(r, l)
                    /\ \A o \in DOMAIN r.offer : r.offer[o].listing = l =>
                         r.offer[o].status = "ended"
  BY <1>2 DEF RetiredParts
<1> HIDE DEF ls
\* Enough for each of the three.
<1>6. ASSUME NEW e, Settle(e, Buyer(p)), Forward(r, e), e.gold = r.gold, e.auto = r.auto,
             \A j \in Item : j # i => e.item[j] = r.item[j], e.item[i].owner = p
      PROVE  Committed(db', left')
  <2>1. Forward(db, e)
    BY <1>4, <1>6, ForwardTrans
  <2>2. Richer(db, e, {p})
    <3>1. \A x \in Players : e.gold[x] <= db.gold[x]
      BY <1>1, <1>4, <1>6
    <3>2. ASSUME NEW x \in Players \ {p}, NEW j \in Item, Holds(e, x, j, {"available"})
          PROVE  Holds(db, x, j, {"available"})
      BY <1>4, <1>6, <3>2 DEF Holds
    <3> QED
      BY <3>1, <3>2 DEF Richer
  <2> QED
    BY <1>4, <1>6, <2>1, <2>2, SettlesFor
<1>7. CASE Settle(Held(r, p, i, "available"), Buyer(p))
  <2> DEFINE e == Held(r, p, i, "available")
  <2>1. "available" \in States
    BY DEF States
  <2>2. HeldParts(r, e, p, i, "available")
    BY <1>4, <2>1, HeldIs
  <2>3. Settle(e, Buyer(p))
    BY <1>7
  <2> HIDE DEF e
  <2>4. Len(e.wanted) >= Len(r.wanted)
    BY <1>4, <2>2, Tables DEF HeldParts
  <2>5. Moved(r, e, {i})
    BY <1>4, <2>2, <2>4 DEF HeldParts, Moved
  <2>6. Forward(r, e)
    BY <1>4, <2>5, MovedForward
  <2> QED
    BY <1>6, <2>2, <2>3, <2>6 DEF HeldParts
<1>8. ASSUME NEW ask \in Ask,
             Settle(Held(List(r, NewListing(p, i, {i}, "open", ask, 0)), p, i, "listed"), Buyer(p))
      PROVE  Committed(db', left')
  <2> DEFINE e == Priced(r, p, i, ask)
  <2>1. Settle(e, Buyer(p))
    BY <1>8 DEF Priced
  <2>2. /\ Forward(r, e) /\ e.gold = r.gold /\ e.auto = r.auto
        /\ e.item[i].owner = p /\ e.item[i].state = "listed"
        /\ \A j \in Item : j # i => e.item[j] = r.item[j]
    BY <1>4, PricedForward
  <2> HIDE DEF e
  <2> QED
    BY <1>6, <2>1, <2>2
<1>9. ASSUME NEW ask \in Ask, NEW l \in ls,
             Settle(Held(Reopen(r, l, ask), p, i, "listed"), Buyer(p))
      PROVE  Committed(db', left')
  <2> DEFINE d == Reopen(r, l, ask)
             e == Held(d, p, i, "listed")
  <2>1. Settle(e, Buyer(p))
    BY <1>9
  <2>2. /\ l \in DOMAIN r.listing /\ r.listing[l].seller = p
        /\ r.listing[l].goods = {i} /\ r.listing[l].spot = 0 /\ ~Active(r, l)
        /\ \A o \in DOMAIN r.offer : r.offer[o].listing = l => r.offer[o].status = "ended"
    BY <1>5
  <2>3. Typed(d) /\ Same(r, d, {"listing"})
    BY <1>4, <2>2, ReopenIs
  <2>4. d.listing = Reopen(r, l, ask).listing
    OBVIOUS
  <2> HIDE DEF d
  <2>5. "listed" \in States
    BY DEF States
  <2>6. HeldParts(d, e, p, i, "listed")
    BY <2>3, <2>5, HeldIs
  <2> HIDE DEF e
  <2>7. Reopened(r, e, l, ask)
    BY <2>2, <2>3, <2>4, <2>6 DEF Reopened, HeldParts, Same, Holds, Holding
  <2>8. Forward(r, e)
    <3>1. {i} \subseteq r.listing[l].goods /\ \A j \in r.listing[l].goods : ~Sold(r, j)
      BY <1>4, <2>2
    <3> QED
      BY <1>4, <2>2, <2>7, <3>1, ReopenedForward
  <2>9. /\ e.gold = r.gold /\ e.auto = r.auto /\ e.item[i].owner = p
        /\ \A j \in Item : j # i => e.item[j] = r.item[j]
    BY <2>3, <2>6 DEF HeldParts, Same
  <2> QED
    BY <1>6, <2>1, <2>8, <2>9
<1> QED
  BY <1>3, <1>7, <1>8, <1>9

-------------------------------------------------------------------------------
(***************************************************************************)
(* Commands that change no listing.                                        *)
(***************************************************************************)
\* The new state of an item, and other tables.
StateParts(d, e, i, state) ==
    /\ Typed(e) /\ e.listing = d.listing /\ e.offer = d.offer /\ e.wanted = d.wanted
    /\ e.gold = d.gold /\ e.auto = d.auto
    /\ e.item[i].owner = d.item[i].owner /\ e.item[i].state = state
    /\ \A j \in Item : j # i => e.item[j] = d.item[j]

LEMMA StateIs ==
    ASSUME NEW d, Typed(d), NEW i \in Item, NEW state \in States
    PROVE  StateParts(d, [d EXCEPT !.item[i].state = state], i, state)
<1> DEFINE row == [d.item[i] EXCEPT !.state = state]
           q == [d.item EXCEPT ![i] = row]
           e == [d EXCEPT !.item[i].state = state]
<1>1. d.item \in [Item -> ItemRow] /\ d \in Database
  BY Tables DEF Typed
<1>2. row \in ItemRow /\ row.owner = d.item[i].owner /\ row.state = state
  <2>1. d.item[i] \in ItemRow
    BY <1>1
  <2> QED
    BY <2>1 DEF ItemRow, States
<1>3. e = [d EXCEPT !.item = q]
  OBVIOUS
<1> HIDE DEF row, e
<1>4. q \in [Item -> ItemRow] /\ q[i] = row /\ \A j \in Item : j # i => q[j] = d.item[j]
  BY <1>1, <1>2
<1> HIDE DEF q
<1>5. /\ Typed(e) /\ e.item = q
      /\ e.listing = d.listing /\ e.offer = d.offer /\ e.wanted = d.wanted
      /\ e.gold = d.gold /\ e.auto = d.auto
  BY <1>1, <1>3, <1>4 DEF Typed, Database
<1> QED
  BY <1>2, <1>4, <1>5 DEF e, StateParts

\* Items that are in the Vault and not listed are not for sale.
LEMMA VaultApart ==
    ASSUME NEW d, Core(d), NEW i \in Item, d.item[i].state \in {"available", "claiming", "stray"}
    PROVE  ~Sold(d, i)
<1> SUFFICES ASSUME NEW l \in DOMAIN d.listing, Active(d, l), i \in d.listing[l].goods PROVE FALSE
  BY DEF Sold
<1>1. d.item[i].state \in {"listed", "local", "delivered"}
  BY SoldHolds
<1>2. d.item[i].owner = d.listing[l].seller /\ Holds(d, d.listing[l].seller, i, Holding(d.listing[l]))
  BY SoldHolds DEF Holds
<1> QED
  BY <1>1

LEMMA ClaimCommits ==
    ASSUME Orderly, NEW p \in Players, NEW i \in Item, Claim(p, i)
    PROVE  Committed(db', left')
<1> DEFINE e == [db EXCEPT !.item[i].state = "claiming"]
<1>1. /\ Core(db) /\ Typed(db) /\ Waiting(db, {}) /\ \A q \in Players : db.gold[q] \in Nat
      /\ db.item[i].state = "available" /\ left \subseteq Players
  BY Before DEF Claim, Holds
<1>2. Commit(e) /\ left' = left
  BY DEF Claim, Unsettled
<1>3. "claiming" \in States
  BY DEF States
<1>4. StateParts(db, e, i, "claiming")
  BY <1>1, <1>3, StateIs
<1> HIDE DEF e
<1>5. Len(e.wanted) >= Len(db.wanted)
  BY <1>1, <1>4, Tables DEF StateParts
<1>6. Moved(db, e, {})
  <2>1. ~Sold(db, i)
    BY <1>1, VaultApart
  <2> QED
    BY <1>4, <1>5, <2>1 DEF StateParts, Moved
<1>7. Forward(db, e)
  BY <1>1, <1>6, MovedForward
<1>8. Richer(db, e, {})
  BY <1>1, <1>4 DEF Richer, StateParts, Holds
<1>9. left' = left \cup {} /\ {} \in SUBSET Players /\ e.auto = db.auto
  BY <1>2, <1>4 DEF StateParts
<1> QED
  BY <1>2, <1>7, <1>8, <1>9, CommitsFor

LEMMA EndClaimCommits ==
    ASSUME Orderly, NEW p \in Players, NEW i \in Item, EndClaim(p, i)
    PROVE  Committed(db', left')
<1>1. /\ Core(db) /\ Typed(db) /\ Waiting(db, {}) /\ \A q \in Players : db.gold[q] \in Nat
      /\ db.item[i].state = "claiming" /\ db.item[i].owner = p
  BY Before DEF EndClaim, Holds
<1>2. ~Sold(db, i)
  BY <1>1, VaultApart
\* Enough for a claim that is released, and for one that is complete.
<1>3. ASSUME NEW e, Settle(e, Buyer(p)), Typed(e), e.listing = db.listing, e.offer = db.offer,
             e.wanted = db.wanted, e.gold = db.gold, e.auto = db.auto,
             e.item[i].owner = p, e.item[i].state # "listed",
             \A j \in Item : j # i => e.item[j] = db.item[j]
      PROVE  Committed(db', left')
  <2>1. Len(e.wanted) >= Len(db.wanted)
    BY <1>1, <1>3, Tables
  <2>2. Moved(db, e, {})
    BY <1>2, <1>3, <2>1 DEF Moved
  <2>3. Forward(db, e)
    BY <1>1, <2>2, MovedForward
  <2>4. Richer(db, e, {p})
    BY <1>1, <1>3 DEF Richer, Holds
  <2> QED
    BY <1>3, <2>3, <2>4, SettlesFor
<1>4. CASE Settle([db EXCEPT !.item[i].state = "available"], Buyer(p))
  <2> DEFINE e == [db EXCEPT !.item[i].state = "available"]
  <2>1. "available" \in States
    BY DEF States
  <2>2. StateParts(db, e, i, "available")
    BY <1>1, <2>1, StateIs
  <2>3. Settle(e, Buyer(p))
    BY <1>4
  <2> HIDE DEF e
  <2> QED
    BY <1>1, <1>3, <2>2, <2>3 DEF StateParts
<1>5. CASE Settle(Held(db, p, i, "delivered"), Buyer(p))
  <2> DEFINE e == Held(db, p, i, "delivered")
  <2>1. "delivered" \in States
    BY DEF States
  <2>2. HeldParts(db, e, p, i, "delivered")
    BY <1>1, <2>1, HeldIs
  <2>3. Settle(e, Buyer(p))
    BY <1>5
  <2> HIDE DEF e
  <2> QED
    BY <1>1, <1>3, <2>2, <2>3 DEF HeldParts
<1> QED
  BY <1>4, <1>5 DEF EndClaim

\* New balances.
Balances(d, e) ==
    /\ Typed(e) /\ e.listing = d.listing /\ e.offer = d.offer /\ e.wanted = d.wanted
    /\ e.item = d.item /\ e.auto = d.auto

LEMMA BalancesForward ==
    ASSUME Orderly, NEW e, Balances(db, e)
    PROVE  Forward(db, e) /\ e.auto = db.auto
<1>1. Core(db) /\ Typed(db) /\ Waiting(db, {})
  BY Before
<1>2. Len(e.wanted) >= Len(db.wanted)
  BY <1>1, Tables DEF Balances
<1>3. Moved(db, e, {})
  BY <1>2 DEF Moved, Balances
<1> QED
  BY <1>1, <1>3, MovedForward DEF Balances

LEMMA GoldIs ==
    ASSUME NEW d, Typed(d), NEW q \in [Players -> Nat]
    PROVE  Balances(d, [d EXCEPT !.gold = q]) /\ [d EXCEPT !.gold = q].gold = q
  BY DEF Balances, Typed, Database

LEMMA GoldOutCommits ==
    ASSUME Orderly, NEW p \in Players, GoldOut(p)
    PROVE  Committed(db', left') /\ away' \in [Players -> Nat]
<1> DEFINE q == [db.gold EXCEPT ![p] = db.gold[p] - 1]
           e == [db EXCEPT !.gold = q]
<1>1. /\ Typed(db) /\ db.gold \in [Players -> Nat] /\ away \in [Players -> Nat]
      /\ left \subseteq Players /\ db.gold[p] \in Nat /\ db.gold[p] > 0
  BY Before, Tables DEF GoldOut
<1>2. db.gold[p] - 1 \in Nat /\ db.gold[p] - 1 <= db.gold[p]
  BY <1>1
<1>3. q \in [Players -> Nat] /\ \A r \in Players : q[r] <= db.gold[r]
  BY <1>1, <1>2
<1>4. Commit(e) /\ left' = left /\ away' = [away EXCEPT ![p] = @ + 1]
  BY DEF GoldOut
<1> HIDE DEF q
<1>5. Balances(db, e) /\ e.gold = q
  BY <1>1, <1>3, GoldIs
<1> HIDE DEF e
<1>6. Forward(db, e) /\ e.auto = db.auto
  BY <1>5, BalancesForward
<1>7. Richer(db, e, {})
  BY <1>3, <1>5 DEF Richer, Balances, Holds
<1>8. Committed(db', left')
  <2>1. left' = left \cup {} /\ {} \in SUBSET Players
    BY <1>4
  <2> QED
    BY <1>4, <1>6, <1>7, <2>1, CommitsFor
<1> QED
  BY <1>1, <1>4, <1>8

LEMMA GoldInCommits ==
    ASSUME Orderly, NEW p \in Players, GoldIn(p)
    PROVE  Committed(db', left') /\ away' \in [Players -> Nat]
<1> DEFINE q == [db.gold EXCEPT ![p] = db.gold[p] + 1]
           e == [db EXCEPT !.gold = q]
<1>1. /\ Typed(db) /\ db.gold \in [Players -> Nat] /\ away \in [Players -> Nat]
      /\ \A r \in Players : db.gold[r] \in Nat
  BY Before, Tables
<1>2. db.gold[p] + 1 \in Nat
  BY <1>1
<1>3. q \in [Players -> Nat] /\ \A r \in Players \ {p} : q[r] <= db.gold[r]
  BY <1>1, <1>2
<1>4. Settle(e, Buyer(p)) /\ away' = [away EXCEPT ![p] = @ - 1] /\ away[p] > 0
  BY DEF GoldIn
<1> HIDE DEF q
<1>5. Balances(db, e) /\ e.gold = q
  BY <1>1, <1>3, GoldIs
<1> HIDE DEF e
<1>6. Forward(db, e) /\ e.auto = db.auto
  BY <1>5, BalancesForward
<1>7. Richer(db, e, {p})
  BY <1>3, <1>5 DEF Richer, Balances, Holds
<1>8. Committed(db', left')
  BY <1>4, <1>6, <1>7, SettlesFor
<1>9. away[p] - 1 \in Nat
  BY <1>1, <1>4
<1> QED
  BY <1>1, <1>4, <1>8, <1>9

LEMMA GiftGoldCommits ==
    ASSUME Orderly, NEW p \in Players, NEW r \in Players, GiftGold(p, r)
    PROVE  Committed(db', left')
<1> DEFINE q == [[db.gold EXCEPT ![p] = db.gold[p] - 1] EXCEPT ![r] = db.gold[r] + 1]
           e == [db EXCEPT !.gold = Paid(db, p, r, 1)]
<1>1. /\ Typed(db) /\ db.gold \in [Players -> Nat] /\ p # r /\ db.gold[p] > 0
      /\ \A x \in Players : db.gold[x] \in Nat
  BY Before, Tables DEF GiftGold
<1>2. db.gold[p] - 1 \in Nat /\ db.gold[p] - 1 <= db.gold[p] /\ db.gold[r] + 1 \in Nat
  BY <1>1
<1>3. q \in [Players -> Nat] /\ \A x \in Players \ {r} : q[x] <= db.gold[x]
  <2> DEFINE one == [db.gold EXCEPT ![p] = db.gold[p] - 1]
  <2>1. one \in [Players -> Nat] /\ \A x \in Players : one[x] <= db.gold[x]
    BY <1>1, <1>2
  <2> HIDE DEF one
  <2>2. q = [one EXCEPT ![r] = db.gold[r] + 1]
    BY DEF one
  <2> QED
    BY <1>2, <2>1, <2>2
<1>4. Settle(e, Buyer(r))
  BY DEF GiftGold
<1>9. Paid(db, p, r, 1) = q
  BY <1>1 DEF Paid
<1> HIDE DEF q
<1>5. Balances(db, e) /\ e.gold = q
  BY <1>1, <1>3, <1>9, GoldIs
<1> HIDE DEF e
<1>6. Forward(db, e) /\ e.auto = db.auto
  BY <1>5, BalancesForward
<1>7. Richer(db, e, {r})
  BY <1>3, <1>5 DEF Richer, Balances, Holds
<1> QED
  BY <1>4, <1>6, <1>7, SettlesFor

\* The preference makes offers ready, and the sweep is for all.
LEMMA SetAutoCommits ==
    ASSUME Orderly, NEW p \in Players, SetAuto(p)
    PROVE  Committed(db', left')
<1> DEFINE q == [db.auto EXCEPT ![p] = ~db.auto[p]]
           e == [db EXCEPT !.auto = q]
<1>1. /\ Typed(db) /\ db \in Database /\ db.auto \in [Players -> BOOLEAN] /\ Waiting(db, {})
  BY Before, Tables DEF Typed
<1>2. q \in [Players -> BOOLEAN]
  BY <1>1
<1>3. Settle(e, All)
  BY DEF SetAuto
<1> HIDE DEF q
<1>4. /\ Typed(e) /\ e.listing = db.listing /\ e.offer = db.offer /\ e.wanted = db.wanted
      /\ e.item = db.item
  BY <1>1, <1>2 DEF Typed, Database
<1> HIDE DEF e
<1>5. Len(e.wanted) >= Len(db.wanted)
  BY <1>1, <1>4, Tables
<1>6. Forward(db, e)
  <2>1. Moved(db, e, {})
    BY <1>4, <1>5 DEF Moved
  <2> QED
    BY <1>1, <2>1, MovedForward
<1> QED
  BY <1>3, <1>6, SettlesAll

\* Wanted posts.
LEMMA PostsForward ==
    ASSUME Orderly, NEW q \in Seq(PostRow), Len(q) >= Len(db.wanted),
           Commit([db EXCEPT !.wanted = q]), left' = left
    PROVE  Committed(db', left')
<1> DEFINE e == [db EXCEPT !.wanted = q]
<1>1. /\ Typed(db) /\ db \in Database /\ Waiting(db, {}) /\ left \subseteq Players
      /\ \A p \in Players : db.gold[p] \in Nat
  BY Before DEF Typed
<1>2. /\ Typed(e) /\ e.listing = db.listing /\ e.offer = db.offer /\ e.wanted = q
      /\ e.item = db.item /\ e.gold = db.gold /\ e.auto = db.auto
  BY <1>1 DEF Typed, Database
<1>3. Commit(e)
  OBVIOUS
<1> HIDE DEF e
<1>4. Moved(db, e, {})
  BY <1>2 DEF Moved
<1>5. Forward(db, e)
  BY <1>1, <1>4, MovedForward
<1>6. Richer(db, e, {})
  BY <1>1, <1>2 DEF Richer, Holds
<1>7. left' = left \cup {} /\ {} \in SUBSET Players
  OBVIOUS
<1> QED
  BY <1>2, <1>3, <1>5, <1>6, <1>7, CommitsFor

LEMMA WantedCreateCommits ==
    ASSUME Orderly, NEW p \in Players, WantedCreate(p)
    PROVE  Committed(db', left')
<1> DEFINE row == [owner |-> p, status |-> "open"]
           q == Append(db.wanted, row)
<1>1. db.wanted \in Seq(PostRow) /\ Len(db.wanted) \in Nat
  BY Before, Tables
<1>2. row \in PostRow
  BY DEF PostRow
<1>3. Commit([db EXCEPT !.wanted = q]) /\ left' = left
  BY DEF WantedCreate, Unsettled
<1> HIDE DEF row
<1>4. q \in Seq(PostRow) /\ Len(q) = Len(db.wanted) + 1
  BY <1>1, <1>2, SeqAppend
<1> HIDE DEF q
<1>5. Len(q) >= Len(db.wanted)
  BY <1>1, <1>4
<1> QED
  BY <1>3, <1>4, <1>5, PostsForward

LEMMA WantedCloseCommits ==
    ASSUME Orderly, NEW p \in Players, NEW w \in DOMAIN db.wanted, WantedClose(p, w)
    PROVE  Committed(db', left')
<1> DEFINE row == [db.wanted[w] EXCEPT !.status = "closed"]
           q == [db.wanted EXCEPT ![w] = row]
<1>1. /\ Len(db.wanted) \in Nat /\ DOMAIN db.wanted = 1 .. Len(db.wanted)
      /\ \A x \in DOMAIN db.wanted : db.wanted[x] \in PostRow
  BY Before, Tables
<1>2. row \in PostRow
  BY <1>1 DEF PostRow
<1>3. Commit([db EXCEPT !.wanted = q]) /\ left' = left
  BY DEF WantedClose, Unsettled
<1> HIDE DEF row
<1>4. /\ DOMAIN q = 1 .. Len(db.wanted) /\ q = [x \in DOMAIN q |-> q[x]]
      /\ \A x \in DOMAIN q : q[x] \in PostRow
  BY <1>1, <1>2
<1> HIDE DEF q
<1>5. q \in Seq(PostRow) /\ Len(q) = Len(db.wanted)
  BY <1>1, <1>4, SeqBy
<1> QED
  BY <1>1, <1>3, <1>5, PostsForward

-------------------------------------------------------------------------------
(***************************************************************************)
(* Commands that replace the listings of items.                            *)
(***************************************************************************)
\* The listings ls end: those of the items in G, and no others.
LEMMA Cleared ==
    ASSUME Orderly, NEW ls, NEW G,
           \A l \in DOMAIN db.listing : Active(db, l) /\ db.listing[l].goods \cap G # {} => l \in ls,
           \A l \in DOMAIN db.listing : l \in ls /\ Active(db, l) =>
              \A i \in db.listing[l].goods : db.item[i].state = "listed" => i \in G
    PROVE  LET w == Withdraw(db, ls) IN
           /\ Waiting(w, G) /\ Left(db, w) /\ Typed(w) /\ w.item = db.item /\ w.gold = db.gold
           /\ w.auto = db.auto /\ w.wanted = db.wanted
           /\ DOMAIN w.listing = DOMAIN db.listing
<1> DEFINE w == Withdraw(db, ls)
<1>1. Core(db) /\ Typed(db) /\ Exclusive(db, {}) /\ ForSale(db, {})
  BY Before
<1>2. Core(w) /\ Left(db, w)
  BY <1>1, WithdrawCore, WithdrawLeft
<1>3. Exclusive(w, {} \ ls) /\ ForSale(w, G)
  <2>1. {} \subseteq G
    OBVIOUS
  <2>2. \A l \in DOMAIN db.listing \cap ls : Active(db, l) =>
              \A i \in db.listing[l].goods : db.item[i].state = "listed" => i \in G
    OBVIOUS
  <2>3. \A l \in DOMAIN db.listing :
          Active(db, l) /\ db.listing[l].goods \cap G # {} => l \in ls
    OBVIOUS
  <2>4. ASSUME NEW none, none = {}
        PROVE  Exclusive(Withdraw(db, ls), none \ ls) /\ ForSale(Withdraw(db, ls), G)
    <3>1. Exclusive(db, none) /\ ForSale(db, none) /\ none \subseteq G
      BY <1>1, <2>4
    <3> QED
      BY <1>1, <2>2, <2>3, <3>1, WithdrawSales
  <2> QED
    BY <2>4
<1>4. {} \ ls = {}
  OBVIOUS
<1>5. /\ w.item = db.item /\ w.gold = db.gold /\ w.auto = db.auto /\ w.wanted = db.wanted
      /\ DOMAIN w.listing = DOMAIN db.listing
  BY <1>1, WithdrawIs DEF Same
<1> HIDE DEF w
<1> QED
  BY <1>2, <1>3, <1>4, <1>5 DEF Waiting, Core, w

\* The listings of items that are in no bundle.
LEMMA SinglesCleared ==
    ASSUME Orderly, NEW G \in SUBSET Item, \A i \in G : ~Bundled(db, i),
           NEW ls, ls = {l \in DOMAIN db.listing : db.listing[l].root \in G}
    PROVE  LET w == Withdraw(db, ls) IN
           /\ Waiting(w, G) /\ Left(db, w) /\ Typed(w) /\ w.item = db.item /\ w.gold = db.gold
           /\ w.auto = db.auto /\ w.wanted = db.wanted
           /\ \A i \in G : ~Sold(w, i)
<1>1. Core(db)
  BY Before
<1>2. ASSUME NEW l \in DOMAIN db.listing, Active(db, l), NEW i \in G, i \in db.listing[l].goods
      PROVE  db.listing[l].goods = {i} /\ db.listing[l].root = i
  <2>1. db.listing[l].goods = {db.listing[l].root}
    BY <1>2 DEF Bundled
  <2> QED
    BY <1>2, <2>1
<1>3. \A l \in DOMAIN db.listing : Active(db, l) /\ db.listing[l].goods \cap G # {} => l \in ls
  BY <1>2
<1>4. ASSUME NEW l \in DOMAIN db.listing, l \in ls, Active(db, l), NEW i \in db.listing[l].goods
      PROVE  i \in G
  <2>1. db.listing[l].root \in G /\ db.listing[l].root \in db.listing[l].goods
    BY <1>1, <1>4 DEF Core, Placed
  <2> QED
    BY <1>2, <1>4, <2>1
<1>5. \A l \in DOMAIN db.listing : l \in ls /\ Active(db, l) =>
        \A i \in db.listing[l].goods : db.item[i].state = "listed" => i \in G
  BY <1>4
<1> DEFINE w == Withdraw(db, ls)
<1>6. /\ Waiting(w, G) /\ Left(db, w) /\ Typed(w) /\ w.item = db.item /\ w.gold = db.gold
      /\ w.auto = db.auto /\ w.wanted = db.wanted
  BY <1>3, <1>5, Cleared
<1> HIDE DEF w
<1>7. \A i \in G : ~Sold(w, i)
  BY <1>6 DEF Waiting, ForSale
<1> QED
  BY <1>6, <1>7 DEF w

LEMMA OwnCleared ==
    ASSUME Orderly, NEW p \in Players, NEW i \in Item, Changeable(p, i)
    PROVE  LET w == Withdraw(db, Of(db, i)) IN
           /\ Waiting(w, {i}) /\ Left(db, w) /\ Typed(w) /\ w.item = db.item /\ w.gold = db.gold
           /\ w.auto = db.auto /\ w.wanted = db.wanted /\ ~Sold(w, i)
<1>1. \A j \in {i} : ~Bundled(db, j)
  BY DEF Changeable
<1>2. Of(db, i) = {l \in DOMAIN db.listing : db.listing[l].root \in {i}} /\ {i} \in SUBSET Item
  BY DEF Of
<1> HIDE DEF Of
<1> QED
  BY <1>1, <1>2, SinglesCleared

LEMMA EscrowPriceCommits ==
    ASSUME Orderly, NEW p \in Players, NEW i \in Item, NEW ask \in Ask, EscrowPrice(p, i, ask)
    PROVE  Committed(db', left')
<1> DEFINE w == Withdraw(db, Of(db, i))
           e == Priced(w, p, i, ask)
<1>1. Changeable(p, i) /\ Settle(e, All)
  BY DEF EscrowPrice, Priced
<1>2. Waiting(w, {i}) /\ ~Sold(w, i)
  BY <1>1, OwnCleared
<1> HIDE DEF w
<1>3. Forward(w, e)
  BY <1>2, PricedForward
<1> HIDE DEF e
<1> QED
  BY <1>1, <1>3, SettlesAll

LEMMA EscrowReturnCommits ==
    ASSUME Orderly, NEW p \in Players, NEW i \in Item, EscrowReturn(p, i)
    PROVE  Committed(db', left')
<1> DEFINE w == Withdraw(db, Of(db, i))
           c == Held(w, p, i, "available")
           row == [c.item[i] EXCEPT !.wants = TRUE]
           q == [c.item EXCEPT ![i] = row]
           e == [c EXCEPT !.item[i].wants = TRUE]
<1>1. Changeable(p, i) /\ Settle(e, All)
  BY DEF EscrowReturn
<1>2. Waiting(w, {i}) /\ ~Sold(w, i) /\ Typed(w)
  BY <1>1, OwnCleared
<1> HIDE DEF w
<1>3. "available" \in States
  BY DEF States
<1>4. HeldParts(w, c, p, i, "available")
  BY <1>2, <1>3, HeldIs
<1> HIDE DEF c
<1>5. Typed(c) /\ c \in Database /\ c.item \in [Item -> ItemRow]
  BY <1>4, Tables DEF HeldParts, Typed
<1>6. row \in ItemRow /\ row.owner = c.item[i].owner /\ row.state = c.item[i].state
  <2>1. c.item[i] \in ItemRow
    BY <1>5
  <2> QED
    BY <2>1 DEF ItemRow
<1>7. e = [c EXCEPT !.item = q]
  OBVIOUS
<1> HIDE DEF row, e
<1>8. q \in [Item -> ItemRow] /\ q[i] = row /\ \A j \in Item : j # i => q[j] = c.item[j]
  BY <1>5, <1>6
<1> HIDE DEF q
<1>9. Typed(e) /\ e.item = q /\ e.listing = c.listing /\ e.offer = c.offer /\ e.wanted = c.wanted
  BY <1>5, <1>7, <1>8 DEF Typed, Database
<1>10. Len(e.wanted) >= Len(w.wanted)
  BY <1>2, <1>4, <1>9, Tables DEF HeldParts
<1>11. Moved(w, e, {i})
  <2>1. /\ c.item[i].state = "available" /\ c.listing = w.listing /\ c.offer = w.offer
        /\ \A j \in Item : j # i => c.item[j] = w.item[j]
    BY <1>4 DEF HeldParts
  <2>2. ASSUME NEW j \in Item
        PROVE  /\ Sold(w, j) => e.item[j].owner = w.item[j].owner /\ e.item[j].state = w.item[j].state
               /\ e.item[j].state = "listed" => w.item[j].state = "listed" /\ j \notin {i}
    <3>1. CASE j = i
      <4>1. e.item[i].state = "available"
        BY <1>6, <1>8, <1>9, <2>1
      <4> QED
        BY <1>2, <3>1, <4>1
    <3>2. CASE j # i
      <4>1. e.item[j] = w.item[j]
        BY <1>8, <1>9, <2>1, <3>2
      <4> QED
        BY <3>2, <4>1
    <3> QED
      BY <3>1, <3>2
  <2> QED
    BY <1>9, <1>10, <2>1, <2>2 DEF Moved
<1>12. Forward(w, e)
  BY <1>2, <1>11, MovedForward
<1> QED
  BY <1>1, <1>12, SettlesAll

\* The state of several items.
AllStateParts(d, e, G, state) ==
    /\ Typed(e) /\ e.listing = d.listing /\ e.offer = d.offer /\ e.wanted = d.wanted
    /\ e.gold = d.gold /\ e.auto = d.auto
    /\ \A i \in Item : IF i \in G THEN e.item[i].owner = d.item[i].owner /\ e.item[i].state = state
                       ELSE e.item[i] = d.item[i]
Put(d, G, state) ==
    [d EXCEPT !.item = [i \in Item |->
        IF i \in G THEN [@[i] EXCEPT !.state = state, !.wants = FALSE] ELSE @[i]]]

LEMMA AllStateIs ==
    ASSUME NEW d, Typed(d), NEW G, NEW state \in States
    PROVE  AllStateParts(d, Put(d, G, state), G, state)
<1> DEFINE q == [i \in Item |-> IF i \in G THEN [d.item[i] EXCEPT !.state = state, !.wants = FALSE]
                                ELSE d.item[i]]
           e == Put(d, G, state)
<1>1. d.item \in [Item -> ItemRow] /\ d \in Database
  BY Tables DEF Typed
<1>2. \A i \in Item : /\ q[i] \in ItemRow
                      /\ IF i \in G THEN q[i].owner = d.item[i].owner /\ q[i].state = state
                         ELSE q[i] = d.item[i]
  <2> TAKE i \in Item
  <2>1. d.item[i] \in ItemRow
    BY <1>1
  <2> QED
    BY <2>1 DEF ItemRow, States
<1>3. e = [d EXCEPT !.item = q]
  BY DEF Put
<1>4. q = [i \in Item |-> q[i]]
  OBVIOUS
<1> HIDE DEF q, e
<1>5. q \in [Item -> ItemRow]
  BY <1>2, <1>4
<1>6. /\ Typed(e) /\ e.item = q
      /\ e.listing = d.listing /\ e.offer = d.offer /\ e.wanted = d.wanted
      /\ e.gold = d.gold /\ e.auto = d.auto
  BY <1>1, <1>3, <1>5 DEF Typed, Database
<1> QED
  BY <1>2, <1>6 DEF e, AllStateParts

-------------------------------------------------------------------------------

LEMMA BundleCreateCommits ==
    ASSUME Orderly, NEW p \in Players, NEW root \in Item, NEW goods \in SUBSET Item, NEW ask \in Ask,
           BundleCreate(p, root, goods, ask)
    PROVE  Committed(db', left')
<1> DEFINE own == {l \in DOMAIN db.listing : db.listing[l].root \in goods}
           row == NewListing(p, root, goods, "open", ask, 0)
           w == Withdraw(db, own)
           c == List(w, row)
           e == Put(c, goods, "listed")
<1>1. /\ Core(db) /\ left \subseteq Players /\ \A q \in Players : db.gold[q] \in Nat
      /\ \A i \in goods : ~Bundled(db, i) /\ db.item[i].owner = p
      /\ root \in goods
  BY Before DEF BundleCreate, Changeable, Holds
<1>2. Commit(e) /\ left' = left
  BY DEF BundleCreate, Unsettled, Put
<1>3. /\ Waiting(w, goods) /\ Left(db, w) /\ Typed(w) /\ w.item = db.item /\ w.gold = db.gold
      /\ w.auto = db.auto /\ w.wanted = db.wanted
      /\ \A i \in goods : ~Sold(w, i)
  BY <1>1, SinglesCleared
<1> HIDE DEF w
<1>4. Fresh(w, row) /\ row.goods = goods /\ row.seller = p /\ Holding(row) = {"listed"}
  BY <1>1, RowFresh
<1>5. c.listing = Append(w.listing, row)
  BY <1>3 DEF List, Typed, Database
<1> HIDE DEF row
<1>6. Typed(c) /\ Same(w, c, {"listing"})
  BY <1>3, <1>4, ListIs DEF Fresh
<1> HIDE DEF c
<1>7. "listed" \in States
  BY DEF States
<1>8. AllStateParts(c, e, goods, "listed")
  BY <1>6, <1>7, AllStateIs
<1> HIDE DEF e
<1>9. /\ e.listing = Append(w.listing, row) /\ e.offer = w.offer /\ e.wanted = w.wanted
      /\ e.gold = db.gold /\ e.auto = db.auto /\ Typed(e)
      /\ \A i \in Item : IF i \in goods THEN e.item[i].owner = db.item[i].owner
                                             /\ e.item[i].state = "listed"
                         ELSE e.item[i] = db.item[i]
  BY <1>3, <1>5, <1>6, <1>8 DEF AllStateParts, Same
<1>10. Added(w, e, row)
  <2>1. \A i \in goods : Holds(e, p, i, {"listed"})
    BY <1>1, <1>9 DEF Holds
  <2>2. \A i \in Item : i \notin goods =>
          e.item[i].owner = w.item[i].owner /\ e.item[i].state = w.item[i].state
    BY <1>3, <1>9
  <2> QED
    BY <1>4, <1>9, <2>1, <2>2 DEF Added
<1>11. Forward(w, e)
  BY <1>3, <1>4, <1>10, AddedForward
<1>12. Forward(db, e)
  BY <1>3, <1>11, ForwardTrans
<1>13. Richer(db, e, {})
  BY <1>1, <1>9 DEF Richer, Holds
<1>14. left' = left \cup {} /\ {} \in SUBSET Players
  BY <1>2
<1> QED
  BY <1>2, <1>9, <1>12, <1>13, <1>14, CommitsFor

\* The goods of a bundle are available again, and the seller's offers may be
\* ready; they wait for the next sweep.
LEMMA BundleDissolveCommits ==
    ASSUME Orderly, NEW p \in Players, NEW l \in DOMAIN db.listing, BundleDissolve(p, l)
    PROVE  Committed(db', left')
<1> DEFINE goods == db.listing[l].goods
           w == Withdraw(db, {l})
           e == Put(w, goods, "available")
<1>1. /\ Core(db) /\ left \subseteq Players /\ \A q \in Players : db.gold[q] \in Nat
      /\ Exclusive(db, {}) /\ Active(db, l)
      /\ \A i \in goods : db.item[i].owner = p
  BY Before DEF BundleDissolve, Holds, Active
<1>2. Commit(e) /\ left' = left \cup {p}
  BY DEF BundleDissolve, Put
<1>3. /\ Waiting(w, goods) /\ Left(db, w) /\ Typed(w) /\ w.item = db.item /\ w.gold = db.gold
      /\ w.auto = db.auto /\ w.wanted = db.wanted
  <2>1. \A m \in DOMAIN db.listing : Active(db, m) /\ db.listing[m].goods \cap goods # {} => m \in {l}
    BY <1>1 DEF Exclusive
  <2>2. \A m \in DOMAIN db.listing : m \in {l} /\ Active(db, m) =>
              \A i \in db.listing[m].goods : db.item[i].state = "listed" => i \in goods
    OBVIOUS
  <2> HIDE DEF goods
  <2> QED
    BY <2>1, <2>2, Cleared
<1> HIDE DEF goods, w
<1>4. \A i \in goods : ~Sold(w, i) \/ i \notin Item
  BY <1>3 DEF Waiting, ForSale
<1>5. "available" \in States
  BY DEF States
<1>6. AllStateParts(w, e, goods, "available")
  BY <1>3, <1>5, AllStateIs
<1> HIDE DEF e
<1>7. Len(e.wanted) >= Len(w.wanted)
  BY <1>3, <1>6, Tables DEF AllStateParts
<1>8. Moved(w, e, goods)
  BY <1>4, <1>6, <1>7 DEF Moved, AllStateParts
<1>9. Forward(db, e)
  BY <1>3, <1>8, MovedForward, ForwardTrans
<1>10. Richer(db, e, {p})
  BY <1>1, <1>3, <1>6 DEF Richer, Holds, AllStateParts
<1>11. {p} \in SUBSET Players /\ e.auto = db.auto
  BY <1>3, <1>6 DEF AllStateParts
<1> QED
  BY <1>2, <1>9, <1>10, <1>11, CommitsFor

LEMMA WithdrawPhysicalCommits ==
    ASSUME Orderly, NEW p \in Players, NEW i \in Item, WithdrawPhysical(p, i)
    PROVE  Committed(db', left')
<1> DEFINE ls == {l \in Of(db, i) : db.listing[l].seller = p}
           w == Withdraw(db, ls)
<1>1. /\ Core(db) /\ left \subseteq Players /\ \A q \in Players : db.gold[q] \in Nat
      /\ db.item[i].state \in {"local", "stray", "delivered"}
  BY Before DEF WithdrawPhysical, Holds
<1>2. Commit(w) /\ left' = left
  BY DEF WithdrawPhysical, Unsettled
<1>3. \A l \in DOMAIN db.listing : l \in ls /\ Active(db, l) =>
              \A j \in db.listing[l].goods : db.item[j].state = "listed" => j \in {}
  <2> SUFFICES ASSUME NEW l \in DOMAIN db.listing, l \in ls, Active(db, l),
                      NEW j \in db.listing[l].goods
               PROVE  db.item[j].state # "listed"
    OBVIOUS
  <2>1. db.listing[l].root = i /\ i \in db.listing[l].goods
    BY <1>1 DEF Of, Core, Placed
  <2>2. db.listing[l].goods = {i}
    BY <1>1, <2>1, InStash
  <2> QED
    BY <1>1, <2>2
<1>4. \A l \in DOMAIN db.listing : Active(db, l) /\ db.listing[l].goods \cap {} # {} => l \in ls
  OBVIOUS
<1> HIDE DEF ls
<1>5. /\ Waiting(w, {}) /\ Left(db, w) /\ w.item = db.item /\ w.gold = db.gold
      /\ w.auto = db.auto
  BY <1>3, <1>4, Cleared
<1> HIDE DEF w
<1>6. Forward(db, w)
  BY <1>5 DEF Waiting, Forward
<1>7. Richer(db, w, {})
  BY <1>1, <1>5 DEF Richer, Holds
<1>8. left' = left \cup {} /\ {} \in SUBSET Players
  BY <1>2
<1> QED
  BY <1>2, <1>5, <1>6, <1>7, <1>8, CommitsFor

\* The listings of an item that is traded by hand are sold; their offers
\* stay as they are.
LEMMA RecordSaleCommits ==
    ASSUME Orderly, NEW p \in Players, NEW q \in Players, NEW i \in Item, RecordSale(p, q, i)
    PROVE  Committed(db', left')
<1> DEFINE ls == Of(db, i)
           c == Reviewed(db, ls, "sold")
           state == IF c.item[i].state = "local" THEN "stray" ELSE c.item[i].state
           row == [c.item[i] EXCEPT !.owner = q, !.state = state]
           g == [c.item EXCEPT ![i] = row]
           e == [c EXCEPT !.item[i].owner = q,
                          !.item[i].state = IF @ = "local" THEN "stray" ELSE @]
<1>1. /\ Core(db) /\ Typed(db) /\ left \subseteq Players /\ \A x \in Players : db.gold[x] \in Nat
      /\ Exclusive(db, {}) /\ ForSale(db, {})
      /\ db.item[i].state \in {"local", "stray", "delivered"}
  BY Before DEF RecordSale, Holds
<1>2. Commit(e) /\ left' = left
  BY DEF RecordSale, Unsettled
<1>3. /\ Typed(c) /\ c.item = db.item /\ c.gold = db.gold /\ c.auto = db.auto
      /\ c.offer = db.offer /\ c.wanted = db.wanted
      /\ DOMAIN c.listing = DOMAIN db.listing
      /\ \A l \in DOMAIN db.listing :
           c.listing[l] = IF l \in ls /\ Active(db, l) THEN Revised(db.listing[l], "sold")
                          ELSE db.listing[l]
  BY <1>1, ReviewedIs DEF Same
<1> HIDE DEF c
<1>4. c \in Database /\ c.item \in [Item -> ItemRow]
  BY <1>3, Tables DEF Typed
<1>5. row \in ItemRow /\ row.owner = q /\ row.state = state
      /\ state \in {"stray", "delivered"}
  <2>1. c.item[i] \in ItemRow
    BY <1>4
  <2>2. state \in {"stray", "delivered"}
    BY <1>1, <1>3
  <2> HIDE DEF state
  <2> QED
    BY <2>1, <2>2 DEF ItemRow
<1>6. e = [c EXCEPT !.item = g]
  <2>1. e = [c EXCEPT !.item = [[c.item EXCEPT ![i] = [c.item[i] EXCEPT !.owner = q]]
                                 EXCEPT ![i] = row]]
    BY <1>4 DEF ItemRow
  <2> QED
    BY <1>4, <2>1
<1> HIDE DEF row, state, e
<1>7. g \in [Item -> ItemRow] /\ g[i] = row /\ \A j \in Item : j # i => g[j] = c.item[j]
  BY <1>4, <1>5
<1> HIDE DEF g
<1>8. /\ Typed(e) /\ e.item = g /\ e.listing = c.listing /\ e.offer = c.offer
      /\ e.wanted = c.wanted /\ e.gold = c.gold /\ e.auto = c.auto
  BY <1>4, <1>6, <1>7 DEF Typed, Database
<1>9. \A l \in DOMAIN db.listing :
        /\ db.listing[l].rev \in Nat /\ e.listing[l].rev \in Nat
        /\ e.listing[l].seller = db.listing[l].seller /\ e.listing[l].root = db.listing[l].root
        /\ e.listing[l].goods = db.listing[l].goods /\ e.listing[l].spot = db.listing[l].spot
        /\ e.listing[l].rev >= db.listing[l].rev
        /\ IF l \in ls /\ Active(db, l) THEN e.listing[l].status = "sold"
           ELSE e.listing[l] = db.listing[l]
        /\ Active(e, l) <=> Active(db, l) /\ l \notin ls
  <2> TAKE l \in DOMAIN db.listing
  <2>1. db.listing[l] \in ListingRow /\ db.listing[l].rev \in Nat
    BY <1>1, Tables DEF ListingRow
  <2>2. e.listing[l] = IF l \in ls /\ Active(db, l) THEN Revised(db.listing[l], "sold")
                       ELSE db.listing[l]
    BY <1>3, <1>8
  <2> HIDE DEF ls
  <2> QED
    BY <2>1, <2>2, RevisedRow DEF Active
<1>10. ASSUME NEW l \in DOMAIN db.listing, Active(db, l), i \in db.listing[l].goods
       PROVE  l \in ls
  BY <1>1, <1>10, InStash DEF Of
<1>11. ASSUME NEW l \in DOMAIN db.listing, Active(db, l), l \in ls,
              NEW j \in db.listing[l].goods
       PROVE  j = i
  <2>1. i \in db.listing[l].goods
    BY <1>1, <1>11 DEF Of, Core, Placed
  <2> QED
    BY <1>1, <1>11, <2>1, InStash
<1> HIDE DEF ls
<1>12. DOMAIN e.listing = DOMAIN db.listing /\ e.offer = db.offer /\ e.wanted = db.wanted
       /\ e.gold = db.gold /\ e.auto = db.auto
       /\ e.item[i].state \in {"stray", "delivered"}
       /\ \A j \in Item : j # i => e.item[j] = db.item[j]
  BY <1>3, <1>5, <1>7, <1>8
<1>13. Linked(e)
  <2> SUFFICES ASSUME NEW o \in DOMAIN e.offer
               PROVE  /\ e.offer[o].listing \in DOMAIN e.listing
                      /\ e.offer[o].lrev <= e.listing[e.offer[o].listing].rev
                      /\ e.offer[o].buyer # Seller(e, o)
                      /\ e.offer[o].proposer \in {e.offer[o].buyer, Seller(e, o)}
                      /\ e.offer[o].post \in 0 .. Len(e.wanted)
    BY DEF Linked
  <2>1. /\ o \in DOMAIN db.offer
        /\ db.offer[o].listing \in DOMAIN db.listing
        /\ db.offer[o].lrev <= db.listing[db.offer[o].listing].rev
        /\ db.offer[o].buyer # Seller(db, o)
        /\ db.offer[o].proposer \in {db.offer[o].buyer, Seller(db, o)}
        /\ db.offer[o].post \in 0 .. Len(db.wanted)
    BY <1>1, <1>12 DEF Core, Linked
  <2>2. Seller(e, o) = Seller(db, o)
    BY <1>9, <1>12, <2>1 DEF Seller
  <2>3. db.offer[o] \in OfferRow /\ db.offer[o].lrev \in Nat
    BY <1>1, <2>1, Tables DEF OfferRow
  <2>4. db.offer[o].lrev <= e.listing[db.offer[o].listing].rev
    BY <1>9, <2>1, <2>3, SMTT(20)
  <2> QED
    BY <1>12, <2>1, <2>2, <2>4
<1>14. Placed(e)
  <2> SUFFICES ASSUME NEW l \in DOMAIN e.listing
               PROVE  LET r == e.listing[l] IN
                      /\ r.root \in r.goods
                      /\ r.spot # 0 =>
                           /\ r.goods = {r.root}
                           /\ \A k \in DOMAIN e.listing :
                                /\ e.listing[k].seller = r.seller /\ e.listing[k].root = r.root
                                /\ e.listing[k].spot = r.spot
                                => k = l
                      /\ Active(e, l) => \A j \in r.goods : Holds(e, r.seller, j, Holding(r))
    BY DEF Placed
  <2>1. l \in DOMAIN db.listing /\ Placed(db)
    BY <1>1, <1>12 DEF Core
  <2>2. ASSUME Active(e, l), NEW j \in e.listing[l].goods
        PROVE  Holds(e, e.listing[l].seller, j, Holding(e.listing[l]))
    <3>1. Active(db, l) /\ l \notin ls /\ e.listing[l] = db.listing[l]
      BY <1>9, <2>1, <2>2
    <3>2. j # i
      BY <1>10, <2>1, <2>2, <3>1
    <3>3. Holds(db, db.listing[l].seller, j, Holding(db.listing[l])) /\ j \in Item
      BY <1>1, <2>1, <2>2, <3>1, SoldHolds
    <3> QED
      BY <1>12, <3>1, <3>2, <3>3 DEF Holds
  <2>3. \A k \in DOMAIN db.listing :
             /\ e.listing[k].seller = db.listing[k].seller /\ e.listing[k].root = db.listing[k].root
             /\ e.listing[k].goods = db.listing[k].goods /\ e.listing[k].spot = db.listing[k].spot
    BY <1>9
  <2>4. /\ e.listing[l].root \in e.listing[l].goods
        /\ e.listing[l].spot # 0 => e.listing[l].goods = {e.listing[l].root}
    BY <2>1, <2>3 DEF Placed
  <2>5. ASSUME e.listing[l].spot # 0, NEW k \in DOMAIN e.listing,
               e.listing[k].seller = e.listing[l].seller, e.listing[k].root = e.listing[l].root,
               e.listing[k].spot = e.listing[l].spot
        PROVE  k = l
    BY <1>12, <2>1, <2>3, <2>5 DEF Placed
  <2> QED
    BY <2>2, <2>4, <2>5
<1>15. Agreed(e)
  <2>1. AgreedPairs(db)
    BY <1>1, AgreedSays
  <2>2. ASSUME NEW l \in DOMAIN e.listing, e.listing[l].status = "agreed"
        PROVE  \E o \in DOMAIN e.offer : e.offer[o].listing = l /\ e.offer[o].status = "accepted"
    <3>1. l \in DOMAIN db.listing /\ db.listing[l].status = "agreed"
      BY <1>9, <1>12, <2>2
    <3>2. PICK o \in DOMAIN db.offer : db.offer[o].listing = l /\ db.offer[o].status = "accepted"
      BY <2>1, <3>1 DEF AgreedPairs, OfferAgrees, OffersApart
    <3> QED
      BY <1>12, <3>2
  <2>3. ASSUME NEW o \in DOMAIN e.offer
        PROVE  OfferAgrees(e, o)
    <3> DEFINE l == db.offer[o].listing
    <3>1. o \in DOMAIN db.offer /\ e.offer[o] = db.offer[o]
      BY <1>12
    <3>2. OfferAgrees(db, o)
      BY <2>1, <3>1, AgreedOffer
    <3>3. l \in DOMAIN db.listing /\ l \in DOMAIN e.listing
      BY <1>12, <3>2 DEF OfferAgrees
    <3>4. /\ e.listing[l].spot = db.listing[l].spot
          /\ e.listing[l].status = "sold" \/ e.listing[l] = db.listing[l]
      BY <1>9, <3>3
    <3>5. CASE e.listing[l].status = "sold"
      BY <3>1, <3>2, <3>3, <3>4, <3>5 DEF OfferAgrees
    <3>6. CASE e.listing[l] = db.listing[l]
      BY <3>1, <3>2, <3>3, <3>6, SameOffer
    <3> QED
      BY <3>4, <3>5, <3>6
  <2>4. AgreedPairs(e)
    <3>1. \A o, x \in DOMAIN e.offer : o # x /\ e.offer[x].listing = e.offer[o].listing =>
               OffersApart(e, o, x)
      BY <1>12, <2>1 DEF AgreedPairs, OfferAgrees, OffersApart
    <3> QED
      BY <2>2, <2>3, <3>1 DEF AgreedPairs, OfferAgrees, OffersApart
  <2> QED
    BY <2>4, AgreedBy
<1>16. Consented(e)
  <2>1. \A o \in DOMAIN db.offer : Seller(e, o) = Seller(db, o) /\ Terms(e, o) = Terms(db, o)
    BY <1>1, <1>9, <1>12 DEF Core, Linked, Seller, Terms
  <2> QED
    BY <1>1, <1>12, <2>1 DEF Core, Consented
<1>17. Exclusive(e, {})
  BY <1>1, <1>9, <1>12 DEF Exclusive
<1>18. ForSale(e, {})
  <2> SUFFICES ASSUME NEW j \in Item, e.item[j].state = "listed" PROVE Sold(e, j)
    BY DEF ForSale
  <2>1. j # i /\ db.item[j].state = "listed"
    BY <1>12
  <2>2. PICK l \in DOMAIN db.listing : Active(db, l) /\ j \in db.listing[l].goods
    BY <1>1, <2>1 DEF ForSale, Sold
  <2>3. l \notin ls
    BY <1>11, <2>1, <2>2
  <2> QED
    BY <1>9, <1>12, <2>2, <2>3 DEF Sold
<1>19. Left(db, e)
  BY <1>1, <1>9, <1>12 DEF Left, Core, Linked, Live
<1>20. Forward(db, e)
  BY <1>8, <1>13, <1>14, <1>15, <1>16, <1>17, <1>18, <1>19 DEF Forward, Core
<1>21. Richer(db, e, {})
  <2>1. \A x \in Players : e.gold[x] <= db.gold[x]
    BY <1>1, <1>12
  <2>2. ASSUME NEW x \in Players, NEW j \in Item, Holds(e, x, j, {"available"})
        PROVE  Holds(db, x, j, {"available"})
    BY <1>12, <2>2 DEF Holds
  <2> QED
    BY <2>1, <2>2 DEF Richer
<1>22. left' = left \cup {} /\ {} \in SUBSET Players
  BY <1>2
<1> QED
  BY <1>2, <1>12, <1>20, <1>21, <1>22, CommitsFor

-------------------------------------------------------------------------------
(***************************************************************************)
(* Offers.                                                                 *)
(***************************************************************************)
LEMMA FocusCommits ==
    ASSUME Orderly, NEW e, Typed(e), NEW o \in Nat, OfferChanged(db, e, o),
           e.auto = db.auto, e.gold = db.gold, Settle(e, Focus(o))
    PROVE  Committed(db', left')
<1>1. /\ Core(db) /\ Waits(db, left) /\ left \subseteq Players /\ Exclusive(db, {})
      /\ ForSale(db, {})
  BY Before
<1>2. Sound(e, {})
  <2>1. Core(e)
    BY <1>1, OfferCore
  <2>2. Exclusive(e, {}) /\ ForSale(e, {})
    BY <1>1, OfferSales
  <2> QED
    BY <2>1, <2>2 DEF Sound
<1>3. Covered(e, Focus(o), left)
  <2> SUFFICES ASSUME NEW x \in DOMAIN e.offer, Ready(e, x)
               PROVE  e.offer[x].buyer \in left \/ Selects(Focus(o), e, x)
    BY DEF Covered
  <2>1. CASE x = o
    BY <2>1 DEF Selects, Focus
  <2>2. CASE x # o
    <3>1. x \in DOMAIN db.offer /\ e.offer[x] = db.offer[x] /\ Ready(db, x)
      BY <2>2, OfferReady
    <3> QED
      BY <1>1, <3>1 DEF Waits
  <2> QED
    BY <2>1, <2>2
<1>4. Focus(o) \in Selectors
  BY DEF Selectors
<1> QED
  BY <1>1, <1>2, <1>3, <1>4, Settles

OfferParts(d, e, o, row) ==
    /\ Typed(e) /\ e.item = d.item /\ e.listing = d.listing /\ e.wanted = d.wanted
    /\ e.gold = d.gold /\ e.auto = d.auto
    /\ o \in DOMAIN e.offer /\ e.offer[o] = row /\ DOMAIN d.offer \subseteq DOMAIN e.offer
    /\ \A x \in DOMAIN e.offer : x # o => x \in DOMAIN d.offer /\ e.offer[x] = d.offer[x]

LEMMA OfferSet ==
    ASSUME NEW d, Typed(d), NEW o \in DOMAIN d.offer, NEW row \in OfferRow
    PROVE  OfferParts(d, [d EXCEPT !.offer = [d.offer EXCEPT ![o] = row]], o, row)
<1> DEFINE q == [d.offer EXCEPT ![o] = row]
           e == [d EXCEPT !.offer = q]
<1>1. /\ d \in Database /\ Len(d.offer) \in Nat /\ DOMAIN d.offer = 1 .. Len(d.offer)
      /\ \A x \in DOMAIN d.offer : d.offer[x] \in OfferRow
  BY Tables DEF Typed
<1>2. /\ DOMAIN q = DOMAIN d.offer /\ q = [x \in DOMAIN q |-> q[x]] /\ q[o] = row
      /\ \A x \in DOMAIN d.offer : x # o => q[x] = d.offer[x]
  OBVIOUS
<1> HIDE DEF q
<1>3. DOMAIN q = 1 .. Len(d.offer) /\ \A x \in DOMAIN q : q[x] \in OfferRow
  BY <1>1, <1>2
<1>4. q \in Seq(OfferRow)
  BY <1>1, <1>2, <1>3, SeqBy
<1>5. /\ Typed(e) /\ e.offer = q /\ e.item = d.item /\ e.listing = d.listing
      /\ e.wanted = d.wanted /\ e.gold = d.gold /\ e.auto = d.auto
  BY <1>1, <1>4 DEF Typed, Database
<1> HIDE DEF e
<1>6. OfferParts(d, e, o, row)
  BY <1>2, <1>5 DEF OfferParts
<1> QED
  BY <1>6 DEF e, q

LEMMA OfferAdd ==
    ASSUME NEW d, Typed(d), NEW row \in OfferRow
    PROVE  /\ OfferParts(d, [d EXCEPT !.offer = Append(@, row)], Len(d.offer) + 1, row)
           /\ Len(d.offer) + 1 \in Nat /\ Len(d.offer) + 1 \notin DOMAIN d.offer
<1> DEFINE q == Append(d.offer, row)
           o == Len(d.offer) + 1
           e == [d EXCEPT !.offer = q]
<1>1. /\ d \in Database /\ d.offer \in Seq(OfferRow) /\ Len(d.offer) \in Nat
      /\ DOMAIN d.offer = 1 .. Len(d.offer)
  BY Tables DEF Typed
<1>2. /\ q \in Seq(OfferRow) /\ DOMAIN q = 1 .. o
      /\ \A x \in DOMAIN d.offer : q[x] = d.offer[x]
      /\ q[o] = row
  BY <1>1, SeqAppend
<1> HIDE DEF q
<1>3. /\ Typed(e) /\ e.offer = q /\ e.item = d.item /\ e.listing = d.listing
      /\ e.wanted = d.wanted /\ e.gold = d.gold /\ e.auto = d.auto
  BY <1>1, <1>2 DEF Typed, Database
<1>4. /\ o \in Nat /\ o \in 1 .. o /\ o \notin DOMAIN d.offer
      /\ \A x \in 1 .. o : x # o => x \in DOMAIN d.offer
      /\ \A x \in DOMAIN d.offer : x \in 1 .. o
  BY <1>1
<1>5. e = [d EXCEPT !.offer = Append(@, row)]
  BY DEF q
<1> HIDE DEF e, o
<1>6. OfferParts(d, e, o, row)
  BY <1>2, <1>3, <1>4 DEF OfferParts
<1> QED
  BY <1>4, <1>5, <1>6 DEF o

\* An answer: the offer o, which is pending, changes to row.
Answers(d, o, row) ==
    LET f == d.offer[o]
    IN  /\ o \in DOMAIN d.offer /\ f.status = "pending" /\ row \in OfferRow
        /\ row.listing = f.listing /\ row.lrev = f.lrev /\ row.buyer = f.buyer
        /\ row.post = f.post /\ row.proposer \in {f.buyer, Seller(d, o)}
        /\ \/ row.status = "ended"
           \/ row.status = "pending" /\ row.signed[row.proposer] = Last(row.terms)

LEMMA AnswerChanges ==
    ASSUME NEW d, Core(d), NEW o, NEW row, Answers(d, o, row), NEW e, OfferParts(d, e, o, row)
    PROVE  OfferChanged(d, e, o)
<1>1. /\ d.offer[o].listing \in DOMAIN d.listing
      /\ d.offer[o].lrev <= d.listing[d.offer[o].listing].rev
      /\ d.offer[o].buyer # Seller(d, o) /\ d.offer[o].post \in 0 .. Len(d.wanted)
  BY DEF Core, Linked, Answers
<1> QED
  BY <1>1 DEF OfferChanged, Answers, OfferParts, Seller

LEMMA AnswerCommits ==
    ASSUME Orderly, NEW o, NEW row, Answers(db, o, row), NEW e, OfferParts(db, e, o, row),
           Settle(e, Focus(o))
    PROVE  Committed(db', left')
<1>1. Core(db) /\ Typed(db)
  BY Before
<1>2. OfferChanged(db, e, o)
  BY <1>1, AnswerChanges
<1>3. o \in Nat
  BY <1>1, Tables DEF Answers
<1> QED
  BY <1>2, <1>3, FocusCommits DEF OfferParts

\* What an answer may assume.
Answering(p, o, seen) ==
    LET f == db.offer[o]
    IN  /\ f \in OfferRow /\ f.status = "pending" /\ seen = Len(f.terms)
        /\ f.terms[seen] = Terms(db, o) /\ Terms(db, o) \in Price
        /\ p \in {f.buyer, Seller(db, o)} /\ f.proposer \in {f.buyer, Seller(db, o)}
        /\ f.buyer # Seller(db, o)
        /\ f.listing \in DOMAIN db.listing /\ db.listing[f.listing].status = "open"
        /\ f.lrev = db.listing[f.listing].rev /\ p \in Players
        /\ f.signed[f.proposer] = Terms(db, o)

LEMMA AnswerableIs ==
    ASSUME Orderly, NEW p, NEW o \in DOMAIN db.offer, NEW seen, NEW own,
           Answerable(p, o, seen, own)
    PROVE  Answering(p, o, seen) /\ (db.offer[o].proposer = p) = own
<1>1. Core(db)
  BY Before
<1>2. /\ db.offer[o] \in OfferRow /\ db.offer[o].listing \in DOMAIN db.listing
      /\ Seller(db, o) \in Players /\ db.offer[o].buyer \in Players
      /\ Seller(db, o) # db.offer[o].buyer /\ Terms(db, o) \in Price
  BY <1>1, RowsOf
<1>3. db.offer[o].proposer \in {db.offer[o].buyer, Seller(db, o)}
  BY <1>1 DEF Core, Linked
<1>4. Answering(p, o, seen)
  BY <1>1, <1>2, <1>3, Zenon
     DEF Answering, Answerable, Current, Negotiable, Terms, Last, Core, Consented
<1>5. (db.offer[o].proposer = p) = own
  BY DEF Answerable
<1> QED
  BY <1>4, <1>5

LEMMA RefuseCommits ==
    ASSUME Orderly, NEW p \in Players, NEW o \in DOMAIN db.offer, NEW seen, Refuse(p, o, seen)
    PROVE  Committed(db', left')
<1> DEFINE row == Ended(db.offer[o])
           q == [db.offer EXCEPT ![o] = row]
           e == [db EXCEPT !.offer = q]
<1>1. Settle([db EXCEPT !.offer[o] = Ended(@)], Focus(o))
  BY DEF Refuse
<1>2. [db EXCEPT !.offer[o] = Ended(@)] = e
  OBVIOUS
<1>3. Settle(e, Focus(o))
  BY <1>1, <1>2
<1>4. /\ db.offer[o] \in OfferRow /\ db.offer[o].status = "pending" /\ Typed(db)
      /\ db.offer[o].proposer \in {db.offer[o].buyer, Seller(db, o)}
  <2>1. Answerable(p, o, seen, FALSE) \/ Answerable(p, o, seen, TRUE)
    BY DEF Refuse
  <2>2. Answering(p, o, seen)
    BY <2>1, AnswerableIs
  <2> QED
    BY <2>2, Before DEF Answering
<1>5. Answers(db, o, row)
  BY <1>4, EndedOffer DEF Answers
<1>6. row \in OfferRow
  BY <1>5 DEF Answers
<1> HIDE DEF row
<1>7. OfferParts(db, e, o, row)
  BY <1>4, <1>6, OfferSet
<1> HIDE DEF e
<1> QED
  BY <1>3, <1>5, <1>7, AnswerCommits

\* More terms.
LEMMA MoreTerms ==
    ASSUME NEW t \in Seq(Price), NEW price \in Price
    PROVE  /\ Append(t, price) \in Seq(Price) \ {<<>>} /\ Last(Append(t, price)) = price
<1>1. Len(t) \in Nat
  BY SeqIs
<1>2. /\ Append(t, price) \in Seq(Price) /\ Len(Append(t, price)) = Len(t) + 1
      /\ Append(t, price)[Len(t) + 1] = price
  BY SeqAppend
<1>3. Append(t, price) # <<>>
  BY <1>1, <1>2, EmptySeq
<1> QED
  BY <1>2, <1>3 DEF Last

-------------------------------------------------------------------------------
\* New terms, by a party that has not proposed the last.
LEMMA CounterCommits ==
    ASSUME Orderly, NEW p \in Players, NEW o \in DOMAIN db.offer, NEW seen, NEW price \in Price,
           Counter(p, o, seen, price)
    PROVE  Committed(db', left')
<1> DEFINE f == db.offer[o]
           one == [f EXCEPT !.signed = [f.signed EXCEPT ![p] = price]]
           two == [one EXCEPT !.terms = Append(one.terms, price)]
           row == [two EXCEPT !.proposer = p]
           c == Signed(db, p, o, price)
           e == [c EXCEPT !.offer[o].terms = Append(@, price), !.offer[o].proposer = p]
<1>1. Typed(db)
  BY Before
<1>2. /\ f \in OfferRow /\ f.status = "pending" /\ p \in {f.buyer, Seller(db, o)} /\ p \in Players
  <2>1. Answerable(p, o, seen, FALSE)
    BY DEF Counter
  <2>2. Answering(p, o, seen)
    BY <2>1, AnswerableIs
  <2> QED
    BY <2>2 DEF Answering
<1>3. Settle(e, Focus(o))
  BY DEF Counter
<1>4. /\ one \in OfferRow /\ one.listing = f.listing /\ one.lrev = f.lrev /\ one.buyer = f.buyer
      /\ one.post = f.post /\ one.status = f.status /\ one.terms = f.terms
      /\ one.signed[p] = price
  <2> DEFINE g == [f.signed EXCEPT ![p] = price]
  <2>1. f.signed \in [Players -> Price \cup {None}]
    BY <1>2 DEF OfferRow
  <2>2. g \in [Players -> Price \cup {None}] /\ g[p] = price
    BY <2>1
  <2> HIDE DEF g, f
  <2>3. one = [f EXCEPT !.signed = g]
    BY DEF g
  <2> QED
    BY <1>2, <2>2, <2>3 DEF OfferRow
<1>5. /\ row \in OfferRow /\ row.listing = f.listing /\ row.lrev = f.lrev /\ row.buyer = f.buyer
      /\ row.post = f.post /\ row.status = f.status /\ row.proposer = p
      /\ row.signed[p] = price /\ Last(row.terms) = price
  <2> DEFINE t == Append(one.terms, price)
  <2> HIDE DEF one, f
  <2>1. one.terms \in Seq(Price)
    BY <1>4 DEF OfferRow
  <2>2. t \in Seq(Price) \ {<<>>} /\ Last(t) = price
    BY <2>1, MoreTerms
  <2> HIDE DEF t
  <2>3. two = [one EXCEPT !.terms = t]
    BY DEF t
  <2>4. /\ two \in OfferRow /\ two.terms = t /\ two.listing = one.listing
        /\ two.lrev = one.lrev /\ two.buyer = one.buyer /\ two.post = one.post
        /\ two.status = one.status /\ two.signed = one.signed
    BY <1>4, <2>2, <2>3 DEF OfferRow
  <2> HIDE DEF two
  <2>5. /\ row \in OfferRow /\ row.terms = t /\ row.listing = one.listing
        /\ row.lrev = one.lrev /\ row.buyer = one.buyer /\ row.post = one.post
        /\ row.status = one.status /\ row.signed = one.signed /\ row.proposer = p
    BY <2>4 DEF OfferRow
  <2> HIDE DEF row
  <2> QED
    BY <1>4, <2>2, <2>5
<1> HIDE DEF f
<1>6. c = [db EXCEPT !.offer = [db.offer EXCEPT ![o] = one]]
  BY DEF Signed, f
<1>7. OfferParts(db, c, o, one)
  <2> HIDE DEF one, c
  <2> QED
    BY <1>1, <1>4, <1>6, OfferSet
<1> HIDE DEF c
<1>8. Typed(c) /\ o \in DOMAIN c.offer /\ c.offer[o] = one
  BY <1>7 DEF OfferParts
<1>9. e = [c EXCEPT !.offer = [c.offer EXCEPT ![o] = row]]
  <2>1. c \in Database
    BY <1>8 DEF Typed
  <2>2. e = [c EXCEPT !.offer = [[c.offer EXCEPT ![o] = [c.offer[o] EXCEPT
                !.terms = Append(c.offer[o].terms, price)]] EXCEPT ![o] =
                  [[c.offer[o] EXCEPT !.terms = Append(c.offer[o].terms, price)]
                     EXCEPT !.proposer = p]]]
    BY <1>8, <2>1 DEF Database
  <2>3. [c.offer[o] EXCEPT !.terms = Append(c.offer[o].terms, price)] = two
    BY <1>8
  <2> HIDE DEF e, one
  <2>4. [[c.offer EXCEPT ![o] = two] EXCEPT ![o] = row] = [c.offer EXCEPT ![o] = row]
    BY <1>8
  <2> QED
    BY <2>2, <2>3, <2>4
<1> HIDE DEF row, e
<1>10. OfferParts(c, e, o, row)
  BY <1>5, <1>8, <1>9, OfferSet
<1>11. OfferParts(db, e, o, row)
  BY <1>7, <1>10 DEF OfferParts
<1>12. Answers(db, o, row)
  BY <1>2, <1>5 DEF Answers, f
<1> QED
  BY <1>3, <1>11, <1>12, AnswerCommits

-------------------------------------------------------------------------------
\* A message: the terms once more.
LEMMA MessageCommits ==
    ASSUME Orderly, NEW p \in Players, NEW o \in DOMAIN db.offer, Message(p, o)
    PROVE  Committed(db', left')
<1> DEFINE f == db.offer[o]
           t == IF f.status = "pending" THEN Append(f.terms, Last(f.terms)) ELSE f.terms
           row == [f EXCEPT !.terms = t]
           q == [db.offer EXCEPT ![o] = row]
           e == [db EXCEPT !.offer = q]
<1>1. /\ Core(db) /\ Typed(db) /\ db \in Database /\ f \in OfferRow /\ f.terms \in Seq(Price)
      /\ Last(f.terms) \in Price /\ o \in Nat /\ db.offer \in Seq(OfferRow)
      /\ f.proposer \in {f.buyer, Seller(db, o)}
      /\ f.status = "pending" => f.signed[f.proposer] = Last(f.terms)
  <2>1. /\ Core(db) /\ Typed(db) /\ db \in Database /\ f \in OfferRow /\ Terms(db, o) \in Price
        /\ o \in Nat /\ db.offer \in Seq(OfferRow)
    BY Before, Tables, RowsOf DEF Typed
  <2>2. f.proposer \in {f.buyer, Seller(db, o)}
        /\ (f.status = "pending" => f.signed[f.proposer] = Last(f.terms))
    BY <2>1 DEF Core, Linked, Consented, Terms
  <2> QED
    BY <2>1, <2>2 DEF OfferRow, Terms
<1>2. Settle(e, Focus(o))
  BY DEF Message
<1>3. CASE f.status = "pending"
  <2>1. t \in Seq(Price) \ {<<>>} /\ Last(t) = Last(f.terms)
    BY <1>1, <1>3, MoreTerms
  <2> HIDE DEF t, f
  <2>2. /\ row \in OfferRow /\ row.terms = t /\ row.listing = f.listing /\ row.lrev = f.lrev
        /\ row.buyer = f.buyer /\ row.post = f.post /\ row.status = f.status
        /\ row.proposer = f.proposer /\ row.signed = f.signed
    BY <1>1, <2>1 DEF OfferRow
  <2> HIDE DEF row
  <2>3. OfferParts(db, e, o, row)
    BY <1>1, <2>2, OfferSet
  <2> HIDE DEF e
  <2>4. Answers(db, o, row)
    BY <1>1, <1>3, <2>1, <2>2 DEF Answers, f
  <2> QED
    BY <1>2, <2>3, <2>4, AnswerCommits
<1>4. CASE f.status # "pending"
  <2>1. t = f.terms
    BY <1>4
  <2> HIDE DEF t
  <2>2. row = f
    BY <1>1, <2>1 DEF OfferRow
  <2> HIDE DEF row
  <2>3. q = db.offer
    BY <1>1, <2>2
  <2> HIDE DEF q
  <2>4. e = db
    BY <1>1, <2>3 DEF Database
  <2> HIDE DEF e
  <2>5. Covered(db, Focus(o), left) /\ Sound(db, {}) /\ left \subseteq Players
    BY Before DEF Covered, Waits
  <2>6. Focus(o) \in Selectors
    BY <1>1 DEF Selectors
  <2> QED
    BY <1>2, <2>4, <2>5, <2>6, Settles
<1> QED
  BY <1>3, <1>4

\* A proposal.
OfferIs(row, l, lrev, buyer, proposer, price, status, post) ==
    /\ row \in OfferRow /\ row.listing = l /\ row.lrev = lrev /\ row.buyer = buyer
    /\ row.proposer = proposer /\ Last(row.terms) = price /\ row.status = status
    /\ row.post = post /\ row.signed[proposer] = price

LEMMA NewOfferIs ==
    ASSUME NEW l \in Nat, NEW lrev \in Nat \ {0}, NEW buyer \in Players,
           NEW proposer \in Players, NEW price \in Price, NEW status \in OfferStatus,
           NEW post \in Nat
    PROVE  OfferIs(NewOffer(l, lrev, buyer, proposer, price, status, post),
                   l, lrev, buyer, proposer, price, status, post)
<1> DEFINE t == <<price>>
           g == [p \in Players |-> IF p = proposer THEN price ELSE None]
           row == NewOffer(l, lrev, buyer, proposer, price, status, post)
<1>1. t \in Seq(Price) \ {<<>>} /\ Last(t) = price
  BY DEF Last
<1>2. g \in [Players -> Price \cup {None}] /\ g[proposer] = price
  OBVIOUS
<1>3. row = [listing |-> l, lrev |-> lrev, buyer |-> buyer, proposer |-> proposer,
             terms |-> t, status |-> status, post |-> post, signed |-> g]
  BY DEF NewOffer
<1> HIDE DEF t, g, row
<1>4. OfferIs(row, l, lrev, buyer, proposer, price, status, post)
  BY <1>1, <1>2, <1>3 DEF OfferIs, OfferRow
<1> QED
  BY <1>4 DEF row

LEMMA ProposeCommits ==
    ASSUME Orderly, NEW p \in Players, NEW l \in DOMAIN db.listing, NEW price \in Price,
           Propose(p, l, price)
    PROVE  Committed(db', left')
<1> DEFINE lrev == db.listing[l].rev
           row == NewOffer(l, lrev, p, p, price, "pending", 0)
           o == Len(db.offer) + 1
           e == [db EXCEPT !.offer = Append(@, row)]
<1>1. /\ Core(db) /\ Typed(db) /\ Len(db.wanted) \in Nat /\ db.listing[l] \in ListingRow /\ l \in Nat
  BY Before, Tables
<1>2. Settle(e, Focus(o)) /\ db.listing[l].seller # p /\ db.listing[l].status = "open"
  BY DEF Propose, Negotiable
<1>3. lrev \in Nat \ {0} /\ 0 \in Nat /\ 0 \in 0 .. Len(db.wanted) /\ lrev <= lrev
  BY <1>1 DEF ListingRow
<1>4. "pending" \in OfferStatus
  BY DEF OfferStatus
<1>5. OfferIs(row, l, lrev, p, p, price, "pending", 0)
  BY <1>1, <1>3, <1>4, NewOfferIs
<1> HIDE DEF row
<1>6. /\ OfferParts(db, e, o, row) /\ o \in Nat /\ o \notin DOMAIN db.offer
  BY <1>1, <1>5, OfferAdd DEF OfferIs
<1> HIDE DEF e, o
<1>7. OfferChanged(db, e, o)
  BY <1>2, <1>3, <1>5, <1>6 DEF OfferIs, OfferParts, OfferChanged
<1> QED
  BY <1>2, <1>6, <1>7, FocusCommits DEF OfferParts

-------------------------------------------------------------------------------
(***************************************************************************)
(* Agreements.                                                             *)
(***************************************************************************)
\* The listing of offer o, which was open, is agreed with o; its other offers end.
ConcludedFor(d, e, o, l) ==
    LET f == e.offer[o]
    IN  /\ Typed(e) /\ e.item = d.item /\ e.gold = d.gold /\ e.auto = d.auto
        /\ e.wanted = d.wanted
        /\ o \in DOMAIN e.offer /\ DOMAIN d.offer \subseteq DOMAIN e.offer
        /\ o \in DOMAIN d.offer => d.offer[o].status = "pending"
        /\ \A x \in DOMAIN e.offer : x # o =>
             /\ x \in DOMAIN d.offer
             /\ e.offer[x].listing = d.offer[x].listing /\ e.offer[x].lrev = d.offer[x].lrev
             /\ e.offer[x].buyer = d.offer[x].buyer /\ e.offer[x].post = d.offer[x].post
             /\ e.offer[x].proposer = d.offer[x].proposer
             /\ IF d.offer[x].listing = l /\ Live(d, x) THEN e.offer[x].status = "ended"
                ELSE e.offer[x] = d.offer[x]
        /\ l \in DOMAIN d.listing /\ d.listing[l].status = "open"
        /\ DOMAIN e.listing = DOMAIN d.listing /\ e.listing[l].status = "agreed"
        /\ \A m \in DOMAIN d.listing :
             /\ e.listing[m].seller = d.listing[m].seller /\ e.listing[m].root = d.listing[m].root
             /\ e.listing[m].goods = d.listing[m].goods /\ e.listing[m].spot = d.listing[m].spot
             /\ e.listing[m].rev >= d.listing[m].rev
             /\ m # l => e.listing[m] = d.listing[m]
        /\ f.lrev <= e.listing[l].rev /\ f.buyer # d.listing[l].seller
        /\ f.proposer \in {f.buyer, d.listing[l].seller} /\ f.post \in 0 .. Len(d.wanted)
        /\ f.status = "accepted" /\ f.signed[d.listing[l].seller] = Terms(e, o)
        /\ f.signed[f.buyer] = Terms(e, o) \/ Terms(e, o) = Free

Concluded(d, e, o) == ConcludedFor(d, e, o, e.offer[o].listing)

LEMMA ConcludedCore ==
    ASSUME NEW d, Core(d), NEW e, NEW o, Concluded(d, e, o)
    PROVE  Core(e)
<1> DEFINE l == e.offer[o].listing
<1>1. AgreedPairs(d) /\ Linked(d) /\ Placed(d) /\ Consented(d) /\ Typed(e)
  BY AgreedSays DEF Core, Concluded, ConcludedFor
<1>2. /\ l \in DOMAIN d.listing /\ d.listing[l].status = "open" /\ e.listing[l].status = "agreed"
      /\ DOMAIN e.listing = DOMAIN d.listing /\ DOMAIN d.offer \subseteq DOMAIN e.offer
      /\ o \in DOMAIN e.offer /\ e.offer[o].status = "accepted" /\ e.item = d.item
      /\ e.wanted = d.wanted /\ (o \in DOMAIN d.offer => d.offer[o].status = "pending")
  BY DEF Concluded, ConcludedFor
<1>3. \A x \in DOMAIN e.offer : x # o =>
        /\ x \in DOMAIN d.offer
        /\ e.offer[x].listing = d.offer[x].listing /\ e.offer[x].lrev = d.offer[x].lrev
        /\ e.offer[x].buyer = d.offer[x].buyer /\ e.offer[x].post = d.offer[x].post
        /\ e.offer[x].proposer = d.offer[x].proposer
        /\ IF d.offer[x].listing = l /\ Live(d, x) THEN e.offer[x].status = "ended"
           ELSE e.offer[x] = d.offer[x]
  BY DEF Concluded, ConcludedFor
<1>4. \A m \in DOMAIN d.listing :
             /\ e.listing[m].seller = d.listing[m].seller /\ e.listing[m].root = d.listing[m].root
             /\ e.listing[m].goods = d.listing[m].goods /\ e.listing[m].spot = d.listing[m].spot
             /\ e.listing[m].rev >= d.listing[m].rev
             /\ m # l => e.listing[m] = d.listing[m]
  BY DEF Concluded, ConcludedFor
<1>5. /\ e.offer[o].lrev <= e.listing[l].rev /\ e.offer[o].buyer # d.listing[l].seller
      /\ e.offer[o].proposer \in {e.offer[o].buyer, d.listing[l].seller}
      /\ e.offer[o].post \in 0 .. Len(d.wanted)
      /\ e.offer[o].signed[d.listing[l].seller] = Terms(e, o)
      /\ e.offer[o].signed[e.offer[o].buyer] = Terms(e, o) \/ Terms(e, o) = Free
  BY DEF Concluded, ConcludedFor
<1>6. Linked(e)
  <2> SUFFICES ASSUME NEW x \in DOMAIN e.offer
               PROVE  /\ e.offer[x].listing \in DOMAIN e.listing
                      /\ e.offer[x].lrev <= e.listing[e.offer[x].listing].rev
                      /\ e.offer[x].buyer # Seller(e, x)
                      /\ e.offer[x].proposer \in {e.offer[x].buyer, Seller(e, x)}
                      /\ e.offer[x].post \in 0 .. Len(e.wanted)
    BY DEF Linked
  <2>1. CASE x = o
    BY <1>2, <1>4, <1>5, <2>1 DEF Seller
  <2>2. CASE x # o
    <3>1. /\ x \in DOMAIN d.offer /\ d.offer[x].listing \in DOMAIN d.listing
          /\ d.offer[x].lrev <= d.listing[d.offer[x].listing].rev
          /\ d.offer[x].buyer # Seller(d, x)
          /\ d.offer[x].proposer \in {d.offer[x].buyer, Seller(d, x)}
          /\ d.offer[x].post \in 0 .. Len(d.wanted)
      BY <1>1, <1>3, <2>2 DEF Linked
    <3>2. /\ d.offer[x].lrev \in Nat /\ d.listing[d.offer[x].listing].rev \in Nat
          /\ e.listing[d.offer[x].listing].rev \in Nat
      BY <1>1, <1>2, <3>1, Tables DEF Core, OfferRow, ListingRow
    <3>3. e.listing[d.offer[x].listing].rev >= d.listing[d.offer[x].listing].rev
      BY <1>4, <3>1
    <3>4. d.offer[x].lrev <= e.listing[d.offer[x].listing].rev
      BY <3>1, <3>2, <3>3
    <3>5. Seller(e, x) = Seller(d, x)
      BY <1>3, <1>4, <2>2, <3>1 DEF Seller
    <3> QED
      BY <1>2, <1>3, <2>2, <3>1, <3>4, <3>5
  <2> QED
    BY <2>1, <2>2
<1>7. Placed(e)
  <2>1. \A m \in DOMAIN d.listing : Active(e, m) <=> Active(d, m)
    BY <1>2, <1>4 DEF Active
  <2>2. \A m \in DOMAIN d.listing : Holding(e.listing[m]) = Holding(d.listing[m])
    BY <1>4 DEF Holding
  <2>3. \A p, i, set : Holds(e, p, i, set) <=> Holds(d, p, i, set)
    BY <1>2 DEF Holds
  <2> HIDE DEF l
  <2>4. \A m \in DOMAIN d.listing : Active(e, m) => \A i \in e.listing[m].goods :
             Holds(e, e.listing[m].seller, i, Holding(e.listing[m]))
    BY <1>1, <1>4, <2>1, <2>2, <2>3 DEF Placed
  <2>5. \A m \in DOMAIN d.listing :
             /\ e.listing[m].root \in e.listing[m].goods
             /\ e.listing[m].spot # 0 => e.listing[m].goods = {e.listing[m].root}
    BY <1>1, <1>4 DEF Placed
  <2>6. ASSUME NEW m \in DOMAIN d.listing, NEW n \in DOMAIN d.listing,
               e.listing[m].spot # 0, e.listing[n].seller = e.listing[m].seller,
               e.listing[n].root = e.listing[m].root, e.listing[n].spot = e.listing[m].spot
        PROVE  n = m
    BY <1>1, <1>4, <2>6 DEF Placed
  <2> QED
    BY <1>2, <2>4, <2>5, <2>6 DEF Placed
<1>8. Agreed(e)
  <2>1. ASSUME NEW m \in DOMAIN e.listing, e.listing[m].status = "agreed"
        PROVE  \E x \in DOMAIN e.offer : e.offer[x].listing = m /\ e.offer[x].status = "accepted"
    <3>1. CASE m = l
      BY <1>2, <3>1
    <3>2. CASE m # l
      <4>1. PICK x \in DOMAIN d.offer : d.offer[x].listing = m /\ d.offer[x].status = "accepted"
        BY <1>1, <1>2, <1>4, <2>1, <3>2 DEF AgreedPairs, OfferAgrees, OffersApart
      <4>2. x # o /\ x \in DOMAIN e.offer
        BY <1>2, <4>1
      <4>3. e.offer[x] = d.offer[x]
        BY <1>3, <3>2, <4>1, <4>2
      <4> QED
        BY <4>1, <4>2, <4>3
    <3> QED
      BY <3>1, <3>2
  <2>2. ASSUME NEW x \in DOMAIN e.offer, x # o
        PROVE  /\ x \in DOMAIN d.offer /\ e.offer[x].listing = d.offer[x].listing
               /\ e.offer[x].listing = l => e.offer[x].status = "ended"
               /\ e.offer[x].listing # l => /\ e.offer[x] = d.offer[x]
                                            /\ e.listing[e.offer[x].listing] = d.listing[d.offer[x].listing]
               /\ e.offer[x].listing \in DOMAIN e.listing
    <3>1. /\ x \in DOMAIN d.offer /\ e.offer[x].listing = d.offer[x].listing
          /\ d.offer[x].listing \in DOMAIN d.listing
          /\ IF d.offer[x].listing = l /\ Live(d, x) THEN e.offer[x].status = "ended"
             ELSE e.offer[x] = d.offer[x]
      BY <1>1, <1>3, <2>2 DEF AgreedPairs, OfferAgrees, OffersApart
    <3>2. e.offer[x].listing = l => e.offer[x].status = "ended"
      <4> SUFFICES ASSUME d.offer[x].listing = l, ~Live(d, x)
                   PROVE  d.offer[x].status = "ended"
        BY <3>1
      <4>1. d.offer[x].status # "completed"
        BY <1>1, <1>2, <3>1 DEF AgreedPairs, OfferAgrees, OffersApart
      <4>2. d.offer[x] \in OfferRow
        BY <3>1, Tables DEF Core
      <4> QED
        BY <4>1, <4>2 DEF Live, OfferRow, OfferStatus
    <3> QED
      BY <1>2, <1>4, <3>1, <3>2
  <2>3. ASSUME NEW x \in DOMAIN e.offer
        PROVE  OfferAgrees(e, x)
    <3>1. CASE x = o
      BY <1>2, <3>1 DEF OfferAgrees
    <3>2. CASE x # o /\ e.offer[x].listing = l
      BY <2>2, <3>2, EndedAgrees
    <3>3. CASE x # o /\ e.offer[x].listing # l
      <4>1. /\ x \in DOMAIN d.offer /\ e.offer[x] = d.offer[x]
            /\ e.listing[d.offer[x].listing] = d.listing[d.offer[x].listing]
            /\ d.offer[x].listing \in DOMAIN e.listing
        BY <2>2, <3>3
      <4>2. OfferAgrees(d, x)
        BY <1>1, <4>1, AgreedOffer
      <4> QED
        BY <4>1, <4>2, SameOffer
    <3> QED
      BY <3>1, <3>2, <3>3
  <2>4. ASSUME NEW x \in DOMAIN e.offer, NEW y \in DOMAIN e.offer, x # y,
               e.offer[y].listing = e.offer[x].listing
        PROVE  OffersApart(e, x, y)
    <3>1. CASE x = o
      <4>1. e.offer[o].status = "accepted" /\ e.offer[y].status = "ended"
        BY <1>2, <2>2, <2>4, <3>1
      <4> QED
        BY <3>1, <4>1 DEF OffersApart
    <3>2. CASE x # o /\ e.offer[x].listing = l
      <4>1. e.offer[x].status = "ended"
        BY <2>2, <3>2
      <4> QED
        BY <4>1 DEF OffersApart
    <3>3. CASE x # o /\ y # o /\ e.offer[x].listing # l
      <4>1. /\ x \in DOMAIN d.offer /\ e.offer[x] = d.offer[x]
            /\ y \in DOMAIN d.offer /\ e.offer[y] = d.offer[y]
        BY <2>2, <2>4, <3>3
      <4>2. OffersApart(d, x, y)
        BY <1>1, <2>4, <4>1, AgreedApart
      <4> QED
        BY <4>1, <4>2, SameApart
    <3> QED
      BY <2>4, <3>1, <3>2, <3>3
  <2> HIDE DEF l
  <2>5. AgreedPairs(e)
    BY <2>1, <2>3, <2>4 DEF AgreedPairs
  <2> QED
    BY <2>5, AgreedBy
<1>9. Consented(e)
  <2> SUFFICES ASSUME NEW x \in DOMAIN e.offer
               PROVE  /\ e.offer[x].status = "pending" =>
                           e.offer[x].signed[e.offer[x].proposer] = Terms(e, x)
                      /\ e.offer[x].status \in {"accepted", "completed"} =>
                           /\ e.offer[x].signed[Seller(e, x)] = Terms(e, x)
                           /\ \/ e.offer[x].signed[e.offer[x].buyer] = Terms(e, x)
                              \/ Terms(e, x) = Free
    BY DEF Consented
  <2>1. CASE x = o
    BY <1>2, <1>4, <1>5, <2>1 DEF Seller
  <2>2. CASE x # o /\ e.offer[x].status # "ended"
    <3>1. x \in DOMAIN d.offer /\ e.offer[x] = d.offer[x] /\ d.offer[x].listing \in DOMAIN d.listing
      BY <1>1, <1>3, <2>2 DEF AgreedPairs, OfferAgrees, OffersApart
    <3>2. Seller(e, x) = Seller(d, x) /\ Terms(e, x) = Terms(d, x)
      BY <1>4, <3>1 DEF Seller, Terms
    <3> QED
      BY <1>1, <3>1, <3>2 DEF Consented
  <2> QED
    BY <2>1, <2>2
<1> QED
  BY <1>1, <1>6, <1>7, <1>8, <1>9 DEF Core

LEMMA ConcludedSound ==
    ASSUME NEW d, Sound(d, {}), NEW e, NEW o, Concluded(d, e, o)
    PROVE  Sound(e, {})
<1>1. Core(e)
  BY ConcludedCore DEF Sound
<1>2. /\ DOMAIN e.listing = DOMAIN d.listing /\ e.item = d.item
      /\ \A m \in DOMAIN d.listing : /\ Active(e, m) <=> Active(d, m)
                                    /\ e.listing[m].goods = d.listing[m].goods
  BY DEF Concluded, ConcludedFor, Active
<1>3. \A i \in Item : Sold(e, i) <=> Sold(d, i)
  BY <1>2 DEF Sold
<1>4. ForSale(e, {})
  BY <1>2, <1>3 DEF Sound, ForSale
<1>5. Exclusive(e, {})
  BY <1>2 DEF Sound, Exclusive
<1> QED
  BY <1>1, <1>4, <1>5 DEF Sound

\* No other offer becomes ready.
LEMMA ConcludedReady ==
    ASSUME NEW d, Core(d), NEW e, NEW o, Concluded(d, e, o), NEW x \in DOMAIN e.offer, x # o, Ready(e, x)
    PROVE  x \in DOMAIN d.offer /\ e.offer[x] = d.offer[x] /\ Ready(d, x)
<1>1. x \in DOMAIN d.offer /\ e.offer[x] = d.offer[x] /\ Live(d, x)
      /\ d.offer[x].listing # e.offer[o].listing
  BY ReadyActive, SMTT(20) DEF Concluded, ConcludedFor, Live
<1>2. e.listing[d.offer[x].listing] = d.listing[d.offer[x].listing]
  BY <1>1 DEF Concluded, ConcludedFor, Core, Linked
<1>3. e.item = d.item /\ e.gold = d.gold /\ e.auto = d.auto
  BY DEF Concluded, ConcludedFor
<1>4. Unhelped(d, e, x, x)
  BY <1>1, <1>2, <1>3 DEF Unhelped, Terms, Holds
<1> QED
  BY <1>1, <1>4, ReadyWas

LEMMA ConcludedCommits ==
    ASSUME Orderly, NEW d, Sound(d, {}), Waits(d, left), NEW o \in Nat, NEW e, Concluded(d, e, o),
           Settle(e, Focus(o))
    PROVE  Committed(db', left')
<1>1. left \subseteq Players /\ Core(d)
  BY Before DEF Sound
<1>2. Sound(e, {})
  BY ConcludedSound
<1>3. Covered(e, Focus(o), left)
  <2> SUFFICES ASSUME NEW x \in DOMAIN e.offer, Ready(e, x), x # o
               PROVE  e.offer[x].buyer \in left
    BY DEF Covered, Selects, Focus
  <2>1. x \in DOMAIN d.offer /\ e.offer[x] = d.offer[x] /\ Ready(d, x)
    BY <1>1, ConcludedReady
  <2> QED
    BY <2>1 DEF Waits
<1>4. Focus(o) \in Selectors
  BY DEF Selectors
<1> QED
  BY <1>1, <1>2, <1>3, <1>4, Settles

-------------------------------------------------------------------------------
\* Terms are accepted.
LEMMA AcceptCommits ==
    ASSUME Orderly, NEW p \in Players, NEW o \in DOMAIN db.offer, NEW seen, Accept(p, o, seen)
    PROVE  Committed(db', left')
<1> DEFINE f == db.offer[o]
           l == f.listing
           price == Terms(db, o)
           one == [f EXCEPT !.signed = [f.signed EXCEPT ![p] = price]]
           c == Signed(db, p, o, price)
           i == InvalidateOffers(c, {l}, o)
           two == Closed(one, "accepted")
           row == Revised(db.listing[l], "agreed")
           q == [i.offer EXCEPT ![o] = two]
           r == [db.listing EXCEPT ![l] = row]
           e == Agree(c, o)
<1>1. /\ Core(db) /\ Typed(db) /\ db \in Database /\ Sound(db, {}) /\ Waits(db, left)
  BY Before DEF Core, Typed
<1>2. Answering(p, o, seen) /\ f.proposer # p
  <2>1. Answerable(p, o, seen, FALSE)
    BY DEF Accept
  <2> QED
    BY <2>1, AnswerableIs
<1>3. /\ f \in OfferRow /\ f.status = "pending" /\ f.terms[seen] = price /\ price \in Price
      /\ p \in {f.buyer, Seller(db, o)} /\ f.proposer \in {f.buyer, Seller(db, o)}
      /\ f.buyer # Seller(db, o) /\ l \in DOMAIN db.listing /\ db.listing[l].status = "open"
      /\ f.lrev = db.listing[l].rev /\ p \in Players /\ f.signed[f.proposer] = price
      /\ Last(f.terms) = price /\ db.listing[l] \in ListingRow /\ f.post \in 0 .. Len(db.wanted)
      /\ Seller(db, o) = db.listing[l].seller /\ o \in Nat
      /\ Seller(db, o) \in Players /\ f.buyer \in Players
  <2>1. f.post \in 0 .. Len(db.wanted)
    BY <1>1 DEF Core, Linked
  <2>2. /\ db.listing[l] \in ListingRow /\ o \in Nat /\ Seller(db, o) \in Players
        /\ f.buyer \in Players
    BY <1>1, RowsOf, Tables
  <2> QED
    BY <1>2, <2>1, <2>2 DEF Answering, Terms, Seller
<1>4. Settle(e, Focus(o))
  BY <1>3 DEF Accept
<1>5. /\ one \in OfferRow /\ one.listing = f.listing /\ one.lrev = f.lrev /\ one.buyer = f.buyer
      /\ one.post = f.post /\ one.status = f.status /\ one.terms = f.terms
      /\ one.proposer = f.proposer
      /\ one.signed[f.buyer] = price /\ one.signed[Seller(db, o)] = price
  <2> DEFINE g == [f.signed EXCEPT ![p] = price]
  <2>1. f.signed \in [Players -> Price \cup {None}]
    BY <1>3 DEF OfferRow
  <2>2. /\ g \in [Players -> Price \cup {None}] /\ g[p] = price
        /\ g[f.proposer] = price
    BY <1>2, <1>3, <2>1
  <2>3. g[f.buyer] = price /\ g[Seller(db, o)] = price
    BY <1>2, <1>3, <2>2
  <2> HIDE DEF g, f
  <2>4. one = [f EXCEPT !.signed = g]
    BY DEF g
  <2> QED
    BY <1>3, <2>2, <2>3, <2>4 DEF OfferRow
<1> HIDE DEF f
<1>6. c = [db EXCEPT !.offer = [db.offer EXCEPT ![o] = one]]
  BY DEF Signed, f
<1>7. OfferParts(db, c, o, one)
  <2> HIDE DEF one, c
  <2> QED
    BY <1>1, <1>5, <1>6, OfferSet
<1> HIDE DEF c
<1>8. /\ Typed(c) /\ c \in Database /\ c.item = db.item /\ c.listing = db.listing
      /\ c.wanted = db.wanted
      /\ c.gold = db.gold /\ c.auto = db.auto /\ o \in DOMAIN c.offer /\ c.offer[o] = one
      /\ DOMAIN c.offer = DOMAIN db.offer
      /\ \A x \in DOMAIN db.offer : x # o => c.offer[x] = db.offer[x]
  BY <1>7 DEF OfferParts, Typed
<1>9. /\ Typed(i) /\ Same(c, i, {"offer"}) /\ DOMAIN i.offer = DOMAIN c.offer
      /\ \A x \in DOMAIN c.offer :
                IF c.offer[x].listing \in {l} /\ Live(c, x) /\ x # o
                THEN i.offer[x] = Ended(c.offer[x]) ELSE i.offer[x] = c.offer[x]
  BY <1>8, Invalidated
<1>10. c.offer[o].listing = l
  BY <1>5, <1>8 DEF f
<1>11. /\ two \in OfferRow /\ two.status = "accepted" /\ two.listing = one.listing
       /\ two.lrev = one.lrev /\ two.buyer = one.buyer /\ two.proposer = one.proposer
       /\ two.post = one.post /\ two.signed = one.signed /\ Last(two.terms) = Last(one.terms)
  <2>1. "accepted" \in OfferStatus \cup {"ended"}
    BY DEF OfferStatus
  <2> HIDE DEF one
  <2> QED
    BY <1>5, <2>1, ClosedOffer
<1>12. /\ row \in ListingRow /\ row.status = "agreed" /\ row.rev = db.listing[l].rev + 1
       /\ row.seller = db.listing[l].seller /\ row.root = db.listing[l].root
       /\ row.goods = db.listing[l].goods /\ row.spot = db.listing[l].spot
  BY <1>3, RevisedRow
<1>13. e = [i EXCEPT !.offer = q, !.listing = r]
  <2>1. i.offer[o] = one /\ i.listing = db.listing
    BY <1>8, <1>9 DEF Same
  <2>2. e = [i EXCEPT !.offer = [i.offer EXCEPT ![o] = Closed(i.offer[o], "accepted")],
                      !.listing = [i.listing EXCEPT ![l] = Revised(i.listing[l], "agreed")]]
    BY <1>9, <1>10 DEF Agree, Typed, Database
  <2> HIDE DEF i, e, one
  <2> QED
    BY <2>1, <2>2
<1> HIDE DEF i, one, two, row, e, l, price
<1>14. /\ Len(i.offer) \in Nat /\ DOMAIN i.offer = 1 .. Len(i.offer)
       /\ \A x \in DOMAIN i.offer : i.offer[x] \in OfferRow
       /\ Len(db.listing) \in Nat /\ DOMAIN db.listing = 1 .. Len(db.listing)
       /\ \A m \in DOMAIN db.listing : db.listing[m] \in ListingRow
  BY <1>1, <1>9, Tables
<1>15. /\ q \in Seq(OfferRow) /\ DOMAIN q = DOMAIN i.offer /\ q[o] = two
       /\ \A x \in DOMAIN i.offer : x # o => q[x] = i.offer[x]
  <2>1. /\ DOMAIN q = 1 .. Len(i.offer) /\ q = [x \in DOMAIN q |-> q[x]]
        /\ q[o] = two /\ \A x \in DOMAIN i.offer : x # o => q[x] = i.offer[x]
    BY <1>8, <1>9, <1>14
  <2> HIDE DEF q
  <2>2. \A x \in DOMAIN q : q[x] \in OfferRow
    BY <1>11, <1>14, <2>1
  <2> QED
    BY <1>14, <2>1, <2>2, SeqBy
<1>16. /\ r \in Seq(ListingRow) /\ DOMAIN r = DOMAIN db.listing /\ r[l] = row
       /\ \A m \in DOMAIN db.listing : m # l => r[m] = db.listing[m]
  <2>1. /\ DOMAIN r = 1 .. Len(db.listing) /\ r = [x \in DOMAIN r |-> r[x]]
        /\ r[l] = row /\ \A m \in DOMAIN db.listing : m # l => r[m] = db.listing[m]
    BY <1>3, <1>14
  <2> HIDE DEF r
  <2>2. \A x \in DOMAIN r : r[x] \in ListingRow
    BY <1>12, <1>14, <2>1
  <2> QED
    BY <1>14, <2>1, <2>2, SeqBy
<1> HIDE DEF q, r
<1>17. /\ Typed(e) /\ e.item = db.item /\ e.gold = db.gold /\ e.auto = db.auto
       /\ e.wanted = db.wanted /\ e.offer = q /\ e.listing = r
  BY <1>8, <1>9, <1>13, <1>15, <1>16 DEF Typed, Database, Same
<1>18. \A x \in DOMAIN e.offer : x # o =>
             /\ x \in DOMAIN db.offer
             /\ e.offer[x].listing = db.offer[x].listing /\ e.offer[x].lrev = db.offer[x].lrev
             /\ e.offer[x].buyer = db.offer[x].buyer /\ e.offer[x].post = db.offer[x].post
             /\ e.offer[x].proposer = db.offer[x].proposer
             /\ IF db.offer[x].listing = l /\ Live(db, x) THEN e.offer[x].status = "ended"
                ELSE e.offer[x] = db.offer[x]
  <2> SUFFICES ASSUME NEW x \in DOMAIN e.offer, x # o
               PROVE  /\ x \in DOMAIN db.offer
                      /\ e.offer[x].listing = db.offer[x].listing
                      /\ e.offer[x].lrev = db.offer[x].lrev
                      /\ e.offer[x].buyer = db.offer[x].buyer
                      /\ e.offer[x].post = db.offer[x].post
                      /\ e.offer[x].proposer = db.offer[x].proposer
                      /\ IF db.offer[x].listing = l /\ Live(db, x)
                         THEN e.offer[x].status = "ended" ELSE e.offer[x] = db.offer[x]
    OBVIOUS
  <2>1. x \in DOMAIN db.offer /\ c.offer[x] = db.offer[x] /\ e.offer[x] = i.offer[x]
    BY <1>8, <1>9, <1>15, <1>17
  <2>2. Live(c, x) <=> Live(db, x)
    BY <2>1 DEF Live
  <2>3. IF db.offer[x].listing = l /\ Live(db, x)
        THEN i.offer[x] = Ended(db.offer[x]) ELSE i.offer[x] = db.offer[x]
    BY <1>8, <1>9, <2>1, <2>2
  <2>4. db.offer[x] \in OfferRow
    BY <1>1, <2>1, Tables
  <2> QED
    BY <2>1, <2>3, <2>4, EndedOffer
<1>19. \A m \in DOMAIN db.listing :
             /\ e.listing[m].seller = db.listing[m].seller /\ e.listing[m].root = db.listing[m].root
             /\ e.listing[m].goods = db.listing[m].goods /\ e.listing[m].spot = db.listing[m].spot
             /\ e.listing[m].rev >= db.listing[m].rev
             /\ m # l => e.listing[m] = db.listing[m]
  <2> TAKE m \in DOMAIN db.listing
  <2>1. db.listing[m].rev \in Nat
    BY <1>14 DEF ListingRow
  <2>2. CASE m = l
    BY <1>12, <1>16, <1>17, <2>1, <2>2
  <2>3. CASE m # l
    BY <1>16, <1>17, <2>1, <2>3
  <2> QED
    BY <2>2, <2>3
<1>20. /\ e.offer[o] = two /\ two.listing = l /\ Terms(e, o) = price /\ o \in DOMAIN e.offer
       /\ DOMAIN e.offer = DOMAIN db.offer /\ e.listing[l].status = "agreed"
       /\ DOMAIN e.listing = DOMAIN db.listing
       /\ db.offer[o].status = "pending" /\ two.lrev <= e.listing[l].rev
  <2>1. e.offer[o] = two /\ two.listing = l /\ o \in DOMAIN e.offer
    BY <1>5, <1>8, <1>9, <1>11, <1>15, <1>17 DEF f, l
  <2>2. Terms(e, o) = price
    BY <1>3, <1>5, <1>11, <2>1 DEF Terms
  <2>3. two.lrev = db.listing[l].rev
    BY <1>3, <1>5, <1>11
  <2>4. db.listing[l].rev \in Nat /\ db.listing[l].rev <= e.listing[l].rev
    BY <1>3, <1>19 DEF ListingRow
  <2> QED
    BY <1>3, <1>8, <1>9, <1>12, <1>15, <1>16, <1>17, <2>1, <2>2, <2>3, <2>4 DEF f
<1>21. Concluded(db, e, o)
  <2>1. /\ two.buyer # db.listing[l].seller
        /\ two.proposer \in {two.buyer, db.listing[l].seller} /\ two.post \in 0 .. Len(db.wanted)
        /\ two.status = "accepted" /\ two.signed[db.listing[l].seller] = price
        /\ two.signed[two.buyer] = price
    BY <1>3, <1>5, <1>11
  <2> QED
    BY <1>3, <1>17, <1>18, <1>19, <1>20, <2>1 DEF Concluded, ConcludedFor
<1> QED
  BY <1>1, <1>3, <1>4, <1>21, ConcludedCommits

-------------------------------------------------------------------------------
\* An item is given away: for sale first, and agreed.
LEMMA GiftItemCommits ==
    ASSUME Orderly, NEW p \in Players, NEW to \in Players, NEW i \in Item, GiftItem(p, to, i)
    PROVE  Committed(db', left')
<1> DEFINE w == Withdraw(db, Of(db, i))
           open == NewListing(p, i, {i}, "open", Free, 0)
           agreed == NewListing(p, i, {i}, "agreed", Free, 0)
           l == Len(w.listing) + 1
           k == Len(List(w, agreed).listing)
           o == Len(db.offer) + 1
           row == NewOffer(l, 1, to, p, Free, "accepted", 0)
           c == [List(w, open) EXCEPT !.item[i].state = "listed"]
           q == Append(w.offer, row)
           e == [c EXCEPT !.listing = Append(w.listing, agreed), !.offer = q]
<1>1. /\ Changeable(p, i) /\ p # to
      /\ Settle([List(w, agreed) EXCEPT
                   !.offer = Append(@, NewOffer(k, 1, to, p, Free, "accepted", 0)),
                   !.item[i].state = "listed"], Focus(o))
  BY DEF GiftItem
<1>2. /\ Waiting(w, {i}) /\ Left(db, w) /\ Typed(w) /\ w.item = db.item /\ w.gold = db.gold
      /\ w.auto = db.auto /\ w.wanted = db.wanted /\ ~Sold(w, i)
  BY <1>1, OwnCleared
<1>3. /\ Core(db) /\ Typed(db) /\ Waits(db, left) /\ w \in Database
      /\ \A x \in Players : db.gold[x] \in Nat
  BY <1>2, Before DEF Typed
<1>4. /\ Len(w.offer) = Len(db.offer) /\ Len(db.offer) \in Nat
      /\ DOMAIN w.offer = 1 .. Len(db.offer)
  <2>1. DOMAIN w.offer = DOMAIN db.offer
    BY <1>3, WithdrawIs
  <2> HIDE DEF w
  <2>2. /\ Len(db.offer) \in Nat /\ DOMAIN db.offer = 1 .. Len(db.offer)
        /\ Len(w.offer) \in Nat /\ DOMAIN w.offer = 1 .. Len(w.offer)
    BY <1>2, <1>3, Tables
  <2> QED
    BY <2>1, <2>2
<1> HIDE DEF w
<1>5. db.item[i].owner = p /\ Free \in Price /\ Free \in Ask
  BY <1>1 DEF Changeable, Holds, Price, Ask
<1>6. Fresh(w, open) /\ open.goods = {i} /\ open.seller = p /\ Holding(open) = {"listed"}
  <2>1. {i} \in SUBSET Item /\ i \in {i} /\ Free \in Ask
    BY <1>5
  <2> QED
    BY <2>1, RowFresh
<1>7. /\ agreed \in ListingRow /\ agreed.status = "agreed"
      /\ agreed.seller = p /\ agreed.root = i /\ agreed.goods = {i} /\ agreed.spot = 0
      /\ agreed.rev = 1
      /\ open \in ListingRow /\ open.status = "open" /\ open.root = i /\ open.spot = 0
      /\ open.rev = 1
  BY <1>5 DEF NewListing, ListingRow
<1> HIDE DEF open, agreed
<1>8. /\ Typed(List(w, open)) /\ Same(w, List(w, open), {"listing"})
      /\ List(w, open).listing = Append(w.listing, open)
  BY <1>2, <1>3, <1>7, ListIs DEF List, Database
<1>9. "listed" \in States
  BY DEF States
<1>10. StateParts(List(w, open), c, i, "listed")
  BY <1>8, <1>9, StateIs
<1>11. Added(w, c, open)
  <2> HIDE DEF c
  <2> QED
    BY <1>2, <1>5, <1>6, <1>8, <1>10 DEF Added, StateParts, Same, Holds
<1>12. Forward(w, c)
  <2>1. {i} \subseteq open.goods /\ \A j \in open.goods : ~Sold(w, j)
    BY <1>2, <1>6
  <2> HIDE DEF c
  <2> QED
    BY <1>2, <1>6, <1>11, <2>1, AddedForward
<1>13. /\ Typed(c) /\ c \in Database /\ c.listing = Append(w.listing, open) /\ c.offer = w.offer
       /\ c.wanted = db.wanted /\ c.gold = db.gold /\ c.auto = db.auto
       /\ c.item[i].state = "listed"
       /\ \A j \in Item : j # i => c.item[j] = db.item[j]
  <2> HIDE DEF c
  <2> QED
    BY <1>2, <1>8, <1>10 DEF StateParts, Same, Typed
<1>14. Sound(c, {}) /\ Waits(c, left)
  <2> HIDE DEF c
  <2>1. Forward(db, c)
    BY <1>2, <1>12, ForwardTrans
  <2>2. Richer(db, c, {})
    <3>1. \A x \in Players : c.gold[x] <= db.gold[x]
      BY <1>3, <1>13
    <3>2. \A x \in Players, j \in Item :
            Holds(c, x, j, {"available"}) => Holds(db, x, j, {"available"})
      BY <1>13 DEF Holds
    <3> QED
      BY <3>1, <3>2 DEF Richer
  <2>3. Calm(db, c, {})
    BY <1>3, <1>13, <2>1, <2>2, CalmBy DEF Forward
  <2>4. Waits(c, left \cup {})
    BY <1>3, <2>3, CalmWaits
  <2> QED
    BY <2>1, <2>4 DEF Sound, Forward
<1>15. /\ k = l /\ l \in Nat /\ Len(w.listing) \in Nat /\ l \notin DOMAIN w.listing
       /\ Append(w.listing, agreed) \in Seq(ListingRow)
       /\ DOMAIN Append(w.listing, agreed) = 1 .. l
       /\ DOMAIN Append(w.listing, open) = 1 .. l /\ DOMAIN w.listing = 1 .. Len(w.listing)
       /\ \A m \in DOMAIN w.listing : /\ Append(w.listing, agreed)[m] = w.listing[m]
                                      /\ Append(w.listing, open)[m] = w.listing[m]
       /\ Append(w.listing, agreed)[l] = agreed /\ Append(w.listing, open)[l] = open
  <2>1. /\ w.listing \in Seq(ListingRow) /\ Len(w.listing) \in Nat
        /\ DOMAIN w.listing = 1 .. Len(w.listing)
    BY <1>2, Tables
  <2>2. List(w, agreed).listing = Append(w.listing, agreed)
    BY <1>3 DEF List, Database
  <2> QED
    BY <1>7, <2>1, <2>2, SeqAppend
<1>16. [List(w, agreed) EXCEPT
          !.offer = Append(@, NewOffer(k, 1, to, p, Free, "accepted", 0)),
          !.item[i].state = "listed"] = e
  BY <1>3, <1>15 DEF List, Database
<1>17. Settle(e, Focus(o))
  BY <1>1, <1>16
<1>18. OfferIs(row, l, 1, to, p, Free, "accepted", 0)
  <2>1. "accepted" \in OfferStatus /\ 1 \in Nat \ {0} /\ 0 \in Nat
    BY DEF OfferStatus
  <2> QED
    BY <1>5, <1>15, <2>1, NewOfferIs
<1> HIDE DEF c, row, l, k
<1>19. /\ q \in Seq(OfferRow) /\ DOMAIN q = 1 .. o /\ q[o] = row
       /\ \A x \in DOMAIN w.offer : q[x] = w.offer[x]
  <2>1. w.offer \in Seq(OfferRow) /\ DOMAIN w.offer = 1 .. Len(w.offer)
    BY <1>2, Tables
  <2>2. row \in OfferRow
    BY <1>18 DEF OfferIs
  <2>3. o = Len(w.offer) + 1
    BY <1>4
  <2>4. /\ Append(w.offer, row) \in Seq(OfferRow)
        /\ DOMAIN Append(w.offer, row) = 1 .. (Len(w.offer) + 1)
        /\ \A x \in DOMAIN w.offer : Append(w.offer, row)[x] = w.offer[x]
        /\ Append(w.offer, row)[Len(w.offer) + 1] = row
    BY <2>1, <2>2, SeqAppend
  <2> HIDE DEF o
  <2> QED
    BY <2>3, <2>4
<1> HIDE DEF q
<1>20. /\ Typed(e) /\ e.item = c.item /\ e.gold = c.gold /\ e.auto = c.auto
       /\ e.wanted = c.wanted /\ e.offer = q /\ e.listing = Append(w.listing, agreed)
  BY <1>13, <1>15, <1>19 DEF Typed, Database
<1> HIDE DEF e
<1>21. /\ o \in Nat /\ o \in DOMAIN e.offer /\ o \notin DOMAIN c.offer
       /\ DOMAIN c.offer \subseteq DOMAIN e.offer
       /\ \A x \in DOMAIN e.offer : x # o => x \in DOMAIN c.offer /\ e.offer[x] = c.offer[x]
  <2>1. o \in Nat /\ o \in 1 .. o /\ o \notin 1 .. Len(db.offer)
    BY <1>4
  <2>2. /\ \A x \in 1 .. o : x # o => x \in 1 .. Len(db.offer)
        /\ \A x \in 1 .. Len(db.offer) : x \in 1 .. o
    <3>1. ASSUME NEW n \in Nat
          PROVE  /\ \A x \in 1 .. (n + 1) : x # n + 1 => x \in 1 .. n
                 /\ \A x \in 1 .. n : x \in 1 .. (n + 1)
      OBVIOUS
    <3> QED
      BY <1>4, <3>1
  <2> HIDE DEF o
  <2> QED
    BY <1>4, <1>13, <1>19, <1>20, <2>1, <2>2
<1>22. \A x \in DOMAIN c.offer : c.offer[x].listing # l
  <2>1. \A x \in DOMAIN w.offer : w.offer[x].listing \in DOMAIN w.listing
    BY <1>2 DEF Waiting, Core, Linked
  <2> QED
    BY <1>13, <1>15, <2>1
<1>23. l \in 1 .. l /\ \A m \in 1 .. l : m # l => m \in DOMAIN w.listing
  BY <1>15 DEF l
<1>24. /\ DOMAIN e.listing = DOMAIN c.listing /\ l \in DOMAIN c.listing
       /\ c.listing[l] = open /\ e.listing[l] = agreed
       /\ \A m \in DOMAIN c.listing : m # l => e.listing[m] = c.listing[m]
  BY <1>13, <1>15, <1>20, <1>23
<1>25. \A m \in DOMAIN c.listing : c.listing[m].rev \in Nat
  BY <1>13, Tables DEF ListingRow
<1>26. Concluded(c, e, o)
  <2>1. \A m \in DOMAIN c.listing :
             /\ e.listing[m].seller = c.listing[m].seller /\ e.listing[m].root = c.listing[m].root
             /\ e.listing[m].goods = c.listing[m].goods /\ e.listing[m].spot = c.listing[m].spot
             /\ e.listing[m].rev >= c.listing[m].rev
             /\ m # l => e.listing[m] = c.listing[m]
    <3> TAKE m \in DOMAIN c.listing
    <3>1. CASE m = l
      <4>1. e.listing[m] = agreed /\ c.listing[m] = open
        BY <1>24, <3>1
      <4>2. agreed.rev >= open.rev
        BY <1>7
      <4> QED
        BY <1>6, <1>7, <3>1, <4>1, <4>2
    <3>2. CASE m # l
      BY <1>24, <1>25, <3>2
    <3> QED
      BY <3>1, <3>2
  <2>2. \A x \in DOMAIN e.offer : x # o =>
             /\ x \in DOMAIN c.offer /\ e.offer[x] = c.offer[x] /\ c.offer[x].listing # l
    BY <1>21, <1>22
  <2>3. e.offer[o] = row /\ Terms(e, o) = Free
    BY <1>18, <1>19, <1>20 DEF Terms, OfferIs
  <2>4. /\ row.listing = l /\ row.lrev = 1 /\ row.buyer = to /\ row.proposer = p /\ row.post = 0
        /\ row.status = "accepted" /\ row.signed[p] = Free
    BY <1>18 DEF OfferIs
  <2>5. 0 \in 0 .. Len(c.wanted)
    BY <1>13, Tables
  <2>6. /\ row.lrev <= e.listing[l].rev /\ row.buyer # c.listing[l].seller
        /\ row.proposer \in {row.buyer, c.listing[l].seller} /\ row.post \in 0 .. Len(c.wanted)
        /\ row.signed[c.listing[l].seller] = Terms(e, o)
        /\ row.signed[row.buyer] = Terms(e, o) \/ Terms(e, o) = Free
        /\ c.listing[l].status = "open" /\ e.listing[l].status = "agreed"
    <3>1. c.listing[l].seller = p /\ 1 <= e.listing[l].rev
      BY <1>6, <1>7, <1>24
    <3> QED
      BY <1>1, <1>7, <1>24, <2>3, <2>4, <2>5, <3>1
  <2>7. \A x \in DOMAIN e.offer : x # o =>
             /\ x \in DOMAIN c.offer
             /\ e.offer[x].listing = c.offer[x].listing /\ e.offer[x].lrev = c.offer[x].lrev
             /\ e.offer[x].buyer = c.offer[x].buyer /\ e.offer[x].post = c.offer[x].post
             /\ e.offer[x].proposer = c.offer[x].proposer
             /\ IF c.offer[x].listing = l /\ Live(c, x) THEN e.offer[x].status = "ended"
                ELSE e.offer[x] = c.offer[x]
    BY <2>2
  <2>8. e.offer[o].listing = l /\ l \in DOMAIN c.listing
    BY <1>24, <2>3, <2>4
  <2>9. /\ e.offer[o].lrev <= e.listing[l].rev /\ e.offer[o].buyer # c.listing[l].seller
        /\ e.offer[o].proposer \in {e.offer[o].buyer, c.listing[l].seller}
        /\ e.offer[o].post \in 0 .. Len(c.wanted) /\ e.offer[o].status = "accepted"
        /\ e.offer[o].signed[c.listing[l].seller] = Terms(e, o)
        /\ e.offer[o].signed[e.offer[o].buyer] = Terms(e, o) \/ Terms(e, o) = Free
    BY <2>3, <2>4, <2>6
  <2>10. ConcludedFor(c, e, o, l)
    BY <1>20, <1>21, <1>24, <2>1, <2>6, <2>7, <2>9 DEF ConcludedFor
  <2> QED
    BY <2>8, <2>10 DEF Concluded
<1> QED
  BY <1>14, <1>17, <1>21, <1>26, ConcludedCommits

-------------------------------------------------------------------------------
(***************************************************************************)
(* Answers to wanted posts.                                                *)
(***************************************************************************)
\* A seller's proposal is never ready.
LEMMA RespondCommits ==
    ASSUME Orderly, NEW d, Sound(d, {}), Waits(d, left), NEW l \in DOMAIN d.listing,
           d.listing[l].status = "open", NEW buyer \in Players, buyer # d.listing[l].seller,
           NEW w \in DOMAIN d.wanted, NEW price \in Price,
           Commit([d EXCEPT !.offer = Append(@, NewOffer(l, d.listing[l].rev, buyer,
                                              d.listing[l].seller, price, "pending", w))]),
           left' = left
    PROVE  Committed(db', left')
<1> DEFINE s == d.listing[l].seller
           lrev == d.listing[l].rev
           row == NewOffer(l, lrev, buyer, s, price, "pending", w)
           o == Len(d.offer) + 1
           e == [d EXCEPT !.offer = Append(@, row)]
<1>1. Core(d) /\ Typed(d) /\ left \subseteq Players /\ Exclusive(d, {}) /\ ForSale(d, {})
  BY Before DEF Sound, Core
<1>2. /\ d.listing[l] \in ListingRow /\ l \in Nat /\ w \in Nat /\ w \in 0 .. Len(d.wanted)
  BY <1>1, Tables
<1>3. lrev \in Nat \ {0} /\ s \in Players /\ lrev <= lrev
  BY <1>2 DEF ListingRow
<1>4. "pending" \in OfferStatus
  BY DEF OfferStatus
<1>5. OfferIs(row, l, lrev, buyer, s, price, "pending", w)
  BY <1>2, <1>3, <1>4, NewOfferIs
<1>6. Commit(e)
  OBVIOUS
<1> HIDE DEF row
<1>7. OfferParts(d, e, o, row) /\ o \in Nat /\ o \notin DOMAIN d.offer
  BY <1>1, <1>5, OfferAdd DEF OfferIs
<1> HIDE DEF e, o
<1>8. OfferChanged(d, e, o)
  BY <1>2, <1>3, <1>5, <1>7 DEF OfferIs, OfferParts, OfferChanged
<1>9. Sound(e, {})
  <2>1. Core(e)
    BY <1>1, <1>7, <1>8, OfferCore DEF OfferParts
  <2>2. Exclusive(e, {}) /\ ForSale(e, {})
    BY <1>1, <1>8, OfferSales
  <2> QED
    BY <2>1, <2>2 DEF Sound
<1>10. Waits(e, left)
  <2> SUFFICES ASSUME NEW x \in DOMAIN e.offer, Ready(e, x)
               PROVE  e.offer[x].buyer \in left
    BY DEF Waits
  <2>1. x # o
    <3> SUFFICES ASSUME x = o PROVE FALSE
      OBVIOUS
    <3>1. e.offer[x] = row /\ row.status = "pending" /\ row.proposer = s /\ row.buyer = buyer
      BY <1>5, <1>7 DEF OfferParts, OfferIs
    <3> QED
      BY <3>1 DEF Ready, Approved
  <2>2. x \in DOMAIN d.offer /\ e.offer[x] = d.offer[x] /\ Ready(d, x)
    BY <1>7, <1>8, <2>1, OfferReady DEF OfferParts
  <2> QED
    BY <2>2 DEF Waits
<1> QED
  BY <1>1, <1>6, <1>9, <1>10, Commits

LEMMA WantedRespondCommits ==
    ASSUME Orderly, NEW p \in Players, NEW w \in DOMAIN db.wanted, NEW i \in Item,
           NEW price \in Price, WantedRespond(p, w, i, price)
    PROVE  Committed(db', left')
<1> DEFINE open == {l \in Of(db, i) : Active(db, l) /\ db.listing[l].seller = p}
           row == NewListing(p, i, {i}, "open", price, 0)
           c == [List(db, row) EXCEPT !.item[i].state = "listed"]
           d == IF open # {} THEN db ELSE c
           l == IF open # {} THEN CHOOSE x \in open : TRUE ELSE Len(d.listing)
           buyer == db.wanted[w].owner
<1>1. /\ Core(db) /\ Typed(db) /\ Waits(db, left) /\ Sound(db, {}) /\ Waiting(db, {})
      /\ buyer \in Players /\ db \in Database
      /\ \A x \in Players : db.gold[x] \in Nat
  <2>1. db.wanted[w] \in PostRow
    BY Before, Tables
  <2> QED
    BY <2>1, Before DEF PostRow, Typed
<1>2. /\ buyer # p /\ Changeable(p, i) /\ d.listing[l].status = "open" /\ left' = left
      /\ Commit([d EXCEPT !.offer = Append(@, NewOffer(l, d.listing[l].rev, buyer, p, price,
                                                       "pending", w))])
  BY Zenon DEF WantedRespond, Unsettled
\* Enough for both cases.
<1>3. ASSUME Sound(d, {}), Waits(d, left), l \in DOMAIN d.listing, d.listing[l].seller = p,
             d.wanted = db.wanted
      PROVE  Committed(db', left')
  <2> HIDE DEF d, l, buyer
  <2> QED
    BY <1>1, <1>2, <1>3, RespondCommits
<1>4. CASE open # {}
  <2>1. d = db /\ l \in open
    BY <1>4
  <2>2. l \in DOMAIN db.listing /\ db.listing[l].seller = p
    BY <2>1 DEF Of
  <2> QED
    BY <1>1, <1>3, <2>1, <2>2
<1>5. CASE open = {}
  <2>1. d = c /\ l = Len(c.listing)
    BY <1>5
  <2>2. ~Sold(db, i)
    <3> SUFFICES ASSUME NEW m \in DOMAIN db.listing, Active(db, m), i \in db.listing[m].goods
                 PROVE  m \in open
      BY <1>5 DEF Sold
    <3>1. db.listing[m].goods = {db.listing[m].root}
      BY <1>2 DEF Changeable, Bundled
    <3>2. db.listing[m].seller = db.item[i].owner /\ db.item[i].owner = p
      BY <1>1, <1>2, SoldHolds DEF Holds, Changeable
    <3> QED
      BY <3>1, <3>2 DEF Of
  <2>3. Fresh(db, row) /\ row.goods = {i} /\ row.seller = p /\ Holding(row) = {"listed"}
    <3>1. {i} \in SUBSET Item /\ i \in {i} /\ price \in Ask
      BY DEF Ask
    <3> QED
      BY <3>1, RowFresh
  <2> HIDE DEF row, d, l, open
  <2>4. /\ Typed(List(db, row)) /\ Same(db, List(db, row), {"listing"})
        /\ List(db, row).listing = Append(db.listing, row)
    BY <1>1, <2>3, ListIs DEF List, Database, Fresh
  <2>5. "listed" \in States
    BY DEF States
  <2>6. StateParts(List(db, row), c, i, "listed")
    BY <2>4, <2>5, StateIs
  <2> HIDE DEF c
  <2>7. db.item[i].owner = p
    BY <1>2 DEF Changeable, Holds
  <2>8. /\ Typed(c) /\ c.listing = Append(db.listing, row) /\ c.offer = db.offer
        /\ c.wanted = db.wanted /\ c.gold = db.gold /\ c.auto = db.auto
        /\ c.item[i].owner = p /\ c.item[i].state = "listed"
        /\ \A j \in Item : j # i => c.item[j] = db.item[j]
    BY <2>4, <2>6, <2>7 DEF StateParts, Same
  <2>9. Added(db, c, row)
    BY <2>3, <2>8 DEF Added, Holds
  <2>10. Forward(db, c)
    <3>1. {} \subseteq row.goods /\ \A j \in row.goods : ~Sold(db, j)
      BY <2>2, <2>3
    <3> QED
      BY <1>1, <2>3, <2>9, <3>1, AddedForward
  <2>11. Sound(c, {}) /\ Waits(c, left)
    <3>1. Richer(db, c, {})
      <4>1. \A x \in Players : c.gold[x] <= db.gold[x]
        BY <1>1, <2>8
      <4>2. \A x \in Players, j \in Item :
              Holds(c, x, j, {"available"}) => Holds(db, x, j, {"available"})
        BY <2>8 DEF Holds
      <4> QED
        BY <4>1, <4>2 DEF Richer
    <3>2. Calm(db, c, {})
      BY <1>1, <2>8, <2>10, <3>1, CalmBy DEF Forward
    <3>3. Waits(c, left \cup {})
      BY <1>1, <3>2, CalmWaits
    <3> QED
      BY <2>10, <3>3 DEF Sound, Forward
  <2>12. l \in DOMAIN c.listing /\ c.listing[l] = row
    <3>1. db.listing \in Seq(ListingRow) /\ row \in ListingRow /\ Len(db.listing) \in Nat
      BY <1>1, <2>3, Tables DEF Fresh
    <3>2. /\ Len(c.listing) = Len(db.listing) + 1
          /\ DOMAIN c.listing = 1 .. (Len(db.listing) + 1)
          /\ c.listing[Len(db.listing) + 1] = row
      BY <2>8, <3>1, SeqAppend
    <3>3. Len(db.listing) + 1 \in 1 .. (Len(db.listing) + 1)
      BY <3>1
    <3> QED
      BY <2>1, <3>2, <3>3
  <2> QED
    BY <1>3, <2>1, <2>3, <2>8, <2>11, <2>12
<1> QED
  BY <1>4, <1>5

-------------------------------------------------------------------------------
(***************************************************************************)
(* Publication.                                                            *)
(***************************************************************************)
\* The rows of a page up to item i are done; what is in Z is withdrawn last.
Paged(d, Z, i) ==
    /\ Core(d) /\ Exclusive(d, Z) /\ ForSale(d, {}) /\ Left(db, d)
    /\ d.item = db.item /\ d.gold = db.gold /\ d.auto = db.auto
    /\ \A m \in DOMAIN db.listing :
         /\ m \in DOMAIN d.listing
         /\ d.listing[m].seller = db.listing[m].seller /\ d.listing[m].root = db.listing[m].root
         /\ d.listing[m].goods = db.listing[m].goods /\ d.listing[m].spot = db.listing[m].spot
    /\ \A m \in DOMAIN d.listing : m \in DOMAIN db.listing \/ d.listing[m].root <= i

LEMMA PagedNext ==
    ASSUME NEW d, NEW Z, NEW i \in Nat \ {0}, Paged(d, Z, i - 1)
    PROVE  Paged(d, Z, i)
<1>1. ASSUME NEW m \in DOMAIN d.listing, d.listing[m].root <= i - 1
      PROVE  d.listing[m].root <= i
  <2>1. d.listing[m] \in ListingRow
    BY Tables DEF Paged, Core
  <2>2. d.listing[m].root \in Nat
    BY <2>1, Numbered DEF ListingRow
  <2> QED
    BY <1>1, <2>2
<1> QED
  BY <1>1 DEF Paged

\* An item that is in a stash and was not published at its place.
LEMMA RowAdded ==
    ASSUME NEW d, NEW Z, NEW p \in Players, NEW i \in Item, Paged(d, Z, i - 1),
           Holds(d, p, i, {"local", "delivered"}), NEW ask \in Ask, NEW spot \in Spots,
           Mapped(d, p, i, spot) = {}
    PROVE  Paged(List(Withdraw(d, Of(d, i)), NewListing(p, i, {i}, "open", ask, spot)), Z, i)
<1> DEFINE ls == Of(d, i)
           w == Withdraw(d, ls)
           row == NewListing(p, i, {i}, "open", ask, spot)
           e == List(w, row)
           l == Len(w.listing) + 1
<1>1. /\ Core(d) /\ Typed(d) /\ Exclusive(d, Z) /\ ForSale(d, {}) /\ Left(db, d)
      /\ d.item[i].owner = p /\ d.item[i].state \in {"local", "delivered"}
      /\ spot # 0 /\ i \in Nat
  BY Numbered DEF Paged, Core, Holds, MarketAssumption
<1>2. /\ w.item = d.item /\ w.gold = d.gold /\ w.auto = d.auto /\ Typed(w)
      /\ DOMAIN w.listing = DOMAIN d.listing
      /\ \A m \in DOMAIN d.listing :
           /\ w.listing[m].seller = d.listing[m].seller /\ w.listing[m].root = d.listing[m].root
           /\ w.listing[m].goods = d.listing[m].goods /\ w.listing[m].spot = d.listing[m].spot
           /\ Active(w, m) <=> Active(d, m) /\ m \notin ls
  BY <1>1, WithdrawIs, WithdrawKeeps DEF Same
<1>3. Core(w) /\ Left(d, w)
  BY <1>1, WithdrawCore, WithdrawLeft
<1>4. ASSUME NEW m \in DOMAIN d.listing, Active(d, m), i \in d.listing[m].goods
      PROVE  m \in ls /\ d.listing[m].goods = {i}
  BY <1>1, <1>4, InStash DEF Of
<1>5. ASSUME NEW m \in DOMAIN d.listing, m \in ls, Active(d, m)
      PROVE  d.listing[m].goods = {i}
  <2>1. i \in d.listing[m].goods
    BY <1>1, <1>5 DEF Of, Core, Placed
  <2> QED
    BY <1>4, <1>5, <2>1
<1>6. Exclusive(w, Z \ ls) /\ ForSale(w, {})
  <2> HIDE DEF ls
  <2>1. \A m \in DOMAIN d.listing \cap ls : Active(d, m) =>
          \A j \in d.listing[m].goods : d.item[j].state = "listed" => j \in {}
    BY <1>1, <1>5
  <2>2. \A m \in DOMAIN d.listing : Active(d, m) /\ d.listing[m].goods \cap {} # {} => m \in ls
    OBVIOUS
  <2>3. ASSUME NEW none, none = {}
        PROVE  Exclusive(Withdraw(d, ls), Z \ ls) /\ ForSale(Withdraw(d, ls), none)
    <3>1. /\ ForSale(d, none) /\ none \subseteq none
          /\ \A m \in DOMAIN d.listing : Active(d, m) /\ d.listing[m].goods \cap none # {} => m \in ls
          /\ \A m \in DOMAIN d.listing \cap ls : Active(d, m) =>
               \A j \in d.listing[m].goods : d.item[j].state = "listed" => j \in none
      BY <1>1, <2>1, <2>2, <2>3
    <3> QED
      BY <1>1, <3>1, WithdrawSales
  <2> QED
    BY <2>3
<1>7. ~Sold(w, i)
  BY <1>2, <1>4 DEF Sold
<1> HIDE DEF w, ls
<1>8. /\ Fresh(w, row) /\ row.goods = {i} /\ row.seller = p /\ row.root = i
      /\ Holding(row) = {"local", "delivered"} /\ row \in ListingRow
  <2>1. /\ row \in ListingRow /\ row.status = "open" /\ row.root = i /\ row.goods = {i}
        /\ row.seller = p /\ row.spot = spot
    <3>1. {i} \in SUBSET Item /\ spot \in Spots \cup {0}
      OBVIOUS
    <3> QED
      BY <3>1 DEF NewListing, ListingRow
  <2> HIDE DEF row
  <2>2. \A m \in DOMAIN w.listing :
          ~(w.listing[m].seller = p /\ w.listing[m].root = i /\ w.listing[m].spot = spot)
    BY <1>1, <1>2 DEF Mapped, Published
  <2> QED
    BY <1>1, <2>1, <2>2 DEF Fresh, Holding
<1> HIDE DEF row
<1>9. /\ Typed(e) /\ Same(w, e, {"listing"}) /\ e.listing = Append(w.listing, row)
  BY <1>2, <1>8, ListIs DEF List, Typed, Database
<1> HIDE DEF e
<1>10. e.item = d.item /\ e.gold = d.gold /\ e.auto = d.auto
  BY <1>2, <1>9 DEF Same
<1>11. Added(w, e, row)
  BY <1>1, <1>2, <1>8, <1>9, <1>10 DEF Added, Same, Holds
<1>12. /\ Offered(w, e, l) /\ e.listing[l] = row /\ l \notin DOMAIN w.listing
       /\ \A m \in DOMAIN w.listing : e.listing[m] = w.listing[m]
  BY <1>3, <1>8, <1>11, AddedIs
<1> HIDE DEF l
<1>13. Core(e) /\ Exclusive(e, Z \ ls) /\ ForSale(e, {})
  <2>1. \A j \in e.listing[l].goods : ~Sold(w, j)
    BY <1>7, <1>8, <1>12
  <2>2. Core(e) /\ Exclusive(e, Z \ ls) /\ ForSale(e, {} \ e.listing[l].goods)
    BY <1>3, <1>6, <1>12, <2>1, OfferedSales
  <2>3. {} \ e.listing[l].goods = {}
    OBVIOUS
  <2> QED
    BY <2>2, <2>3
<1>14. Exclusive(e, Z)
  BY <1>13 DEF Exclusive
<1>15. Left(db, e)
  <2>1. Left(w, e)
    BY <1>3, <1>12, RowsLeft DEF Offered
  <2>2. Left(d, e)
    BY <1>3, <2>1, LeftTrans
  <2> QED
    BY <1>1, <2>2, LeftTrans
<1>16. \A m \in DOMAIN e.listing : m \in DOMAIN w.listing \/ e.listing[m].root <= i
  <2>1. \A m \in DOMAIN e.listing : m # l => m \in DOMAIN w.listing
    BY <1>12 DEF Offered
  <2> QED
    BY <1>1, <1>8, <1>12, <2>1
<1>17. DOMAIN w.listing \subseteq DOMAIN e.listing
  BY <1>2, <1>9, Tables, SeqAppend, <1>8
<1>18. Paged(d, Z, i)
  <2>1. i \in Nat \ {0}
    BY Numbered
  <2> QED
    BY <2>1, PagedNext
<1>19. \A m \in DOMAIN db.listing :
         /\ m \in DOMAIN e.listing
         /\ e.listing[m].seller = db.listing[m].seller /\ e.listing[m].root = db.listing[m].root
         /\ e.listing[m].goods = db.listing[m].goods /\ e.listing[m].spot = db.listing[m].spot
  <2> TAKE m \in DOMAIN db.listing
  <2>1. /\ m \in DOMAIN d.listing /\ d.listing[m].seller = db.listing[m].seller
        /\ d.listing[m].root = db.listing[m].root /\ d.listing[m].goods = db.listing[m].goods
        /\ d.listing[m].spot = db.listing[m].spot
    BY DEF Paged
  <2>2. m \in DOMAIN e.listing /\ e.listing[m] = w.listing[m]
    BY <1>2, <1>12, <1>17, <2>1
  <2> QED
    BY <1>2, <2>1, <2>2
<1>20. ASSUME NEW m \in DOMAIN e.listing, m \notin DOMAIN db.listing
       PROVE  e.listing[m].root <= i
  <2>1. CASE m \notin DOMAIN w.listing
    BY <1>16, <2>1
  <2>2. CASE m \in DOMAIN w.listing
    <3>1. m \in DOMAIN d.listing /\ e.listing[m].root = d.listing[m].root
      BY <1>2, <1>12, <2>2
    <3> QED
      BY <1>18, <1>20, <3>1 DEF Paged
  <2> QED
    BY <2>1, <2>2
<1>21. e.item = db.item /\ e.gold = db.gold /\ e.auto = db.auto
  BY <1>10 DEF Paged
<1>22. Paged(e, Z, i)
  BY <1>13, <1>14, <1>15, <1>19, <1>20, <1>21 DEF Paged
<1> QED
  BY <1>22 DEF e, w, row, ls

-------------------------------------------------------------------------------
\* One that was: its listing is opened again, with a new price.
LEMMA RowReopened ==
    ASSUME NEW d, NEW Z, NEW p \in Players, NEW i \in Item, Paged(d, Z, i - 1),
           Holds(d, p, i, {"local", "delivered"}), NEW ask \in Ask, NEW spot \in Spots,
           NEW l \in Mapped(d, p, i, spot),
           \A m \in Published(db, p) : db.listing[m].root = i /\ db.listing[m].spot # spot => m \in Z
    PROVE  Paged(Reopen(InvalidateOffers(d, {l}, 0), l, ask), Z, i)
<1> DEFINE w == Withdraw(d, {l})
           c == InvalidateOffers(d, {l}, 0)
           e == Reopen(c, l, ask)
<1>1. /\ Core(d) /\ Typed(d) /\ Exclusive(d, Z) /\ ForSale(d, {}) /\ Left(db, d)
      /\ d.item[i].owner = p /\ d.item[i].state \in {"local", "delivered"}
      /\ spot # 0 /\ i \in Nat
  BY Numbered DEF Paged, Core, Holds, MarketAssumption
<1>2. /\ l \in DOMAIN d.listing /\ d.listing[l].seller = p /\ d.listing[l].root = i
      /\ d.listing[l].spot = spot /\ d.listing[l].goods = {i}
      /\ \A o \in DOMAIN d.offer : d.offer[o].listing = l => d.offer[o].status # "completed"
  <2>1. /\ l \in DOMAIN d.listing /\ d.listing[l].seller = p /\ d.listing[l].root = i
        /\ d.listing[l].spot = spot
    BY DEF Mapped, Published
  <2> QED
    BY <1>1, <2>1, PublishedIs
<1>3. Core(w) /\ Left(d, w) /\ w = Reviewed(c, {l}, "withdrawn")
  BY <1>1, WithdrawCore, WithdrawLeft DEF Withdraw
<1>4. /\ w.item = d.item /\ w.gold = d.gold /\ w.auto = d.auto /\ w.wanted = d.wanted
      /\ Typed(w) /\ DOMAIN w.listing = DOMAIN d.listing /\ Len(w.listing) = Len(d.listing)
      /\ DOMAIN w.offer = DOMAIN d.offer
      /\ \A m \in DOMAIN d.listing :
           /\ w.listing[m].seller = d.listing[m].seller /\ w.listing[m].root = d.listing[m].root
           /\ w.listing[m].goods = d.listing[m].goods /\ w.listing[m].spot = d.listing[m].spot
           /\ m # l => w.listing[m] = d.listing[m]
           /\ Active(w, m) <=> Active(d, m) /\ m # l
           /\ w.listing[m].rev <= d.listing[m].rev + 1
      /\ \A o \in DOMAIN d.offer :
           /\ w.offer[o].listing = d.offer[o].listing
           /\ IF d.offer[o].listing = l /\ Live(d, o) THEN w.offer[o].status = "ended"
              ELSE w.offer[o] = d.offer[o]
  <2>1. /\ Same(d, w, {"listing", "offer"})
        /\ DOMAIN w.listing = DOMAIN d.listing /\ DOMAIN w.offer = DOMAIN d.offer
        /\ Len(w.listing) = Len(d.listing) /\ Typed(w)
    BY <1>1, WithdrawIs
  <2>2. \A m \in DOMAIN d.listing :
          w.listing[m] = IF m \in {l} /\ Active(d, m) THEN Revised(d.listing[m], "withdrawn")
                         ELSE d.listing[m]
    BY <1>1, WithdrawIs
  <2>3. \A m \in DOMAIN d.listing : w.listing[m].rev <= d.listing[m].rev + 1
    <3> HIDE DEF w
    <3> TAKE m \in DOMAIN d.listing
    <3>1. d.listing[m] \in ListingRow
      BY <1>1, Tables
    <3>2. d.listing[m].rev \in Nat
      BY <3>1 DEF ListingRow
    <3>3. Revised(d.listing[m], "withdrawn").rev = d.listing[m].rev + 1
      BY <3>1, RevisedRow
    <3> QED
      BY <2>2, <3>2, <3>3
  <2>4. \A m \in DOMAIN d.listing :
           /\ w.listing[m].seller = d.listing[m].seller /\ w.listing[m].root = d.listing[m].root
           /\ w.listing[m].goods = d.listing[m].goods /\ w.listing[m].spot = d.listing[m].spot
           /\ Active(w, m) <=> Active(d, m) /\ m \notin {l}
    BY <1>1, WithdrawKeeps
  <2>5. \A o \in DOMAIN d.offer :
           /\ w.offer[o].listing = d.offer[o].listing
           /\ IF d.offer[o].listing \in {l} /\ Live(d, o) THEN w.offer[o].status = "ended"
              ELSE w.offer[o] = d.offer[o]
    BY <1>1, WithdrawKeeps
  <2> HIDE DEF w
  <2> QED
    BY <2>1, <2>2, <2>3, <2>4, <2>5 DEF Same
<1>5. Typed(c) /\ Same(d, c, {"offer"})
  BY <1>1, Invalidated
<1>6. Same(c, w, {"listing"})
  <2>1. "withdrawn" \in {"open", "agreed", "sold", "withdrawn"}
    OBVIOUS
  <2>2. Same(c, Reviewed(c, {l}, "withdrawn"), {"listing"})
    BY <1>5, <2>1, ReviewedIs
  <2> QED
    BY <1>3, <2>2
<1> HIDE DEF c, w
<1>7. /\ c.listing = d.listing /\ c.item = d.item /\ c.gold = d.gold /\ c.auto = d.auto
      /\ c.wanted = d.wanted /\ c.offer = w.offer
  BY <1>5, <1>6 DEF Same
<1>8. /\ Typed(e) /\ Same(c, e, {"listing"}) /\ DOMAIN e.listing = DOMAIN d.listing
      /\ Len(e.listing) = Len(d.listing)
      /\ \A m \in DOMAIN d.listing : m # l => e.listing[m] = d.listing[m]
      /\ e.listing[l].seller = p /\ e.listing[l].root = i
      /\ e.listing[l].goods = {i} /\ e.listing[l].spot = spot
      /\ e.listing[l].status = "open" /\ e.listing[l].rev = d.listing[l].rev + 1
  <2>1. l \in DOMAIN c.listing
    BY <1>2, <1>7
  <2>2. /\ Typed(e) /\ Same(c, e, {"listing"}) /\ DOMAIN e.listing = DOMAIN c.listing
        /\ Len(e.listing) = Len(c.listing)
        /\ \A m \in DOMAIN c.listing : m # l => e.listing[m] = c.listing[m]
        /\ e.listing[l].seller = c.listing[l].seller /\ e.listing[l].root = c.listing[l].root
        /\ e.listing[l].goods = c.listing[l].goods /\ e.listing[l].spot = c.listing[l].spot
        /\ e.listing[l].status = "open" /\ e.listing[l].rev = c.listing[l].rev + 1
    BY <1>5, <2>1, ReopenIs
  <2> HIDE DEF e
  <2> QED
    BY <1>2, <1>7, <2>2
<1> HIDE DEF e
<1>9. e.offer = w.offer /\ e.item = d.item /\ e.gold = d.gold /\ e.auto = d.auto
      /\ e.wanted = d.wanted
  BY <1>7, <1>8 DEF Same
<1>10. RowsChanged(w, e)
  <2>1. \A o \in DOMAIN w.offer : w.offer[o].listing = l => w.offer[o].status = "ended"
    <3> SUFFICES ASSUME NEW o \in DOMAIN d.offer, d.offer[o].listing = l
                 PROVE  w.offer[o].status = "ended"
      BY <1>4
    <3>1. d.offer[o] \in OfferRow /\ d.offer[o].status # "completed"
      BY <1>1, <1>2, Tables
    <3> QED
      BY <1>4, <3>1 DEF OfferRow, OfferStatus, Live
  <2>2. \A m \in DOMAIN w.listing : e.listing[m].rev >= w.listing[m].rev
                                 /\ e.listing[m].seller = w.listing[m].seller
    <3> TAKE m \in DOMAIN w.listing
    <3>1. w.listing[m].rev \in Nat /\ m \in DOMAIN d.listing /\ d.listing[m].rev \in Nat
      BY <1>1, <1>4, Tables DEF ListingRow
    <3>2. CASE m = l
      BY <1>2, <1>4, <1>8, <3>1, <3>2
    <3>3. CASE m # l
      BY <1>4, <1>8, <3>1, <3>3
    <3> QED
      BY <3>2, <3>3
  <2>3. Len(e.wanted) >= Len(w.wanted) /\ Len(e.listing) >= Len(w.listing)
    BY <1>1, <1>4, <1>8, <1>9, Tables
  <2>4. \A m \in DOMAIN e.listing : m # l => m \in DOMAIN w.listing /\ e.listing[m] = w.listing[m]
    BY <1>4, <1>8
  <2>5. e.listing[l].status # "agreed"
    BY <1>8
  <2> QED
    BY <1>9, <2>1, <2>2, <2>3, <2>4, <2>5 DEF RowsChanged
<1>11. Offered(w, e, l)
  <2>1. Holding(e.listing[l]) = {"local", "delivered"}
    BY <1>1, <1>8 DEF Holding
  <2>2. Holds(e, p, i, {"local", "delivered"})
    BY <1>1, <1>9 DEF Holds
  <2>3. \A m \in DOMAIN w.listing :
          w.listing[m].seller = p /\ w.listing[m].root = i /\ w.listing[m].spot = spot => m = l
    <3>1. \A m \in DOMAIN d.listing :
            /\ d.listing[m].seller = d.listing[l].seller /\ d.listing[m].root = d.listing[l].root
            /\ d.listing[m].spot = d.listing[l].spot
            => m = l
      BY <1>1, <1>2 DEF Core, Placed
    <3> QED
      BY <1>2, <1>4, <3>1
  <2>4. l \in DOMAIN e.listing
        /\ \A m \in DOMAIN e.listing : m # l => m \in DOMAIN w.listing /\ e.listing[m] = w.listing[m]
    BY <1>2, <1>4, <1>8
  <2>5. \A j \in Item : e.item[j].owner = w.item[j].owner /\ e.item[j].state = w.item[j].state
    BY <1>4, <1>9
  <2> QED
    BY <1>8, <1>10, <2>1, <2>2, <2>3, <2>4, <2>5 DEF Offered
<1>12. Core(e)
  <2>1. \A j \in Item : e.item[j].owner = w.item[j].owner /\ e.item[j].state = w.item[j].state
    BY <1>4, <1>9
  <2>2. \A m \in DOMAIN w.listing : w.listing[m].goods \subseteq Item
    BY <1>4, Tables DEF ListingRow
  <2> QED
    BY <1>3, <1>11, <2>1, <2>2, OfferedCore
<1>13. \A m \in DOMAIN d.listing : m # l => /\ Active(e, m) <=> Active(d, m)
                                           /\ e.listing[m].goods = d.listing[m].goods
  BY <1>8 DEF Active
\* Another listing for this item is one that is withdrawn last.
<1>14. ASSUME NEW m \in DOMAIN d.listing, m # l, Active(d, m), i \in d.listing[m].goods
       PROVE  m \in Z
  <2>1. d.listing[m].spot # 0 /\ d.listing[m].root = i /\ d.listing[m].seller = p
    BY <1>1, <1>14, InStash
  <2>2. d.listing[m].spot # spot
    BY <1>1, <1>2, <1>14, <2>1 DEF Core, Placed
  <2>3. m \in DOMAIN db.listing
    BY <1>1, <2>1 DEF Paged
  <2>4. /\ db.listing[m].seller = p /\ db.listing[m].root = i /\ db.listing[m].spot # 0
        /\ db.listing[m].spot # spot
    BY <2>1, <2>2, <2>3 DEF Paged
  <2> QED
    BY <2>3, <2>4 DEF Published
<1>15. Exclusive(e, Z)
  <2> SUFFICES ASSUME NEW k \in DOMAIN e.listing, k \notin Z, NEW m \in DOMAIN e.listing, m \notin Z,
                      Active(e, k), Active(e, m), e.listing[k].goods \cap e.listing[m].goods # {},
                      k # m
               PROVE  FALSE
    BY DEF Exclusive
  <2>1. CASE k # l /\ m # l
    BY <1>1, <1>8, <1>13, <2>1 DEF Exclusive
  <2>2. CASE k = l
    <3>1. i \in d.listing[m].goods /\ Active(d, m) /\ m \in DOMAIN d.listing /\ m # l
      BY <1>8, <1>13, <2>2
    <3> QED
      BY <1>14, <3>1
  <2>3. CASE m = l
    <3>1. i \in d.listing[k].goods /\ Active(d, k) /\ k \in DOMAIN d.listing /\ k # l
      BY <1>8, <1>13, <2>3
    <3> QED
      BY <1>14, <3>1
  <2> QED
    BY <2>1, <2>2, <2>3
<1>16. ForSale(e, {})
  <2> SUFFICES ASSUME NEW j \in Item, e.item[j].state = "listed"
               PROVE  Sold(e, j)
    BY DEF ForSale
  <2>1. Sold(d, j) /\ j # i
    BY <1>1, <1>9 DEF ForSale
  <2>2. PICK m \in DOMAIN d.listing : Active(d, m) /\ j \in d.listing[m].goods
    BY <2>1 DEF Sold
  <2>3. m # l
    BY <1>2, <2>1, <2>2
  <2> QED
    BY <1>8, <1>13, <2>2, <2>3 DEF Sold
<1>17. Left(db, e)
  <2>1. Left(w, e)
    BY <1>3, <1>10, RowsLeft
  <2>2. Left(d, e)
    BY <1>3, <2>1, LeftTrans
  <2> QED
    BY <1>1, <2>2, LeftTrans
<1>18. \A m \in DOMAIN d.listing :
         /\ m \in DOMAIN e.listing /\ e.listing[m].seller = d.listing[m].seller
         /\ e.listing[m].root = d.listing[m].root /\ e.listing[m].goods = d.listing[m].goods
         /\ e.listing[m].spot = d.listing[m].spot
  BY <1>2, <1>8
<1>19. Paged(d, Z, i)
  <2>1. i \in Nat \ {0}
    BY Numbered
  <2> QED
    BY <2>1, PagedNext
<1>20. \A m \in DOMAIN db.listing :
         /\ m \in DOMAIN e.listing
         /\ e.listing[m].seller = db.listing[m].seller /\ e.listing[m].root = db.listing[m].root
         /\ e.listing[m].goods = db.listing[m].goods /\ e.listing[m].spot = db.listing[m].spot
  BY <1>18, <1>19 DEF Paged
<1>21. \A m \in DOMAIN e.listing : m \in DOMAIN db.listing \/ e.listing[m].root <= i
  BY <1>8, <1>18, <1>19 DEF Paged
<1>22. e.item = db.item /\ e.gold = db.gold /\ e.auto = db.auto
  BY <1>9 DEF Paged
<1>23. Paged(e, Z, i)
  BY <1>12, <1>15, <1>16, <1>17, <1>20, <1>21, <1>22 DEF Paged
<1> QED
  BY <1>23 DEF e, c

-------------------------------------------------------------------------------
NextRow(p, page, d, i) == IF i \in DOMAIN page THEN PublishRow(d, p, i, page[i]) ELSE d
PageSteps(p, page, g) ==
    g = [i \in 0 .. Len(Kind) |->
           IF i = 0 THEN db
           ELSE IF i \in DOMAIN page THEN PublishRow(g[i - 1], p, i, page[i]) ELSE g[i - 1]]
\* What was published and is not on the page.
Unpaged(p, page) ==
    Published(db, p) \ UNION {Mapped(db, p, i, page[i].spot) : i \in DOMAIN page}

LEMMA PageIs ==
    ASSUME NEW p \in Players, NEW page \in Pages(p), NEW i \in DOMAIN page
    PROVE  /\ i \in Item /\ page[i].spot \in Spots /\ page[i].ask \in Ask
           /\ Holds(db, p, i, {"local", "delivered"})
<1>1. PICK is \in SUBSET {j \in Item : Holds(db, p, j, {"local", "delivered"})} :
        page \in [is -> [spot : Spots, ask : Ask]]
  BY DEF Pages
<1> QED
  BY <1>1

LEMMA RowPaged ==
    ASSUME NEW p \in Players, NEW page \in Pages(p), NEW i \in 1 .. Len(Kind), NEW d,
           Paged(d, Unpaged(p, page), i - 1)
    PROVE  Paged(NextRow(p, page, d, i), Unpaged(p, page), i)
<1> DEFINE Z == Unpaged(p, page)
           spot == page[i].spot
           ask == page[i].ask
           known == Mapped(d, p, i, spot)
           l == Min(known)
<1>1. i \in Nat \ {0} /\ i \in Item
  BY Numbered
<1>2. Paged(d, Z, i)
  BY <1>1, PagedNext
<1>3. CASE i \notin DOMAIN page
  BY <1>2, <1>3 DEF NextRow
<1>4. CASE i \in DOMAIN page
  <2>1. /\ spot \in Spots /\ ask \in Ask /\ Holds(d, p, i, {"local", "delivered"})
        /\ NextRow(p, page, d, i) = PublishRow(d, p, i, page[i])
    BY <1>2, <1>4, PageIs DEF NextRow, Paged, Holds
  <2>2. ASSUME NEW m \in Published(db, p), db.listing[m].root = i, db.listing[m].spot # spot
        PROVE  m \in Z
    BY <2>2 DEF Unpaged, Mapped
  <2> HIDE DEF Z
  <2>3. CASE known = {}
    <3>1. PublishRow(d, p, i, page[i])
            = List(Withdraw(d, Of(d, i)), NewListing(p, i, {i}, "open", ask, spot))
      BY <2>3 DEF PublishRow
    <3> HIDE DEF spot, ask
    <3>2. Paged(List(Withdraw(d, Of(d, i)), NewListing(p, i, {i}, "open", ask, spot)), Z, i)
      BY <1>1, <2>1, <2>3, RowAdded DEF Z
    <3> QED
      BY <2>1, <3>1, <3>2 DEF Z
  <2>4. CASE known # {} /\ Active(d, l) /\ d.listing[l].ask = ask
    <3>1. PublishRow(d, p, i, page[i]) = d
      BY <2>4 DEF PublishRow
    <3> QED
      BY <1>2, <2>1, <3>1 DEF Z
  <2>5. CASE known # {} /\ ~(Active(d, l) /\ d.listing[l].ask = ask)
    <3>1. PublishRow(d, p, i, page[i]) = Reopen(InvalidateOffers(d, {l}, 0), l, ask)
      BY <2>5 DEF PublishRow
    <3>2. l \in known
      <4>1. known \subseteq DOMAIN d.listing
        BY DEF Mapped, Published
      <4>2. DOMAIN d.listing \subseteq Nat
        BY Tables DEF Paged, Core
      <4>3. known \in SUBSET Nat
        BY <4>1, <4>2
      <4> HIDE DEF known
      <4> QED
        BY <2>5, <4>3, LeastIs
    <3> HIDE DEF spot, ask, l
    <3>3. Paged(Reopen(InvalidateOffers(d, {l}, 0), l, ask), Z, i)
      BY <1>1, <2>1, <2>2, <3>2, RowReopened DEF Z
    <3> QED
      BY <2>1, <3>1, <3>3 DEF Z
  <2> QED
    BY <2>3, <2>4, <2>5
<1> QED
  BY <1>3, <1>4

LEMMA RowsPaged ==
    ASSUME Orderly, NEW p \in Players, NEW page \in Pages(p)
    PROVE  Paged(PublishRows(p, page), Unpaged(p, page), Len(Kind))
<1> DEFINE n == Len(Kind)
           Z == Unpaged(p, page)
           R == {z \in (0 .. n) \X Database : Paged(z[2], Z, z[1])}
           step == [z \in R |-> NextRow(p, page, z[2], z[1] + 1)]
<1>1. n \in Nat
  BY Numbered
<1> HIDE DEF n, Z
<1>2. \A i \in 0 .. n : \A t : <<i, t>> \in R <=> Paged(t, Z, i)
  <2>1. \A i \in 0 .. n : \A t : <<i, t>>[1] = i /\ <<i, t>>[2] = t
    OBVIOUS
  <2>2. \A i \in 0 .. n : \A t : Paged(t, Z, i) => t \in Database
    BY DEF Paged, Core, Typed
  <2> QED
    BY <2>1, <2>2
<1>3. ASSUME NEW i \in 1 .. n, NEW x, <<i - 1, x>> \in R
      PROVE  step[<<i - 1, x>>] = NextRow(p, page, x, i) /\ <<i, NextRow(p, page, x, i)>> \in R
  <2>1. i - 1 \in 0 .. n /\ i \in 0 .. n /\ (i - 1) + 1 = i
    BY <1>1
  <2>2. step[<<i - 1, x>>] = NextRow(p, page, x, i)
    <3>1. step[<<i - 1, x>>] = NextRow(p, page, x, (i - 1) + 1)
      BY <1>3
    <3> QED
      BY <2>1, <3>1
  <2> HIDE DEF step, R
  <2>3. Paged(x, Z, i - 1)
    BY <1>2, <1>3, <2>1
  <2>4. Paged(NextRow(p, page, x, i), Z, i)
    BY <2>3, RowPaged DEF n, Z
  <2> QED
    BY <1>2, <2>1, <2>2, <2>4
<1>4. <<0, db>> \in R
  <2>1. 0 \in 0 .. n
    BY <1>1
  <2>2. Paged(db, Z, 0)
    <3>1. Core(db) /\ Exclusive(db, {}) /\ ForSale(db, {})
      BY Before
    <3>2. Exclusive(db, Z)
      BY <3>1 DEF Exclusive
    <3>3. Left(db, db)
      BY <3>1 DEF Left
    <3> QED
      BY <3>1, <3>2, <3>3 DEF Paged
  <2> HIDE DEF R
  <2> QED
    BY <1>2, <2>1, <2>2
<1> HIDE DEF R, step
<1>5. \A i \in 1 .. n : \A x : <<i - 1, x>> \in R => <<i, step[<<i - 1, x>>]>> \in R
  BY <1>3
<1>6. PICK g : Recurs(n, R, step, db, g)
  BY <1>1, <1>4, <1>5, Recursion
<1>7. PageSteps(p, page, g)
  <2>1. g = [i \in 0 .. n |-> IF i = 0 THEN db ELSE step[<<i - 1, g[i - 1]>>]]
        /\ \A i \in 0 .. n : <<i, g[i]>> \in R
    BY <1>6 DEF Recurs
  <2>2. ASSUME NEW i \in 0 .. n
        PROVE  g[i] = IF i = 0 THEN db
                      ELSE IF i \in DOMAIN page THEN PublishRow(g[i - 1], p, i, page[i]) ELSE g[i - 1]
    <3>1. CASE i = 0
      BY <2>1, <3>1
    <3>2. CASE i # 0
      <4>1. i \in 1 .. n /\ i - 1 \in 0 .. n
        BY <1>1, <3>2
      <4>2. g[i] = step[<<i - 1, g[i - 1]>>]
        BY <2>1, <3>2
      <4>3. g[i] = NextRow(p, page, g[i - 1], i)
        BY <1>3, <2>1, <4>1, <4>2
      <4> QED
        BY <3>2, <4>3 DEF NextRow
    <3> QED
      BY <3>1, <3>2
  <2>3. g = [i \in 0 .. n |-> g[i]]
    BY <2>1
  <2> QED
    BY <2>2, <2>3 DEF PageSteps, n
<1> DEFINE k == CHOOSE h : PageSteps(p, page, h)
<1>8. PublishRows(p, page) = k[n] /\ PageSteps(p, page, k)
  <2>1. PublishRows(p, page) = k[n]
    BY DEF PublishRows, PageSteps, n
  <2> QED
    BY <1>7, <2>1
<1> HIDE DEF k
<1>9. \A i \in 0 .. n : i # 0 => k[i] = NextRow(p, page, k[i - 1], i)
  BY <1>8 DEF PageSteps, NextRow, n
<1>10. <<0, k[0]>> \in R
  <2>1. 0 \in 0 .. n
    BY <1>1
  <2>2. k[0] = db
    BY <1>8, <2>1 DEF PageSteps, n
  <2> QED
    BY <1>4, <2>2
<1>11. \A i \in 1 .. n : <<i - 1, k[i - 1]>> \in R => <<i, k[i]>> \in R
  <2> SUFFICES ASSUME NEW i \in 1 .. n, <<i - 1, k[i - 1]>> \in R PROVE <<i, k[i]>> \in R
    OBVIOUS
  <2>1. i \in 0 .. n /\ i # 0
    BY <1>1
  <2>2. k[i] = NextRow(p, page, k[i - 1], i)
    BY <1>9, <2>1
  <2> QED
    BY <1>3, <2>2
<1>12. \A i \in 0 .. n : <<i, k[i]>> \in R
  BY <1>1, <1>10, <1>11, RecursionIn
<1>13. n \in 0 .. n
  BY <1>1
<1> QED
  BY <1>2, <1>8, <1>12, <1>13 DEF n, Z

LEMMA PublishCommits ==
    ASSUME Orderly, NEW p \in Players, NEW page \in Pages(p), Publish(p, page)
    PROVE  Committed(db', left')
<1> DEFINE Z == Unpaged(p, page)
           d == PublishRows(p, page)
           e == Withdraw(d, Z)
<1>1. Commit(e) /\ left' = left
  BY DEF Publish, Unsettled, Unpaged
<1>2. Paged(d, Z, Len(Kind))
  BY RowsPaged
<1> HIDE DEF d
<1>3. /\ Core(d) /\ Exclusive(d, Z) /\ ForSale(d, {}) /\ Left(db, d) /\ Typed(d)
      /\ d.item = db.item /\ d.gold = db.gold /\ d.auto = db.auto
  BY <1>2 DEF Paged, Core
<1>4. \A l \in DOMAIN d.listing \cap Z : Active(d, l) =>
        \A i \in d.listing[l].goods : d.item[i].state # "listed"
  <2> SUFFICES ASSUME NEW l \in DOMAIN d.listing, l \in Z, Active(d, l)
               PROVE  \A i \in d.listing[l].goods : d.item[i].state # "listed"
    OBVIOUS
  <2>1. d.listing[l].spot # 0
    BY <1>2 DEF Unpaged, Published, Paged
  <2> QED
    BY <1>3, <2>1, PublishedIs
<1> HIDE DEF Z
<1>5. Exclusive(e, {}) /\ ForSale(e, {})
  <2>1. ASSUME NEW none, none = {}
        PROVE  Exclusive(Withdraw(d, Z), Z \ Z) /\ ForSale(Withdraw(d, Z), none)
    <3>1. /\ ForSale(d, none) /\ none \subseteq none
          /\ \A m \in DOMAIN d.listing : Active(d, m) /\ d.listing[m].goods \cap none # {} => m \in Z
          /\ \A m \in DOMAIN d.listing \cap Z : Active(d, m) =>
               \A j \in d.listing[m].goods : d.item[j].state = "listed" => j \in none
      BY <1>3, <1>4, <2>1
    <3> QED
      BY <1>3, <3>1, WithdrawSales
  <2>2. Z \ Z = {}
    OBVIOUS
  <2> QED
    BY <2>1, <2>2
<1>6. Core(e) /\ Left(d, e) /\ e.item = db.item /\ e.gold = db.gold /\ e.auto = db.auto
  BY <1>3, WithdrawCore, WithdrawLeft, WithdrawIs DEF Same
<1> HIDE DEF e
<1>7. Forward(db, e)
  <2>1. Left(db, e)
    BY <1>3, <1>6, LeftTrans
  <2> QED
    BY <1>5, <1>6, <2>1 DEF Forward
<1>8. Richer(db, e, {})
  <2>1. \A x \in Players : db.gold[x] \in Nat
    BY Before
  <2> QED
    BY <1>6, <2>1 DEF Richer, Holds
<1>9. left' = left \cup {} /\ {} \in SUBSET Players
  BY <1>1
<1> QED
  BY <1>1, <1>6, <1>7, <1>8, <1>9, CommitsFor

-------------------------------------------------------------------------------
(***************************************************************************)
(* Every command keeps the invariant.                                      *)
(***************************************************************************)
LEMMA InitOrderly ==
    ASSUME Init
    PROVE  Orderly
<1>1. /\ db.item = [i \in Item |-> First(i)] /\ db.gold = FirstGold
      /\ db.auto = [p \in Players |-> FALSE]
      /\ db.listing = <<>> /\ db.offer = <<>> /\ db.wanted = <<>>
      /\ db = [item |-> db.item, gold |-> db.gold, auto |-> db.auto, listing |-> db.listing,
               offer |-> db.offer, wanted |-> db.wanted]
      /\ away = [p \in Players |-> 0] /\ left = {}
  BY DEF Init
<1>2. DOMAIN db.listing = {} /\ DOMAIN db.offer = {}
  BY <1>1
<1>3. \A i \in Item : First(i) \in ItemRow /\ First(i).state # "listed"
  BY DEF First, ItemRow, MarketAssumption
<1>4. /\ db.item \in [Item -> ItemRow] /\ db.gold \in [Players -> Nat]
      /\ db.auto \in [Players -> BOOLEAN] /\ db.listing \in Seq(ListingRow)
      /\ db.offer \in Seq(OfferRow) /\ db.wanted \in Seq(PostRow)
      /\ \A i \in Item : db.item[i].state # "listed"
  BY <1>1, <1>3 DEF MarketAssumption
<1>5. Typed(db)
  BY <1>1, <1>4 DEF Typed, Database
<1>6. Core(db)
  BY <1>2, <1>5 DEF Core, Linked, Placed, Agreed, Consented
<1>7. Exclusive(db, {}) /\ ForSale(db, {})
  BY <1>2, <1>4 DEF Exclusive, ForSale
<1>8. away \in [Players -> Nat]
  BY <1>1
<1> QED
  BY <1>1, <1>2, <1>6, <1>7, <1>8 DEF Orderly, Sound, Waits

\* What the commands keep, and the gold outside the Vault.
LEMMA CommittedOrderly ==
    ASSUME Committed(db', left'), away' \in [Players -> Nat]
    PROVE  Orderly'
  BY DEF Committed, Orderly

\* The commands that move or list goods.
LEMMA MovesOrderly ==
    ASSUME Orderly, NEW p \in Players, Moves(p)
    PROVE  Orderly'
<1>1. away \in [Players -> Nat]
  BY Before
<1>2. ASSUME NEW page \in Pages(p), Publish(p, page) PROVE Orderly'
  <2>1. away' = away
    BY <1>2 DEF Publish, Unsettled
  <2> QED
    BY <1>1, <1>2, <2>1, PublishCommits, CommittedOrderly
<1>3. ASSUME NEW i \in Item, WithdrawPhysical(p, i) PROVE Orderly'
  <2>1. away' = away
    BY <1>3 DEF WithdrawPhysical, Unsettled
  <2> QED
    BY <1>1, <1>3, <2>1, WithdrawPhysicalCommits, CommittedOrderly
<1>4. ASSUME NEW i \in Item, Deposit(p, i) PROVE Orderly'
  <2>1. away' = away
    BY <1>4 DEF Deposit
  <2> QED
    BY <1>1, <1>4, <2>1, DepositCommits, CommittedOrderly
<1>5. ASSUME NEW i \in Item, Claim(p, i) PROVE Orderly'
  <2>1. away' = away
    BY <1>5 DEF Claim, Unsettled
  <2> QED
    BY <1>1, <1>5, <2>1, ClaimCommits, CommittedOrderly
<1>6. ASSUME NEW i \in Item, NEW q \in Players, RecordSale(p, q, i) PROVE Orderly'
  <2>1. away' = away
    BY <1>6 DEF RecordSale, Unsettled
  <2> QED
    BY <1>1, <1>6, <2>1, RecordSaleCommits, CommittedOrderly
<1>7. CASE GoldOut(p)
  BY <1>7, GoldOutCommits, CommittedOrderly
<1>8. ASSUME NEW q \in Players, GiftGold(p, q) PROVE Orderly'
  <2>1. away' = away
    BY <1>8 DEF GiftGold
  <2> QED
    BY <1>1, <1>8, <2>1, GiftGoldCommits, CommittedOrderly
<1> QED
  BY <1>2, <1>3, <1>4, <1>5, <1>6, <1>7, <1>8 DEF Moves

LEMMA ListingsOrderly ==
    ASSUME Orderly, NEW p \in Players, Listings(p)
    PROVE  Orderly'
<1>1. away \in [Players -> Nat]
  BY Before
<1>2. ASSUME NEW i \in Item, NEW ask \in Ask, EscrowPrice(p, i, ask) PROVE Orderly'
  <2>1. away' = away
    BY <1>2 DEF EscrowPrice
  <2> QED
    BY <1>1, <1>2, <2>1, EscrowPriceCommits, CommittedOrderly
<1>3. ASSUME NEW i \in Item, EscrowReturn(p, i) PROVE Orderly'
  <2>1. away' = away
    BY <1>3 DEF EscrowReturn
  <2> QED
    BY <1>1, <1>3, <2>1, EscrowReturnCommits, CommittedOrderly
<1>4. ASSUME NEW i \in Item, NEW q \in Players, GiftItem(p, q, i) PROVE Orderly'
  <2>1. away' = away
    BY <1>4 DEF GiftItem
  <2> QED
    BY <1>1, <1>4, <2>1, GiftItemCommits, CommittedOrderly
<1>5. ASSUME NEW goods \in SUBSET Item, NEW root \in Item, NEW ask \in Ask,
             BundleCreate(p, root, goods, ask)
      PROVE  Orderly'
  <2>1. away' = away
    BY <1>5 DEF BundleCreate, Unsettled
  <2> QED
    BY <1>1, <1>5, <2>1, BundleCreateCommits, CommittedOrderly
<1>6. ASSUME NEW l \in DOMAIN db.listing, BundleDissolve(p, l) PROVE Orderly'
  <2>1. away' = away
    BY <1>6 DEF BundleDissolve
  <2> QED
    BY <1>1, <1>6, <2>1, BundleDissolveCommits, CommittedOrderly
<1>7. CASE WantedCreate(p)
  <2>1. away' = away
    BY <1>7 DEF WantedCreate, Unsettled
  <2> QED
    BY <1>1, <1>7, <2>1, WantedCreateCommits, CommittedOrderly
<1>8. ASSUME NEW w \in DOMAIN db.wanted, WantedClose(p, w) PROVE Orderly'
  <2>1. away' = away
    BY <1>8 DEF WantedClose, Unsettled
  <2> QED
    BY <1>1, <1>8, <2>1, WantedCloseCommits, CommittedOrderly
<1>9. ASSUME NEW w \in DOMAIN db.wanted, NEW i \in Item, NEW price \in Price,
             WantedRespond(p, w, i, price)
      PROVE  Orderly'
  <2>1. away' = away
    BY <1>9 DEF WantedRespond, Unsettled
  <2> QED
    BY <1>1, <1>9, <2>1, WantedRespondCommits, CommittedOrderly
<1> QED
  BY <1>2, <1>3, <1>4, <1>5, <1>6, <1>7, <1>8, <1>9 DEF Listings

\* The answers to what has begun.
LEMMA NegotiationOrderly ==
    ASSUME Orderly, NEW p \in Players, Negotiation(p)
    PROVE  Orderly'
<1>1. away \in [Players -> Nat]
  BY Before
<1>2. CASE SetAuto(p)
  <2>1. away' = away
    BY <1>2 DEF SetAuto
  <2> QED
    BY <1>1, <1>2, <2>1, SetAutoCommits, CommittedOrderly
<1>3. CASE GoldIn(p)
  BY <1>3, GoldInCommits, CommittedOrderly
<1>4. ASSUME NEW i \in Item, EndClaim(p, i) PROVE Orderly'
  <2>1. away' = away
    BY <1>4 DEF EndClaim
  <2> QED
    BY <1>1, <1>4, <2>1, EndClaimCommits, CommittedOrderly
<1>5. ASSUME NEW o \in DOMAIN db.offer, Message(p, o) PROVE Orderly'
  <2>1. away' = away
    BY <1>5 DEF Message
  <2> QED
    BY <1>1, <1>5, <2>1, MessageCommits, CommittedOrderly
<1>6. ASSUME NEW l \in DOMAIN db.listing, NEW price \in Price, Propose(p, l, price) PROVE Orderly'
  <2>1. away' = away
    BY <1>6 DEF Propose
  <2> QED
    BY <1>1, <1>6, <2>1, ProposeCommits, CommittedOrderly
<1>7. ASSUME NEW o \in DOMAIN db.offer, NEW seen \in DOMAIN db.offer[o].terms, Accept(p, o, seen)
      PROVE  Orderly'
  <2>1. away' = away
    BY <1>7 DEF Accept
  <2> QED
    BY <1>1, <1>7, <2>1, AcceptCommits, CommittedOrderly
<1>8. ASSUME NEW o \in DOMAIN db.offer, NEW seen \in DOMAIN db.offer[o].terms, Refuse(p, o, seen)
      PROVE  Orderly'
  <2>1. away' = away
    BY <1>8 DEF Refuse
  <2> QED
    BY <1>1, <1>8, <2>1, RefuseCommits, CommittedOrderly
<1>9. ASSUME NEW o \in DOMAIN db.offer, NEW seen \in DOMAIN db.offer[o].terms,
             NEW price \in Price, Counter(p, o, seen, price)
      PROVE  Orderly'
  <2>1. away' = away
    BY <1>9 DEF Counter
  <2> QED
    BY <1>1, <1>9, <2>1, CounterCommits, CommittedOrderly
<1> QED
  BY <1>2, <1>3, <1>4, <1>5, <1>6, <1>7, <1>8, <1>9 DEF Negotiation

(* The tables of the market are in order after every command: types and    *)
(* links, what is for sale and where it is, what offers say of their       *)
(* listing and of each other, who has agreed to what, and that a trade     *)
(* that could be settled waits only for a sweep that is still to come.     *)
THEOREM OrderlyTables == Spec => []Orderly
<1>1. Init => Orderly
  BY InitOrderly
<1>2. ASSUME Orderly, [Next]_vars PROVE Orderly'
  <2>1. CASE UNCHANGED vars
    <3>1. Committed(db, left) /\ away \in [Players -> Nat]
      BY <1>2 DEF Orderly, Committed
    <3>2. db' = db /\ left' = left /\ away' = away
      BY <2>1 DEF vars
    <3>3. Committed(db', left')
      BY <3>1, <3>2
    <3> QED
      BY <3>1, <3>2, <3>3, CommittedOrderly
  <2>2. ASSUME NEW p \in Players, Moves(p) PROVE Orderly'
    BY <1>2, <2>2, MovesOrderly
  <2>3. ASSUME NEW p \in Players, Listings(p) PROVE Orderly'
    BY <1>2, <2>3, ListingsOrderly
  <2>4. ASSUME NEW p \in Players, Negotiation(p) PROVE Orderly'
    BY <1>2, <2>4, NegotiationOrderly
  <2> QED
    BY <1>2, <2>1, <2>2, <2>3, <2>4 DEF Next
<1> QED
  BY <1>1, <1>2, PTL DEF Spec

-------------------------------------------------------------------------------
(***************************************************************************)
(* What the market promises.                                               *)
(***************************************************************************)
(* An item that is listed in the Vault is for sale in exactly one listing, *)
(* its owner's; no other item of the Vault is for sale, and an item in a   *)
(* stash at most once, by its owner, whatever is published, deposited,     *)
(* bundled, given away or sold.                                            *)
THEOREM OneListing == Spec => []OneActiveListing
<1>1. Orderly => OneActiveListing
  <2> SUFFICES ASSUME Orderly, NEW i \in Item
               PROVE  /\ Cardinality(Sales(i)) <= 1
                      /\ \A l \in Sales(i) : db.listing[l].seller = db.item[i].owner
                      /\ db.item[i].state = "listed" => Sales(i) # {}
                      /\ db.item[i].state \in {"available", "claiming", "stray"} => Sales(i) = {}
    BY DEF OneActiveListing
  <2>1. Core(db) /\ Exclusive(db, {}) /\ ForSale(db, {})
    BY Before
  <2>2. Cardinality(Sales(i)) <= 1
    <3>1. \A l, m \in Sales(i) : l = m
      BY <2>1 DEF Sales, Exclusive
    <3>2. CASE Sales(i) = {}
      <4>1. Cardinality({}) = 0
        BY FS_EmptySet
      <4> QED
        BY <3>2, <4>1
    <3>3. CASE Sales(i) # {}
      <4>1. PICK l \in Sales(i) : TRUE
        BY <3>3
      <4>2. Sales(i) = {l}
        BY <3>1, <4>1
      <4>3. Cardinality({l}) = 1
        BY FS_Singleton
      <4> QED
        BY <4>2, <4>3
    <3> QED
      BY <3>2, <3>3
  <2>3. \A l \in Sales(i) : db.listing[l].seller = db.item[i].owner
    BY <2>1, SoldHolds DEF Sales, Holds
  <2>4. Sold(db, i) <=> Sales(i) # {}
    BY DEF Sold, Sales
  <2>5. db.item[i].state = "listed" => Sold(db, i)
    BY <2>1 DEF ForSale
  <2>6. db.item[i].state \in {"available", "claiming", "stray"} => ~Sold(db, i)
    BY <2>1, VaultApart
  <2> QED
    BY <2>2, <2>3, <2>4, <2>5, <2>6
<1> QED
  BY <1>1, OrderlyTables, PTL

(* A listing is agreed with one offer, the accepted one; a sale of the     *)
(* Vault has one completed offer and ends all others; an offer that waits  *)
(* for an answer is about the listing as it is.                            *)
THEOREM UniqueAgreements == Spec => []AgreementsAreUnique
<1>1. Orderly => AgreementsAreUnique
  <2> SUFFICES ASSUME Orderly, NEW l \in DOMAIN db.listing
               PROVE  LET row == db.listing[l]
                          done == With(l, "completed")
                      IN  /\ row.status = "agreed" => Cardinality(With(l, "accepted")) = 1
                          /\ row.status \in {"open", "withdrawn"} => With(l, "accepted") = {}
                          /\ row.status \in {"agreed", "withdrawn"} => With(l, "pending") = {}
                          /\ done # {} => /\ row.status = "sold" /\ Cardinality(done) = 1
                                          /\ With(l, "pending") \cup With(l, "accepted") = {}
                          /\ row.status = "open" =>
                               \A o \in With(l, "pending") : db.offer[o].lrev = row.rev
    BY DEF AgreementsAreUnique
  <2>1. AgreedPairs(db) /\ \A o \in DOMAIN db.offer : db.offer[o].status # "ended"
    BY Before, AgreedSays DEF Orderly
  <2>2. ASSUME NEW status, With(l, status) # {},
               \A o, x \in With(l, status) : o = x
        PROVE  Cardinality(With(l, status)) = 1
    <3>1. PICK o \in With(l, status) : TRUE
      BY <2>2
    <3>2. With(l, status) = {o}
      BY <2>2, <3>1
    <3>3. Cardinality({o}) = 1
      BY FS_Singleton
    <3> QED
      BY <3>2, <3>3
  <2>3. \A o, x \in With(l, "accepted") : o = x
    BY <2>1 DEF With, AgreedPairs, OfferAgrees, OffersApart
  <2>4. \A o, x \in With(l, "completed") : o = x
    BY <2>1 DEF With, AgreedPairs, OfferAgrees, OffersApart
  <2>5. db.listing[l].status = "agreed" => With(l, "accepted") # {}
    BY <2>1 DEF With, AgreedPairs, OfferAgrees, OffersApart
  <2>6. db.listing[l].status \in {"open", "withdrawn"} => With(l, "accepted") = {}
    BY <2>1 DEF With, AgreedPairs, OfferAgrees, OffersApart
  <2>7. db.listing[l].status \in {"agreed", "withdrawn"} => With(l, "pending") = {}
    BY <2>1 DEF With, AgreedPairs, OfferAgrees, OffersApart
  <2>8. With(l, "completed") # {} => /\ db.listing[l].status = "sold"
                                     /\ With(l, "pending") \cup With(l, "accepted") = {}
    <3> SUFFICES ASSUME NEW o \in With(l, "completed")
                 PROVE  /\ db.listing[l].status = "sold"
                        /\ With(l, "pending") \cup With(l, "accepted") = {}
      OBVIOUS
    <3>1. o \in DOMAIN db.offer /\ db.offer[o].listing = l /\ db.offer[o].status = "completed"
      BY DEF With
    <3>2. \A x \in DOMAIN db.offer : x # o => db.offer[x].listing # l
      BY <2>1, <3>1 DEF AgreedPairs, OfferAgrees, OffersApart
    <3> QED
      BY <2>1, <3>1, <3>2 DEF With, AgreedPairs, OfferAgrees, OffersApart
  <2>9. db.listing[l].status = "open" =>
          \A o \in With(l, "pending") : db.offer[o].lrev = db.listing[l].rev
    BY <2>1 DEF With, AgreedPairs, OfferAgrees, OffersApart
  <2> QED
    BY <2>2, <2>3, <2>4, <2>5, <2>6, <2>7, <2>8, <2>9
<1> QED
  BY <1>1, OrderlyTables, PTL

(* A trade settles on terms both sides have agreed to in what they saw.    *)
THEOREM SettledOnTerms == Spec => []SettledAsAgreed
<1>1. Orderly => SettledAsAgreed
  <2>1. Orderly => Consented(db)
    BY DEF Orderly, Sound, Core
  <2> QED
    BY <2>1 DEF Consented, SettledAsAgreed
<1> QED
  BY <1>1, OrderlyTables, PTL

(* A command does not leave a trade behind that could be settled, but for  *)
(* the players whom a sweep without budget or the end of a bundle leaves   *)
(* to a later command: the proceeds of one trade fund the next.            *)
THEOREM NothingWaits == Spec => []NothingReadyWaits
<1>1. Orderly => NothingReadyWaits
  BY DEF Orderly, Waits, NothingReadyWaits
<1> QED
  BY <1>1, OrderlyTables, PTL
===============================================================================
