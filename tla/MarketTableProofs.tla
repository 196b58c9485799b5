-------------------------- MODULE MarketTableProofs ---------------------------
(***************************************************************************)
(* The tables of the market: what the operators that a command is built    *)
(* from do to a database.  Lemmas for MarketProofs; a sweep settles what   *)
(* is ready, however long the list of orders and the budget, and leaves    *)
(* sound tables sound.                                                     *)
(***************************************************************************)
EXTENDS MarketInvariant, FiniteSetTheorems, WellFoundedInduction, SequenceTheorems, TLAPS

USE MarketAssumption

(***************************************************************************)
(* Sequences, and the tables of a database.                                *)
(***************************************************************************)

LEMMA SeqIs ==
    ASSUME NEW S, NEW q \in Seq(S)
    PROVE  /\ Len(q) \in Nat /\ DOMAIN q = 1 .. Len(q) /\ q = [i \in 1 .. Len(q) |-> q[i]]
           /\ \A i \in DOMAIN q : q[i] \in S
  BY LenProperties

LEMMA SeqBy ==
    ASSUME NEW S, NEW n \in Nat, NEW q, DOMAIN q = 1 .. n, q = [i \in DOMAIN q |-> q[i]],
           \A i \in DOMAIN q : q[i] \in S
    PROVE  q \in Seq(S) /\ Len(q) = n
<1>1. q \in [1 .. n -> S]
  OBVIOUS
<1> QED
  BY <1>1, SeqDef, LenProperties

LEMMA SeqAppend ==
    ASSUME NEW S, NEW q \in Seq(S), NEW x \in S
    PROVE  /\ Append(q, x) \in Seq(S) /\ Len(Append(q, x)) = Len(q) + 1
           /\ DOMAIN Append(q, x) = 1 .. (Len(q) + 1)
           /\ \A i \in DOMAIN q : Append(q, x)[i] = q[i]
           /\ Append(q, x)[Len(q) + 1] = x
  OBVIOUS

\* Databases that differ in the tables F at most.
Same(d, e, F) ==
    /\ "item" \notin F => e.item = d.item
    /\ "gold" \notin F => e.gold = d.gold
    /\ "auto" \notin F => e.auto = d.auto
    /\ "listing" \notin F => e.listing = d.listing
    /\ "offer" \notin F => e.offer = d.offer
    /\ "wanted" \notin F => e.wanted = d.wanted

\* The fields of a database.
LEMMA Tables ==
    ASSUME NEW d, Typed(d)
    PROVE  /\ d.item \in [Item -> ItemRow] /\ d.gold \in [Players -> Nat]
           /\ d.auto \in [Players -> BOOLEAN]
           /\ d.listing \in Seq(ListingRow) /\ d.offer \in Seq(OfferRow)
           /\ d.wanted \in Seq(PostRow)
           /\ Len(d.listing) \in Nat /\ DOMAIN d.listing = 1 .. Len(d.listing)
           /\ Len(d.offer) \in Nat /\ DOMAIN d.offer = 1 .. Len(d.offer)
           /\ Len(d.wanted) \in Nat /\ DOMAIN d.wanted = 1 .. Len(d.wanted)
           /\ \A l \in DOMAIN d.listing : d.listing[l] \in ListingRow
           /\ \A o \in DOMAIN d.offer : d.offer[o] \in OfferRow
           /\ \A w \in DOMAIN d.wanted : d.wanted[w] \in PostRow
<1>1. /\ d.item \in [Item -> ItemRow] /\ d.gold \in [Players -> Nat]
      /\ d.auto \in [Players -> BOOLEAN]
      /\ d.listing \in Seq(ListingRow) /\ d.offer \in Seq(OfferRow)
      /\ d.wanted \in Seq(PostRow)
  BY DEF Typed, Database
<1> QED
  BY <1>1, SeqIs

----------------------------------------------------------------------------
\* What withdrawing listings changes.
LEMMA ClosedOffer ==
    ASSUME NEW f \in OfferRow, NEW status \in OfferStatus \cup {"ended"}
    PROVE  /\ Closed(f, status) \in OfferRow /\ Closed(f, status).status = status
           /\ Closed(f, status).listing = f.listing /\ Closed(f, status).lrev = f.lrev
           /\ Closed(f, status).buyer = f.buyer /\ Closed(f, status).proposer = f.proposer
           /\ Closed(f, status).post = f.post /\ Closed(f, status).signed = f.signed
           /\ Last(Closed(f, status).terms) = Last(f.terms)
<1>1. f.terms \in Seq(Price) /\ f.terms # <<>>
  BY DEF OfferRow
<1>2. Last(f.terms) \in Price
  BY <1>1, EmptySeq, SeqIs DEF Last
<1>3. <<Last(f.terms)>> \in Seq(Price) /\ <<Last(f.terms)>> # <<>>
      /\ Last(<<Last(f.terms)>>) = Last(f.terms)
  BY <1>2 DEF Last
<1>4. Closed(f, status).terms = <<Last(f.terms)>>
  BY DEF Closed, OfferRow
<1> QED
  BY <1>3, <1>4 DEF Closed, OfferRow

LEMMA EndedOffer ==
    ASSUME NEW f \in OfferRow
    PROVE  /\ Ended(f) \in OfferRow /\ Ended(f).status = "ended"
           /\ Ended(f).listing = f.listing /\ Ended(f).lrev = f.lrev
           /\ Ended(f).buyer = f.buyer /\ Ended(f).proposer = f.proposer
           /\ Ended(f).post = f.post
  BY ClosedOffer DEF Ended

LEMMA Invalidated ==
    ASSUME NEW d, Typed(d), NEW ls, NEW except
    PROVE  LET e == InvalidateOffers(d, ls, except) IN
           /\ Typed(e) /\ Same(d, e, {"offer"})
           /\ DOMAIN e.offer = DOMAIN d.offer
           /\ \A o \in DOMAIN d.offer :
                IF d.offer[o].listing \in ls /\ Live(d, o) /\ o # except
                THEN e.offer[o] = Ended(d.offer[o]) ELSE e.offer[o] = d.offer[o]
<1> DEFINE e == InvalidateOffers(d, ls, except)
           q == [o \in DOMAIN d.offer |->
                   IF d.offer[o].listing \in ls /\ Live(d, o) /\ o # except
                   THEN Ended(d.offer[o]) ELSE d.offer[o]]
<1>1. e = [d EXCEPT !.offer = q]
  BY DEF InvalidateOffers
<1>2. \A o \in DOMAIN d.offer : q[o] \in OfferRow
  BY EndedOffer, Tables
<1>3. DOMAIN q = 1 .. Len(d.offer) /\ Len(d.offer) \in Nat /\ q = [o \in DOMAIN q |-> q[o]]
      /\ DOMAIN q = DOMAIN d.offer
  BY Tables
<1>4. \A o \in DOMAIN d.offer :
                IF d.offer[o].listing \in ls /\ Live(d, o) /\ o # except
                THEN q[o] = Ended(d.offer[o]) ELSE q[o] = d.offer[o]
  OBVIOUS
<1> HIDE DEF q
<1>5. q \in Seq(OfferRow)
  BY <1>2, <1>3, SeqBy
<1>6. Typed(e) /\ e.offer = q /\ Same(d, e, {"offer"})
  BY <1>1, <1>5 DEF Typed, Database, Same
<1> QED
  BY <1>3, <1>4, <1>6

-------------------------------------------------------------------------------
(***************************************************************************)
(* Listings are withdrawn.                                                 *)
(***************************************************************************)
LEMMA RevisedRow ==
    ASSUME NEW row \in ListingRow, NEW status \in {"open", "agreed", "sold", "withdrawn"}
    PROVE  /\ Revised(row, status) \in ListingRow
           /\ Revised(row, status).status = status /\ Revised(row, status).rev = row.rev + 1
           /\ Revised(row, status).seller = row.seller /\ Revised(row, status).root = row.root
           /\ Revised(row, status).goods = row.goods /\ Revised(row, status).spot = row.spot
           /\ Revised(row, status).ask = row.ask
<1>1. row.rev \in Nat \ {0}
  BY DEF ListingRow
<1>2. row.rev + 1 \in Nat \ {0}
  BY <1>1
<1> QED
  BY <1>2 DEF Revised, ListingRow

LEMMA ReviewedIs ==
    ASSUME NEW d, Typed(d), NEW ls, NEW status \in {"open", "agreed", "sold", "withdrawn"}
    PROVE  LET e == Reviewed(d, ls, status) IN
           /\ Typed(e) /\ Same(d, e, {"listing"})
           /\ DOMAIN e.listing = DOMAIN d.listing /\ Len(e.listing) = Len(d.listing)
           /\ \A l \in DOMAIN d.listing :
                e.listing[l] = IF l \in ls /\ Active(d, l) THEN Revised(d.listing[l], status)
                               ELSE d.listing[l]
<1> DEFINE e == Reviewed(d, ls, status)
           q == [l \in DOMAIN d.listing |->
                   IF l \in ls /\ Active(d, l) THEN Revised(d.listing[l], status)
                   ELSE d.listing[l]]
<1>1. e = [d EXCEPT !.listing = q]
  BY DEF Reviewed
<1>2. \A l \in DOMAIN d.listing :
          q[l] = IF l \in ls /\ Active(d, l) THEN Revised(d.listing[l], status)
                 ELSE d.listing[l]
  OBVIOUS
<1>3. DOMAIN q = 1 .. Len(d.listing) /\ Len(d.listing) \in Nat /\ q = [l \in DOMAIN q |-> q[l]]
      /\ DOMAIN q = DOMAIN d.listing
  BY Tables
<1> HIDE DEF q
<1>4. \A l \in DOMAIN d.listing : q[l] \in ListingRow
  BY <1>2, RevisedRow, Tables
<1>5. q \in Seq(ListingRow) /\ Len(q) = Len(d.listing)
  BY <1>3, <1>4, SeqBy
<1>6. Typed(e) /\ e.listing = q /\ Same(d, e, {"listing"})
  BY <1>1, <1>5 DEF Typed, Database, Same
<1> QED
  BY <1>2, <1>3, <1>5, <1>6

LEMMA WithdrawIs ==
    ASSUME NEW d, Typed(d), NEW ls
    PROVE  LET e == Withdraw(d, ls) IN
           /\ Typed(e) /\ Same(d, e, {"listing", "offer"})
           /\ DOMAIN e.listing = DOMAIN d.listing /\ DOMAIN e.offer = DOMAIN d.offer
           /\ Len(e.listing) = Len(d.listing)
           /\ \A l \in DOMAIN d.listing :
                e.listing[l] = IF l \in ls /\ Active(d, l) THEN Revised(d.listing[l], "withdrawn")
                               ELSE d.listing[l]
           /\ \A o \in DOMAIN d.offer :
                e.offer[o] = IF d.offer[o].listing \in ls /\ Live(d, o) THEN Ended(d.offer[o])
                             ELSE d.offer[o]
<1> DEFINE i == InvalidateOffers(d, ls, 0)
           e == Withdraw(d, ls)
<1>1. e = Reviewed(i, ls, "withdrawn")
  BY DEF Withdraw
<1>2. /\ Typed(i) /\ Same(d, i, {"offer"}) /\ DOMAIN i.offer = DOMAIN d.offer
      /\ i.listing = d.listing
      /\ \A o \in DOMAIN d.offer :
           IF d.offer[o].listing \in ls /\ Live(d, o) /\ o # 0
           THEN i.offer[o] = Ended(d.offer[o]) ELSE i.offer[o] = d.offer[o]
  BY Invalidated DEF Same
<1> HIDE DEF i, e
<1>3. /\ Typed(e) /\ Same(i, e, {"listing"})
      /\ DOMAIN e.listing = DOMAIN i.listing /\ Len(e.listing) = Len(i.listing)
      /\ \A l \in DOMAIN i.listing :
                e.listing[l] = IF l \in ls /\ Active(i, l) THEN Revised(i.listing[l], "withdrawn")
                               ELSE i.listing[l]
  BY <1>1, <1>2, ReviewedIs
<1>4. Same(d, e, {"listing", "offer"}) /\ e.offer = i.offer
  BY <1>2, <1>3 DEF Same
<1>5. \A l \in DOMAIN d.listing : Active(i, l) <=> Active(d, l)
  BY <1>2 DEF Active
<1>6. \A o \in DOMAIN d.offer : o # 0
  BY Tables
<1> QED
  BY <1>2, <1>3, <1>4, <1>5, <1>6 DEF e

\* What a withdrawal leaves as it was.
LEMMA WithdrawKeeps ==
    ASSUME NEW d, Typed(d), NEW ls
    PROVE  LET e == Withdraw(d, ls) IN
           /\ \A l \in DOMAIN d.listing :
                /\ e.listing[l].seller = d.listing[l].seller
                /\ e.listing[l].root = d.listing[l].root
                /\ e.listing[l].goods = d.listing[l].goods
                /\ e.listing[l].spot = d.listing[l].spot
                /\ e.listing[l].rev >= d.listing[l].rev
                /\ IF l \in ls /\ Active(d, l) THEN e.listing[l].status = "withdrawn"
                   ELSE e.listing[l] = d.listing[l]
                /\ Active(e, l) <=> Active(d, l) /\ l \notin ls
           /\ \A o \in DOMAIN d.offer :
                /\ e.offer[o].listing = d.offer[o].listing /\ e.offer[o].lrev = d.offer[o].lrev
                /\ e.offer[o].buyer = d.offer[o].buyer /\ e.offer[o].post = d.offer[o].post
                /\ e.offer[o].proposer = d.offer[o].proposer
                /\ IF d.offer[o].listing \in ls /\ Live(d, o) THEN e.offer[o].status = "ended"
                   ELSE e.offer[o] = d.offer[o]
<1> DEFINE e == Withdraw(d, ls)
<1>1. ASSUME NEW l \in DOMAIN d.listing
      PROVE  /\ e.listing[l].seller = d.listing[l].seller
             /\ e.listing[l].root = d.listing[l].root
             /\ e.listing[l].goods = d.listing[l].goods
             /\ e.listing[l].spot = d.listing[l].spot
             /\ e.listing[l].rev >= d.listing[l].rev
             /\ IF l \in ls /\ Active(d, l) THEN e.listing[l].status = "withdrawn"
                ELSE e.listing[l] = d.listing[l]
             /\ Active(e, l) <=> Active(d, l) /\ l \notin ls
  <2>1. e.listing[l] = IF l \in ls /\ Active(d, l) THEN Revised(d.listing[l], "withdrawn")
                       ELSE d.listing[l]
    BY WithdrawIs
  <2>2. d.listing[l] \in ListingRow /\ d.listing[l].rev \in Nat
    BY Tables DEF ListingRow
  <2> HIDE DEF e
  <2> QED
    BY <2>1, <2>2, RevisedRow DEF Active
<1>2. ASSUME NEW o \in DOMAIN d.offer
      PROVE  /\ e.offer[o].listing = d.offer[o].listing /\ e.offer[o].lrev = d.offer[o].lrev
             /\ e.offer[o].buyer = d.offer[o].buyer /\ e.offer[o].post = d.offer[o].post
             /\ e.offer[o].proposer = d.offer[o].proposer
             /\ IF d.offer[o].listing \in ls /\ Live(d, o) THEN e.offer[o].status = "ended"
                ELSE e.offer[o] = d.offer[o]
  BY WithdrawIs, EndedOffer, Tables
<1> QED
  BY <1>1, <1>2

\* The same as Agreed, said of pairs of offers.
OfferAgrees(d, o) ==
    LET l == d.listing[d.offer[o].listing]
    IN  /\ d.offer[o].listing \in DOMAIN d.listing
        /\ d.offer[o].status = "pending" =>
             /\ l.status \in {"open", "sold"}
             /\ l.status = "open" => d.offer[o].lrev = l.rev
        /\ d.offer[o].status = "accepted" => l.status \in {"agreed", "sold"}
        /\ d.offer[o].status = "completed" => l.status = "sold" /\ l.spot = 0

OffersApart(d, o, x) ==
    /\ d.offer[o].status = "accepted" => d.offer[x].status # "accepted"
    /\ d.offer[o].status = "completed" => d.offer[x].status = "ended"

AgreedPairs(d) ==
    /\ \A l \in DOMAIN d.listing : d.listing[l].status = "agreed" =>
         \E o \in DOMAIN d.offer : d.offer[o].listing = l /\ d.offer[o].status = "accepted"
    /\ \A o \in DOMAIN d.offer : OfferAgrees(d, o)
    /\ \A o, x \in DOMAIN d.offer : o # x /\ d.offer[x].listing = d.offer[o].listing =>
         OffersApart(d, o, x)

LEMMA AgreedSays ==
    ASSUME NEW d, Core(d)
    PROVE  AgreedPairs(d)
<1>1. Agreed(d) /\ Linked(d)
  BY DEF Core
<1>2. \A o \in DOMAIN d.offer : d.offer[o].listing \in DOMAIN d.listing
  BY <1>1 DEF Linked
<1>3. ASSUME NEW o \in DOMAIN d.offer, NEW x \in DOMAIN d.offer, o # x,
             d.offer[x].listing = d.offer[o].listing
      PROVE  OffersApart(d, o, x)
  <2>1. x \in {y \in DOMAIN d.offer \ {o} : d.offer[y].listing = d.offer[o].listing}
    BY <1>3
  <2> QED
    BY <1>1, <2>1 DEF Agreed, OffersApart
<1>4. ASSUME NEW o \in DOMAIN d.offer PROVE OfferAgrees(d, o)
  BY <1>1, <1>2, <1>4 DEF Agreed, OfferAgrees
<1>5. \A l \in DOMAIN d.listing : d.listing[l].status = "agreed" =>
         \E o \in DOMAIN d.offer : d.offer[o].listing = l /\ d.offer[o].status = "accepted"
  BY <1>1 DEF Agreed
<1> QED
  BY <1>3, <1>4, <1>5 DEF AgreedPairs

LEMMA AgreedOffer ==
    ASSUME NEW d, AgreedPairs(d), NEW o \in DOMAIN d.offer
    PROVE  OfferAgrees(d, o)
  BY DEF AgreedPairs

LEMMA AgreedApart ==
    ASSUME NEW d, AgreedPairs(d), NEW o \in DOMAIN d.offer, NEW x \in DOMAIN d.offer, o # x,
           d.offer[x].listing = d.offer[o].listing
    PROVE  OffersApart(d, o, x)
  BY DEF AgreedPairs

\* An offer that is as it was, of a listing that is as it was, agrees still;
\* one that has ended agrees with everything.
LEMMA SameOffer ==
    ASSUME NEW d, NEW e, NEW o, OfferAgrees(d, o), e.offer[o] = d.offer[o],
           d.offer[o].listing \in DOMAIN e.listing,
           e.listing[d.offer[o].listing] = d.listing[d.offer[o].listing]
    PROVE  OfferAgrees(e, o)
<1>1. e.offer[o].listing = d.offer[o].listing
  OBVIOUS
<1>2. e.listing[e.offer[o].listing] = d.listing[d.offer[o].listing]
  BY <1>1
<1> QED
  BY <1>1, <1>2 DEF OfferAgrees

LEMMA EndedAgrees ==
    ASSUME NEW e, NEW o, e.offer[o].status = "ended", e.offer[o].listing \in DOMAIN e.listing
    PROVE  OfferAgrees(e, o)
  BY DEF OfferAgrees

LEMMA SameApart ==
    ASSUME NEW d, NEW e, NEW o, NEW x, OffersApart(d, o, x),
           e.offer[o] = d.offer[o] \/ e.offer[o].status = "ended",
           e.offer[x] = d.offer[x] \/ e.offer[x].status = "ended"
    PROVE  OffersApart(e, o, x)
  BY DEF OffersApart

LEMMA AgreedBy ==
    ASSUME NEW d, AgreedPairs(d)
    PROVE  Agreed(d)
<1>1. ASSUME NEW o \in DOMAIN d.offer
      PROVE  LET f == d.offer[o]
                 l == d.listing[f.listing]
                 Rest == {x \in DOMAIN d.offer \ {o} : d.offer[x].listing = f.listing}
             IN  /\ f.status = "pending" => /\ l.status \in {"open", "sold"}
                                            /\ l.status = "open" => f.lrev = l.rev
                 /\ f.status = "accepted" =>
                      /\ l.status \in {"agreed", "sold"}
                      /\ \A x \in Rest : d.offer[x].status # "accepted"
                 /\ f.status = "completed" =>
                      /\ l.status = "sold" /\ l.spot = 0
                      /\ \A x \in Rest : d.offer[x].status = "ended"
  BY DEF AgreedPairs, OfferAgrees, OffersApart
<1> QED
  BY <1>1 DEF AgreedPairs, Agreed

\* The same as Consented, said of one offer.
Consents(d, o) ==
    LET f == d.offer[o]
    IN  /\ f.status = "pending" => f.signed[f.proposer] = Terms(d, o)
        /\ f.status \in {"accepted", "completed"} =>
             /\ f.signed[Seller(d, o)] = Terms(d, o)
             /\ f.signed[f.buyer] = Terms(d, o) \/ Terms(d, o) = Free

LEMMA ConsentedIs ==
    ASSUME NEW d
    PROVE  Consented(d) <=> \A o \in DOMAIN d.offer : Consents(d, o)
  BY DEF Consented, Consents

LEMMA SameConsents ==
    ASSUME NEW d, NEW e, NEW o, Consents(d, o), e.offer[o] = d.offer[o], Seller(e, o) = Seller(d, o)
    PROVE  Consents(e, o)
<1>1. Terms(e, o) = Terms(d, o)
  BY DEF Terms
<1> QED
  BY <1>1 DEF Consents

LEMMA EndedConsents ==
    ASSUME NEW e, NEW o, e.offer[o].status = "ended"
    PROVE  Consents(e, o)
  BY DEF Consents

LEMMA WithdrawCore ==
    ASSUME NEW d, Core(d), NEW ls
    PROVE  Core(Withdraw(d, ls))
<1> DEFINE e == Withdraw(d, ls)
<1>1. /\ Typed(d) /\ Typed(e) /\ Same(d, e, {"listing", "offer"})
      /\ e.item = d.item /\ e.wanted = d.wanted
      /\ DOMAIN e.listing = DOMAIN d.listing /\ DOMAIN e.offer = DOMAIN d.offer
  BY WithdrawIs DEF Core, Same
<1>2. /\ \A l \in DOMAIN d.listing :
                /\ e.listing[l].seller = d.listing[l].seller
                /\ e.listing[l].root = d.listing[l].root
                /\ e.listing[l].goods = d.listing[l].goods
                /\ e.listing[l].spot = d.listing[l].spot
                /\ e.listing[l].rev >= d.listing[l].rev
                /\ IF l \in ls /\ Active(d, l) THEN e.listing[l].status = "withdrawn"
                   ELSE e.listing[l] = d.listing[l]
                /\ Active(e, l) <=> Active(d, l) /\ l \notin ls
      /\ \A o \in DOMAIN d.offer :
                /\ e.offer[o].listing = d.offer[o].listing /\ e.offer[o].lrev = d.offer[o].lrev
                /\ e.offer[o].buyer = d.offer[o].buyer /\ e.offer[o].post = d.offer[o].post
                /\ e.offer[o].proposer = d.offer[o].proposer
                /\ IF d.offer[o].listing \in ls /\ Live(d, o) THEN e.offer[o].status = "ended"
                   ELSE e.offer[o] = d.offer[o]
  BY <1>1, WithdrawKeeps
<1>3. /\ \A o \in DOMAIN d.offer : d.offer[o].lrev \in Nat
      /\ \A l \in DOMAIN d.listing : d.listing[l].rev \in Nat /\ e.listing[l].rev \in Nat
  <2>1. /\ \A o \in DOMAIN d.offer : d.offer[o] \in OfferRow
        /\ \A l \in DOMAIN d.listing : d.listing[l] \in ListingRow
    BY <1>1, Tables
  <2>2. \A l \in DOMAIN e.listing : e.listing[l] \in ListingRow
    BY <1>1, Tables
  <2> HIDE DEF e
  <2> QED
    BY <1>1, <2>1, <2>2 DEF OfferRow, ListingRow
<1> HIDE DEF e
<1>4. Linked(e)
  <2> SUFFICES ASSUME NEW o \in DOMAIN d.offer
               PROVE  /\ e.offer[o].listing \in DOMAIN e.listing
                      /\ e.offer[o].lrev <= e.listing[e.offer[o].listing].rev
                      /\ e.offer[o].buyer # Seller(e, o)
                      /\ e.offer[o].proposer \in {e.offer[o].buyer, Seller(e, o)}
                      /\ e.offer[o].post \in 0 .. Len(e.wanted)
    BY <1>1 DEF Linked
  <2>1. /\ d.offer[o].listing \in DOMAIN d.listing
        /\ d.offer[o].lrev <= d.listing[d.offer[o].listing].rev
        /\ d.offer[o].buyer # Seller(d, o)
        /\ d.offer[o].proposer \in {d.offer[o].buyer, Seller(d, o)}
        /\ d.offer[o].post \in 0 .. Len(d.wanted)
    BY DEF Core, Linked
  <2>2. e.offer[o].listing = d.offer[o].listing /\ Seller(e, o) = Seller(d, o)
    BY <1>2, <2>1 DEF Seller
  <2>3. e.offer[o].lrev <= e.listing[e.offer[o].listing].rev
    BY <1>2, <1>3, <2>1, <2>2
  <2> QED
    BY <1>1, <1>2, <2>1, <2>2, <2>3
<1>5. Placed(e)
  BY <1>1, <1>2 DEF Core, Placed, Holds, Holding
<1>6. Agreed(e)
  <2>1. AgreedPairs(d)
    BY AgreedSays
  <2>2. ASSUME NEW l \in DOMAIN e.listing, e.listing[l].status = "agreed"
        PROVE  \E o \in DOMAIN e.offer : e.offer[o].listing = l /\ e.offer[o].status = "accepted"
    <3>1. l \in DOMAIN d.listing /\ d.listing[l].status = "agreed" /\ e.listing[l] = d.listing[l]
      BY <1>1, <1>2, <2>2
    <3>2. PICK o \in DOMAIN d.offer : d.offer[o].listing = l /\ d.offer[o].status = "accepted"
      BY <2>1, <3>1 DEF AgreedPairs, OfferAgrees, OffersApart
    <3>3. ~(l \in ls /\ Active(d, l))
      BY <1>2, <2>2, <3>1
    <3>4. l \notin ls
      BY <3>1, <3>3 DEF Active
    <3> QED
      BY <1>1, <1>2, <3>2, <3>4
  <2>3. ASSUME NEW o \in DOMAIN d.offer
        PROVE  /\ d.offer[o].listing \in DOMAIN d.listing
               /\ e.offer[o].status # "ended" =>
                    /\ e.offer[o] = d.offer[o]
                    /\ e.listing[d.offer[o].listing] = d.listing[d.offer[o].listing]
    <3> DEFINE l == d.offer[o].listing
    <3>1. l \in DOMAIN d.listing
      BY <2>1, AgreedOffer DEF OfferAgrees
    <3>2. CASE l \notin ls
      BY <1>2, <3>1, <3>2
    <3>3. CASE l \in ls /\ Live(d, o)
      BY <1>2, <3>1, <3>3
    <3>4. CASE l \in ls /\ ~Live(d, o)
      <4>1. e.offer[o] = d.offer[o]
        BY <1>2, <3>4
      <4>2. d.offer[o] \in OfferRow
        BY <1>1, Tables
      <4>3. d.offer[o].status \in {"completed", "ended"}
        BY <3>4, <4>2 DEF OfferRow, OfferStatus, Live
      <4>4. d.offer[o].status = "completed" => ~Active(d, l)
        BY <2>1, AgreedOffer DEF Active, OfferAgrees
      <4>5. ~Active(d, l) => e.listing[l] = d.listing[l]
        BY <1>2, <3>1
      <4> HIDE DEF l
      <4> QED
        BY <3>1, <4>1, <4>3, <4>4, <4>5 DEF l
    <3> QED
      BY <3>2, <3>3, <3>4
  <2>4. ASSUME NEW o \in DOMAIN d.offer
        PROVE  OfferAgrees(e, o)
    <3>1. e.offer[o].listing = d.offer[o].listing
      BY <1>2
    <3>2. CASE e.offer[o].status = "ended"
      BY <1>1, <2>3, <3>1, <3>2 DEF OfferAgrees
    <3>3. CASE e.offer[o].status # "ended"
      BY <1>1, <2>1, <2>3, <3>1, <3>3, AgreedOffer DEF OfferAgrees
    <3> QED
      BY <3>2, <3>3
  <2>5. ASSUME NEW o \in DOMAIN d.offer, NEW x \in DOMAIN d.offer, o # x,
               e.offer[x].listing = e.offer[o].listing
        PROVE  OffersApart(e, o, x)
    <3>1. d.offer[x].listing = d.offer[o].listing
      BY <1>2, <2>5
    <3>2. OffersApart(d, o, x)
      BY <2>1, <2>5, <3>1, AgreedApart
    <3> QED
      BY <2>3, <3>2 DEF OffersApart
  <2>6. AgreedPairs(e)
    BY <1>1, <2>2, <2>4, <2>5 DEF AgreedPairs
  <2> QED
    BY <2>6, AgreedBy
<1>7. Consented(e)
  <2> SUFFICES ASSUME NEW o \in DOMAIN d.offer PROVE Consents(e, o)
    BY <1>1, ConsentedIs
  <2>1. Consents(d, o) /\ d.offer[o].listing \in DOMAIN d.listing
    BY ConsentedIs DEF Core, Linked
  <2>2. e.offer[o].status = "ended" \/ e.offer[o] = d.offer[o]
    BY <1>2
  <2>3. Seller(e, o) = Seller(d, o)
    BY <1>2, <2>1 DEF Seller
  <2> QED
    BY <2>1, <2>2, <2>3, SameConsents, EndedConsents
<1> QED
  BY <1>1, <1>4, <1>5, <1>6, <1>7 DEF Core, e

-------------------------------------------------------------------------------
(***************************************************************************)
(* Sales and ready offers.                                                 *)
(***************************************************************************)
\* Listings are withdrawn: those in ls, among them what is for sale of X2.
LEMMA WithdrawSales ==
    ASSUME NEW d, Core(d), NEW ls, NEW Y, NEW X, NEW X2, Exclusive(d, Y), ForSale(d, X), X \subseteq X2,
           \A l \in DOMAIN d.listing : Active(d, l) /\ d.listing[l].goods \cap X2 # {} => l \in ls,
           \A l \in DOMAIN d.listing \cap ls : Active(d, l) =>
              \A i \in d.listing[l].goods : d.item[i].state = "listed" => i \in X2
    PROVE  Exclusive(Withdraw(d, ls), Y \ ls) /\ ForSale(Withdraw(d, ls), X2)
<1> DEFINE e == Withdraw(d, ls)
<1>1. /\ Typed(d) /\ e.item = d.item /\ DOMAIN e.listing = DOMAIN d.listing
      /\ \A l \in DOMAIN d.listing : e.listing[l].goods = d.listing[l].goods
                                  /\ (Active(e, l) <=> Active(d, l) /\ l \notin ls)
  BY WithdrawIs, WithdrawKeeps DEF Core, Same
<1> HIDE DEF e
<1>2. Exclusive(e, Y \ ls)
  BY <1>1 DEF Exclusive
<1>3. ASSUME NEW i \in Item, i \in X2 PROVE ~Sold(e, i)
  BY <1>1, <1>3 DEF Sold
<1>4. ASSUME NEW i \in Item, i \notin X2, d.item[i].state = "listed" PROVE Sold(e, i)
  <2>1. PICK l \in DOMAIN d.listing : Active(d, l) /\ i \in d.listing[l].goods
    BY <1>4 DEF ForSale, Sold
  <2>2. l \notin ls
    BY <1>4, <2>1
  <2> QED
    BY <1>1, <2>1, <2>2 DEF Sold
<1> QED
  BY <1>1, <1>2, <1>3, <1>4 DEF ForSale, e

\* When an offer is ready, its listing is for sale.
LEMMA ReadyActive ==
    ASSUME NEW d, NEW o, Ready(d, o)
    PROVE  Live(d, o) /\ Active(d, d.offer[o].listing)
  BY Zenon DEF Ready, Approved, Active, Live

\* Nothing has come to help offer o of d, which is offer o2 of e.
Unhelped(d, e, o, o2) ==
    LET l == d.offer[o].listing
        m == e.offer[o2].listing
        b == d.offer[o].buyer
    IN  /\ e.offer[o2].status = d.offer[o].status /\ e.offer[o2].proposer = d.offer[o].proposer
        /\ e.offer[o2].buyer = b /\ Terms(e, o2) = Terms(d, o)
        /\ e.listing[m].seller = d.listing[l].seller
        /\ e.listing[m].status = d.listing[l].status
        /\ e.listing[m].ask = d.listing[l].ask
        /\ e.listing[m].goods = d.listing[l].goods
        /\ e.auto[e.listing[m].seller] = d.auto[e.listing[m].seller]
        /\ \A i \in d.listing[l].goods :
             Holds(e, d.listing[l].seller, i, {"listed"})
             => Holds(d, d.listing[l].seller, i, {"listed"})
        /\ e.gold[b] >= Terms(d, o).gold => d.gold[b] >= Terms(d, o).gold
        /\ \A i \in Item : Holds(e, b, i, {"available"}) => Holds(d, b, i, {"available"})

LEMMA ReadyWas ==
    ASSUME NEW d, NEW e, NEW o, NEW o2, Ready(e, o2), Unhelped(d, e, o, o2)
    PROVE  Ready(d, o)
<1>1. ASSUME Funded(e, e.offer[o2].buyer, Terms(e, o2)) PROVE Funded(d, d.offer[o].buyer, Terms(d, o))
  <2> DEFINE b == d.offer[o].buyer
             t == Terms(d, o)
  <2>1. /\ e.offer[o2].buyer = b /\ Terms(e, o2) = t
        /\ e.gold[b] >= t.gold => d.gold[b] >= t.gold
        /\ \A i \in Item : Holds(e, b, i, {"available"}) => Holds(d, b, i, {"available"})
    BY Zenon DEF Unhelped
  <2> HIDE DEF b, t
  <2>2. Funded(e, b, t)
    BY <1>1, <2>1, Zenon
  <2>3. Funded(d, b, t)
    BY <2>1, <2>2 DEF Funded, Funding
  <2> QED
    BY <2>3, Zenon DEF b, t
<1> DEFINE l == d.listing[d.offer[o].listing]
           m == e.listing[e.offer[o2].listing]
<1>2. /\ e.offer[o2].status = d.offer[o].status /\ e.offer[o2].proposer = d.offer[o].proposer
      /\ e.offer[o2].buyer = d.offer[o].buyer /\ Terms(e, o2) = Terms(d, o)
      /\ m.seller = l.seller /\ m.status = l.status /\ m.ask = l.ask /\ m.goods = l.goods
      /\ e.auto[m.seller] = d.auto[m.seller]
      /\ \A i \in l.goods : Holds(e, l.seller, i, {"listed"}) => Holds(d, l.seller, i, {"listed"})
  BY Zenon DEF Unhelped
<1>3. /\ Live(e, o2) /\ (e.offer[o2].status = "pending" => Approved(e, o2))
      /\ e.offer[o2].status = "accepted" => m.status = "agreed"
      /\ \A i \in m.goods : Holds(e, m.seller, i, {"listed"})
      /\ Funded(e, e.offer[o2].buyer, Terms(e, o2))
  BY Zenon DEF Ready
<1>4. Live(d, o)
  BY <1>2, <1>3, Zenon DEF Live
<1>5. ASSUME Approved(e, o2) PROVE Approved(d, o)
  <2>1. /\ e.auto[m.seller] \/ Terms(e, o2) = Free
        /\ e.offer[o2].proposer = e.offer[o2].buyer
        /\ m.status = "open" /\ m.ask = Terms(e, o2)
    BY <1>5, Zenon DEF Approved
  <2> HIDE DEF l, m
  <2>2. /\ d.auto[l.seller] \/ Terms(d, o) = Free
        /\ d.offer[o].proposer = d.offer[o].buyer
        /\ l.status = "open" /\ l.ask = Terms(d, o)
    BY <1>2, <2>1, Zenon
  <2> QED
    BY <2>2, Zenon DEF Approved, l
<1> QED
  BY <1>1, <1>2, <1>3, <1>4, <1>5, Zenon DEF Ready

\* What withdrawing does to ready offers: nothing becomes ready.
LEMMA WithdrawReady ==
    ASSUME NEW d, Core(d), NEW ls, NEW o \in DOMAIN d.offer, Ready(Withdraw(d, ls), o)
    PROVE  Ready(d, o) /\ d.offer[o].listing \notin ls
<1> DEFINE e == Withdraw(d, ls)
<1>1. /\ Typed(d) /\ Same(d, e, {"listing", "offer"})
      /\ \A l \in DOMAIN d.listing :
                IF l \in ls /\ Active(d, l) THEN e.listing[l].status = "withdrawn"
                ELSE e.listing[l] = d.listing[l]
      /\ IF d.offer[o].listing \in ls /\ Live(d, o) THEN e.offer[o].status = "ended"
         ELSE e.offer[o] = d.offer[o]
      /\ d.offer[o].listing \in DOMAIN d.listing
  BY WithdrawIs, WithdrawKeeps DEF Core, Linked
<1> HIDE DEF e
<1>2. Live(e, o) /\ Ready(e, o)
  BY ReadyActive DEF e
<1>3. e.offer[o] = d.offer[o] /\ d.offer[o].listing \notin ls
  BY <1>1, <1>2 DEF Live
<1>4. e.listing[e.offer[o].listing] = d.listing[d.offer[o].listing]
  BY <1>1, <1>3
<1>5. e.item = d.item /\ e.gold = d.gold /\ e.auto = d.auto
  BY <1>1 DEF Same
<1>6. Terms(e, o) = Terms(d, o)
  BY <1>3 DEF Terms
<1>7. Ready(d, o)
  <2>1. Unhelped(d, e, o, o)
    BY <1>3, <1>4, <1>5, <1>6 DEF Holds, Unhelped
  <2> QED
    BY <1>2, <2>1, ReadyWas
<1> QED
  BY <1>3, <1>7

-------------------------------------------------------------------------------
(***************************************************************************)
(* Changes of the tables that keep the core.                               *)
(***************************************************************************)
\* Listings are added or changed, and items; no offer that has not ended
\* is about a listing that changes.
RowsChanged(d, e) ==
    /\ e.offer = d.offer /\ Len(e.wanted) >= Len(d.wanted) /\ Len(e.listing) >= Len(d.listing)
    /\ \A l \in DOMAIN d.listing : e.listing[l].seller = d.listing[l].seller
                                /\ e.listing[l].rev >= d.listing[l].rev
    /\ \A l \in DOMAIN e.listing :
         \/ l \in DOMAIN d.listing /\ e.listing[l] = d.listing[l]
         \/ /\ e.listing[l].status # "agreed"
            /\ \A o \in DOMAIN d.offer : d.offer[o].listing = l => d.offer[o].status = "ended"

LEMMA RowsCore ==
    ASSUME NEW d, Core(d), NEW e, Typed(e), RowsChanged(d, e), Placed(e)
    PROVE  Core(e)
<1>1. /\ Typed(d) /\ e.offer = d.offer
      /\ DOMAIN d.listing = 1 .. Len(d.listing) /\ DOMAIN e.listing = 1 .. Len(e.listing)
      /\ Len(d.listing) \in Nat /\ Len(e.listing) \in Nat /\ Len(e.listing) >= Len(d.listing)
      /\ Len(d.wanted) \in Nat /\ Len(e.wanted) \in Nat /\ Len(e.wanted) >= Len(d.wanted)
  BY Tables DEF Core, RowsChanged
<1>2. DOMAIN d.listing \subseteq DOMAIN e.listing
  BY <1>1
<1>3. /\ \A o \in DOMAIN d.offer : d.offer[o].lrev \in Nat /\ d.offer[o].post \in Nat
      /\ \A l \in DOMAIN d.listing : d.listing[l].rev \in Nat /\ e.listing[l].rev \in Nat
  <2>1. /\ \A o \in DOMAIN d.offer : d.offer[o] \in OfferRow
        /\ \A l \in DOMAIN d.listing : d.listing[l] \in ListingRow
        /\ \A l \in DOMAIN e.listing : e.listing[l] \in ListingRow
    BY <1>1, Tables
  <2> QED
    BY <1>2, <2>1 DEF OfferRow, ListingRow
<1>4. Linked(e)
  <2> SUFFICES ASSUME NEW o \in DOMAIN d.offer
               PROVE  /\ d.offer[o].listing \in DOMAIN e.listing
                      /\ d.offer[o].lrev <= e.listing[d.offer[o].listing].rev
                      /\ d.offer[o].buyer # Seller(e, o)
                      /\ d.offer[o].proposer \in {d.offer[o].buyer, Seller(e, o)}
                      /\ d.offer[o].post \in 0 .. Len(e.wanted)
    BY <1>1 DEF Linked
  <2>1. /\ d.offer[o].listing \in DOMAIN d.listing
        /\ d.offer[o].lrev <= d.listing[d.offer[o].listing].rev
        /\ d.offer[o].buyer # Seller(d, o)
        /\ d.offer[o].proposer \in {d.offer[o].buyer, Seller(d, o)}
        /\ d.offer[o].post \in 0 .. Len(d.wanted)
    BY DEF Core, Linked
  <2>2. /\ e.listing[d.offer[o].listing].seller = d.listing[d.offer[o].listing].seller
        /\ e.listing[d.offer[o].listing].rev >= d.listing[d.offer[o].listing].rev
    BY <2>1 DEF RowsChanged
  <2>3. Seller(e, o) = Seller(d, o)
    BY <1>1, <2>2 DEF Seller
  <2>4. d.offer[o].lrev <= e.listing[d.offer[o].listing].rev
    BY <1>3, <2>1, <2>2
  <2>5. d.offer[o].post \in 0 .. Len(e.wanted)
    BY <1>1, <1>3, <2>1
  <2> QED
    BY <1>2, <2>1, <2>3, <2>4, <2>5
<1>5. Agreed(e)
  <2>1. AgreedPairs(d)
    BY AgreedSays
  <2>2. ASSUME NEW l \in DOMAIN e.listing, e.listing[l].status = "agreed"
        PROVE  \E o \in DOMAIN e.offer : e.offer[o].listing = l /\ e.offer[o].status = "accepted"
    <3>1. l \in DOMAIN d.listing /\ d.listing[l].status = "agreed"
      BY <2>2 DEF RowsChanged
    <3> QED
      BY <1>1, <2>1, <3>1 DEF AgreedPairs, OfferAgrees, OffersApart
  <2>3. ASSUME NEW o \in DOMAIN d.offer PROVE OfferAgrees(e, o)
    <3>1. OfferAgrees(d, o) /\ d.offer[o].listing \in DOMAIN d.listing
      BY <2>1, AgreedOffer DEF OfferAgrees
    <3>2. d.offer[o].listing \in DOMAIN e.listing
      BY <1>2, <3>1
    <3>3. CASE d.offer[o].status = "ended"
      BY <1>1, <3>2, <3>3, EndedAgrees
    <3>4. CASE d.offer[o].status # "ended"
      <4>1. e.listing[d.offer[o].listing] = d.listing[d.offer[o].listing]
        BY <3>2, <3>4 DEF RowsChanged
      <4> QED
        BY <1>1, <3>1, <3>2, <4>1, SameOffer
    <3> QED
      BY <3>3, <3>4
  <2>4. \A o, x \in DOMAIN d.offer : o # x /\ d.offer[x].listing = d.offer[o].listing =>
             OffersApart(e, o, x)
    BY <1>1, <2>1 DEF AgreedPairs, OffersApart
  <2>5. AgreedPairs(e)
    BY <1>1, <2>2, <2>3, <2>4 DEF AgreedPairs
  <2> QED
    BY <2>5, AgreedBy
<1>6. Consented(e)
  <2>1. \A o \in DOMAIN d.offer : Seller(e, o) = Seller(d, o) /\ Terms(e, o) = Terms(d, o)
    BY <1>1 DEF Core, Linked, RowsChanged, Seller, Terms
  <2> QED
    BY <1>1, <2>1 DEF Core, Consented
<1> QED
  BY <1>4, <1>5, <1>6 DEF Core

\* Items change that are not for sale, and balances, preferences and posts.
LEMMA ItemsCore ==
    ASSUME NEW d, Core(d), NEW e, Typed(e), e.listing = d.listing, e.offer = d.offer,
           Len(e.wanted) >= Len(d.wanted),
           \A i \in Item : Sold(d, i) => /\ e.item[i].owner = d.item[i].owner
                                         /\ e.item[i].state = d.item[i].state
    PROVE  Core(e)
<1>1. Typed(d) /\ \A l \in DOMAIN d.listing : d.listing[l] \in ListingRow
  BY Tables DEF Core
<1>2. \A l \in DOMAIN d.listing : d.listing[l].rev \in Nat /\ d.listing[l].goods \subseteq Item
  BY <1>1 DEF ListingRow
<1>3. RowsChanged(d, e)
  <2>1. Len(d.listing) \in Nat
    BY <1>1, Tables
  <2> QED
    BY <1>2, <2>1 DEF RowsChanged
<1>4. Placed(e)
  <2>1. ASSUME NEW l \in DOMAIN d.listing, Active(e, l), NEW i \in d.listing[l].goods
        PROVE  Holds(e, d.listing[l].seller, i, Holding(d.listing[l]))
    <3>1. Active(d, l) /\ i \in Item
      BY <1>2, <2>1 DEF Active
    <3>2. Sold(d, i) /\ Holds(d, d.listing[l].seller, i, Holding(d.listing[l]))
      BY <2>1, <3>1 DEF Sold, Core, Placed
    <3> QED
      BY <3>1, <3>2 DEF Holds
  <2> QED
    BY <2>1 DEF Core, Placed, Active
<1> QED
  BY <1>3, <1>4, RowsCore

\* ... and what is for sale, and where an item waits.
LEMMA ItemsSales ==
    ASSUME NEW d, NEW e, e.listing = d.listing, NEW Y, Exclusive(d, Y), NEW X, NEW X2,
           ForSale(d, X),
           \A i \in Item : IF i \in X2 THEN ~Sold(d, i)
                           ELSE e.item[i].state = "listed" => d.item[i].state = "listed" /\ i \notin X
    PROVE  Exclusive(e, Y) /\ ForSale(e, X2)
  BY DEF Exclusive, ForSale, Sold, Active

\* One offer is added or changed; it is pending, or ends.
OfferChanged(d, e, o) ==
    /\ e.listing = d.listing /\ e.item = d.item /\ Len(e.wanted) = Len(d.wanted)
    /\ o \in DOMAIN e.offer /\ DOMAIN d.offer \subseteq DOMAIN e.offer
    /\ \A x \in DOMAIN e.offer \ {o} : x \in DOMAIN d.offer /\ e.offer[x] = d.offer[x]
    /\ o \in DOMAIN d.offer => d.offer[o].status = "pending"
    /\ LET f == e.offer[o]
       IN  /\ f.listing \in DOMAIN d.listing /\ f.lrev <= d.listing[f.listing].rev
           /\ f.buyer # d.listing[f.listing].seller
           /\ f.proposer \in {f.buyer, d.listing[f.listing].seller}
           /\ f.post \in 0 .. Len(d.wanted)
           /\ \/ f.status = "ended"
              \/ /\ f.status = "pending" /\ f.signed[f.proposer] = Last(f.terms)
                 /\ \/ d.listing[f.listing].status = "open" /\ f.lrev = d.listing[f.listing].rev
                    \/ o \in DOMAIN d.offer /\ f.lrev = d.offer[o].lrev
                       /\ f.listing = d.offer[o].listing

LEMMA OfferCore ==
    ASSUME NEW d, Core(d), NEW e, Typed(e), NEW o, OfferChanged(d, e, o)
    PROVE  Core(e)
<1>1. Linked(e)
  BY Zenon DEF Core, Linked, OfferChanged, Seller
<1>2. Placed(e)
  <2>1. Placed(d) /\ e.listing = d.listing /\ e.item = d.item
    BY DEF Core, OfferChanged
  <2>2. \A l : Active(e, l) <=> Active(d, l)
    BY <2>1 DEF Active
  <2>3. \A p, i, set : Holds(e, p, i, set) <=> Holds(d, p, i, set)
    BY <2>1 DEF Holds
  <2> QED
    BY <2>1, <2>2, <2>3 DEF Placed
<1>3. Agreed(e)
  <2>1. AgreedPairs(d)
    BY AgreedSays
  <2>2. /\ e.listing = d.listing /\ o \in DOMAIN e.offer
        /\ \A x \in DOMAIN d.offer : x \in DOMAIN e.offer
        /\ \A x \in DOMAIN e.offer : x # o => x \in DOMAIN d.offer /\ e.offer[x] = d.offer[x]
        /\ o \in DOMAIN d.offer => d.offer[o].status = "pending"
        /\ e.offer[o].listing \in DOMAIN d.listing
    BY DEF OfferChanged
  <2>3. \/ e.offer[o].status = "ended"
        \/ /\ e.offer[o].status = "pending"
           /\ \/ /\ d.listing[e.offer[o].listing].status = "open"
                 /\ e.offer[o].lrev = d.listing[e.offer[o].listing].rev
              \/ /\ o \in DOMAIN d.offer /\ e.offer[o].lrev = d.offer[o].lrev
                 /\ e.offer[o].listing = d.offer[o].listing
    BY DEF OfferChanged
  <2>4. ASSUME NEW l \in DOMAIN e.listing, e.listing[l].status = "agreed"
        PROVE  \E x \in DOMAIN e.offer : e.offer[x].listing = l /\ e.offer[x].status = "accepted"
    <3>1. PICK x \in DOMAIN d.offer : d.offer[x].listing = l /\ d.offer[x].status = "accepted"
      BY <2>1, <2>2, <2>4 DEF AgreedPairs, OfferAgrees, OffersApart
    <3> QED
      BY <2>2, <3>1
  <2>5. OfferAgrees(e, o)
    <3>1. CASE e.offer[o].status = "ended"
      BY <2>2, <3>1, EndedAgrees
    <3>2. CASE /\ e.offer[o].status = "pending" /\ d.listing[e.offer[o].listing].status = "open"
               /\ e.offer[o].lrev = d.listing[e.offer[o].listing].rev
      BY <2>2, <3>2 DEF OfferAgrees
    <3>3. CASE /\ e.offer[o].status = "pending" /\ o \in DOMAIN d.offer
               /\ e.offer[o].lrev = d.offer[o].lrev /\ e.offer[o].listing = d.offer[o].listing
      <4>1. OfferAgrees(d, o) /\ d.offer[o].status = "pending"
        BY <2>1, <2>2, <3>3, AgreedOffer
      <4> QED
        BY <2>2, <3>3, <4>1 DEF OfferAgrees
    <3> QED
      BY <2>3, <3>1, <3>2, <3>3
  <2>6. ASSUME NEW x \in DOMAIN e.offer, x # o, e.offer[x].status = "completed",
               e.offer[o].listing = e.offer[x].listing
        PROVE  e.offer[o].status = "ended"
    <3>1. x \in DOMAIN d.offer /\ e.offer[x] = d.offer[x]
      BY <2>2, <2>6
    <3>2. d.listing[e.offer[x].listing].status = "sold"
      BY <2>1, <2>6, <3>1, AgreedOffer DEF OfferAgrees
    <3>3. CASE e.offer[o].status = "pending" /\ d.listing[e.offer[o].listing].status = "open"
      BY <2>6, <3>2, <3>3
    <3>4. CASE o \in DOMAIN d.offer /\ e.offer[o].listing = d.offer[o].listing
      <4>1. OffersApart(d, x, o)
        BY <2>1, <2>6, <3>1, <3>4, AgreedApart
      <4>2. d.offer[o].status = "ended"
        BY <2>6, <3>1, <4>1 DEF OffersApart
      <4> QED
        BY <2>2, <3>4, <4>2
    <3> QED
      BY <2>3, <3>3, <3>4
  <2>8. ASSUME NEW x \in DOMAIN e.offer
        PROVE  OfferAgrees(e, x)
    <3>1. CASE x = o
      BY <2>5, <3>1
    <3>2. CASE x # o
      <4>1. x \in DOMAIN d.offer /\ e.offer[x] = d.offer[x]
        BY <2>2, <3>2
      <4>2. OfferAgrees(d, x) /\ d.offer[x].listing \in DOMAIN d.listing
        BY <2>1, <4>1, AgreedOffer DEF OfferAgrees
      <4> QED
        BY <2>2, <4>1, <4>2, SameOffer
    <3> QED
      BY <3>1, <3>2
  <2>9. ASSUME NEW y \in DOMAIN e.offer, NEW x \in DOMAIN e.offer, y # x,
               e.offer[x].listing = e.offer[y].listing
        PROVE  OffersApart(e, y, x)
    <3>1. CASE y = o
      <4>1. e.offer[o].status \notin {"accepted", "completed"}
        BY <2>3
      <4> QED
        BY <3>1, <4>1 DEF OffersApart
    <3>2. CASE x = o
      <4>1. e.offer[o].status # "accepted"
        BY <2>3
      <4>2. e.offer[y].status = "completed" => e.offer[o].status = "ended"
        BY <2>6, <2>9, <3>2
      <4> QED
        BY <3>2, <4>1, <4>2 DEF OffersApart
    <3>3. CASE y # o /\ x # o
      <4>1. /\ y \in DOMAIN d.offer /\ e.offer[y] = d.offer[y]
            /\ x \in DOMAIN d.offer /\ e.offer[x] = d.offer[x]
        BY <2>2, <3>3
      <4>2. OffersApart(d, y, x)
        BY <2>1, <2>9, <4>1, AgreedApart
      <4> QED
        BY <4>1, <4>2, SameApart
    <3> QED
      BY <3>1, <3>2, <3>3
  <2>7. AgreedPairs(e)
    BY <2>4, <2>8, <2>9 DEF AgreedPairs
  <2> QED
    BY <2>7, AgreedBy
<1>4. Consented(e)
  <2>1. Consented(d) /\ e.listing = d.listing
    BY DEF Core, OfferChanged
  <2>2. \A x \in DOMAIN e.offer \ {o} : x \in DOMAIN d.offer /\ e.offer[x] = d.offer[x]
    BY DEF OfferChanged
  <2>3. \/ e.offer[o].status = "ended"
        \/ e.offer[o].status = "pending"
           /\ e.offer[o].signed[e.offer[o].proposer] = Terms(e, o)
    BY DEF OfferChanged, Terms
  <2> SUFFICES ASSUME NEW x \in DOMAIN e.offer PROVE Consents(e, x)
    BY ConsentedIs
  <2>4. CASE x = o
    BY <2>3, <2>4 DEF Consents
  <2>5. CASE x # o
    <3>1. x \in DOMAIN d.offer /\ e.offer[x] = d.offer[x]
      BY <2>2, <2>5
    <3>2. Seller(e, x) = Seller(d, x)
      BY <2>1, <3>1 DEF Seller
    <3>3. Consents(d, x)
      BY <2>1, <3>1, ConsentedIs, Zenon
    <3> QED
      BY <3>1, <3>2, <3>3, SameConsents
  <2> QED
    BY <2>4, <2>5
<1> QED
  BY <1>1, <1>2, <1>3, <1>4, Zenon DEF Core

\* It leaves the sales as they were, and no other offer becomes ready.
LEMMA OfferSales ==
    ASSUME NEW d, NEW e, NEW o, OfferChanged(d, e, o), NEW Y, NEW X, Exclusive(d, Y), ForSale(d, X)
    PROVE  Exclusive(e, Y) /\ ForSale(e, X)
  BY Zenon DEF OfferChanged, Exclusive, ForSale, Sold, Active

LEMMA OfferReady ==
    ASSUME NEW d, NEW e, NEW o, OfferChanged(d, e, o), e.auto = d.auto, e.gold = d.gold,
           NEW x \in DOMAIN e.offer, x # o, Ready(e, x)
    PROVE  x \in DOMAIN d.offer /\ e.offer[x] = d.offer[x] /\ Ready(d, x)
<1>1. x \in DOMAIN d.offer /\ e.offer[x] = d.offer[x] /\ e.listing = d.listing /\ e.item = d.item
  BY DEF OfferChanged
<1>2. Unhelped(d, e, x, x)
  BY <1>1 DEF Unhelped, Terms, Holds
<1> QED
  BY <1>1, <1>2, ReadyWas

-------------------------------------------------------------------------------
(***************************************************************************)
(* A trade settles.                                                        *)
(***************************************************************************)
\* Induction over the natural numbers, for a set of them.
LEMMA NatSet ==
    ASSUME NEW T, 0 \in T, \A n \in Nat : n \in T => n + 1 \in T
    PROVE  \A n \in Nat : n \in T
<1> DEFINE Out == Nat \ T
<1> SUFFICES ASSUME Out # {} PROVE FALSE
  OBVIOUS
<1> DEFINE Lt == {ss \in Nat \X Nat : ss[1] < ss[2]}
<1>1. \A m, n \in Nat : m < n => <<m, n>> \in Lt
  OBVIOUS
<1>2. IsWellFoundedOn(Lt, Nat)
  BY NatLessThanWellFounded DEF OpToRel
<1>3. PICK n \in Out : \A m \in Out : <<m, n>> \notin Lt
  <2> HIDE DEF Lt
  <2>1. Out \subseteq Nat
    OBVIOUS
  <2> HIDE DEF Out
  <2> QED
    BY <1>2, <2>1, WFMin
<1> HIDE DEF Lt
<1>4. n # 0 /\ n \in Nat
  OBVIOUS
<1>5. n - 1 \in Nat /\ n - 1 < n
  BY <1>4
<1>6. n - 1 \in T
  BY <1>1, <1>3, <1>4, <1>5
<1>7. (n - 1) + 1 \in T
  BY <1>5, <1>6
<1> QED
  BY <1>4, <1>7

\* A set of natural numbers has a least one.
LEMMA LeastIs ==
    ASSUME NEW S \in SUBSET Nat, S # {}
    PROVE  Min(S) \in S
<1> DEFINE Lt == {ss \in Nat \X Nat : ss[1] < ss[2]}
<1>1. \A m, n \in Nat : m < n => <<m, n>> \in Lt
  OBVIOUS
<1>2. IsWellFoundedOn(Lt, Nat)
  BY NatLessThanWellFounded DEF OpToRel
<1> HIDE DEF Lt
<1>3. PICK n \in S : \A m \in S : <<m, n>> \notin Lt
  BY <1>2, WFMin
<1>4. ASSUME NEW m \in S PROVE n <= m
  <2>1. m \in Nat /\ n \in Nat /\ ~(m < n)
    BY <1>1, <1>3
  <2> QED
    BY <2>1
<1> QED
  BY <1>3, <1>4 DEF Min

LEMMA Numbered == Item = 1 .. Len(Kind) /\ Len(Kind) \in Nat /\ Item \subseteq Nat
<1>1. Kind \in Seq(Kinds)
  BY DEF MarketAssumption
<1> QED
  BY <1>1, SeqIs DEF Item

\* The payment of an offer that can pay: available items of its buyer.
LEMMA AllocationIs ==
    ASSUME NEW d, NEW p, NEW price, Funded(d, p, price)
    PROVE  /\ d.gold[p] >= price.gold
           /\ Allocation(d, p, price) \subseteq Item
           /\ \A i \in Allocation(d, p, price) : Holds(d, p, i, {"available"})
<1>1. Funding(d, p, price.kind) \subseteq Item
      /\ \A i \in Funding(d, p, price.kind) : Holds(d, p, i, {"available"})
  BY DEF Funding
<1>2. ASSUME price.kind # None
      PROVE  Min(Funding(d, p, price.kind)) \in Funding(d, p, price.kind)
  BY <1>1, <1>2, Numbered, LeastIs DEF Funded
<1> QED
  BY <1>1, <1>2 DEF Allocation, Funded

\* The rows of a trade.
LEMMA RowsOf ==
    ASSUME NEW d, Core(d), NEW o \in DOMAIN d.offer
    PROVE  /\ d.offer[o] \in OfferRow /\ d.offer[o].listing \in DOMAIN d.listing
           /\ d.listing[d.offer[o].listing] \in ListingRow
           /\ Seller(d, o) \in Players /\ d.offer[o].buyer \in Players
           /\ Seller(d, o) # d.offer[o].buyer
           /\ Terms(d, o) \in Price /\ Terms(d, o).gold \in Nat
           /\ Goods(d, o) \subseteq Item
<1>1. /\ d.offer[o] \in OfferRow /\ d.offer[o].listing \in DOMAIN d.listing
      /\ d.listing[d.offer[o].listing] \in ListingRow /\ Seller(d, o) # d.offer[o].buyer
  BY Tables DEF Core, Linked
<1>2. Terms(d, o) \in Price
  <2>1. d.offer[o].terms \in Seq(Price) /\ d.offer[o].terms # <<>>
    BY <1>1 DEF OfferRow
  <2> QED
    BY <2>1, EmptySeq, SeqIs DEF Last, Terms
<1>3. \A t \in Price : t.gold \in Nat
  BY DEF Price, Free, MarketAssumption
<1> QED
  BY <1>1, <1>2, <1>3 DEF OfferRow, ListingRow, Seller, Goods

LEMMA ApproveIs ==
    ASSUME NEW d, Core(d), NEW o \in DOMAIN d.offer, Ready(d, o)
    PROVE  /\ Approve(d, o) \in OfferRow
           /\ Approve(d, o).listing = d.offer[o].listing /\ Approve(d, o).lrev = d.offer[o].lrev
           /\ Approve(d, o).buyer = d.offer[o].buyer
           /\ Approve(d, o).proposer = d.offer[o].proposer
           /\ Approve(d, o).post = d.offer[o].post /\ Approve(d, o).terms = d.offer[o].terms
           /\ Approve(d, o).signed[Seller(d, o)] = Terms(d, o)
           /\ \/ Approve(d, o).signed[d.offer[o].buyer] = Terms(d, o)
              \/ Terms(d, o) = Free
<1> DEFINE f == d.offer[o]
           s == Seller(d, o)
           a == d.listing[f.listing].ask
           g == [f.signed EXCEPT ![s] = a]
<1>1. /\ f \in OfferRow /\ s \in Players /\ f.buyer \in Players /\ s # f.buyer
      /\ Terms(d, o) \in Price
  BY RowsOf
<1>2. CASE f.status = "pending"
  <2>1. /\ d.auto[s] \/ Terms(d, o) = Free
        /\ f.proposer = f.buyer /\ a = Terms(d, o)
    BY <1>2, Zenon DEF Ready, Approved, Seller
  <2>2. Approve(d, o) = [f EXCEPT !.signed = g]
    BY <1>2, <2>1, Zenon DEF Approve, Seller
  <2>3. f.signed \in [Players -> Price \cup {None}]
    BY <1>1 DEF OfferRow
  <2>4. g \in [Players -> Price \cup {None}] /\ g[s] = Terms(d, o) /\ g[f.buyer] = f.signed[f.buyer]
    BY <1>1, <2>1, <2>3
  <2>5. f.signed[f.buyer] = Terms(d, o)
    BY <1>2, <2>1 DEF Core, Consented
  <2> HIDE DEF g
  <2>6. [f EXCEPT !.signed = g] \in OfferRow
    BY <1>1, <2>4 DEF OfferRow
  <2> QED
    BY <1>1, <2>2, <2>4, <2>5, <2>6 DEF OfferRow
<1>3. CASE f.status # "pending"
  <2>1. f.status = "accepted" /\ Approve(d, o) = f
    BY <1>3 DEF Ready, Live, Approve
  <2> QED
    BY <1>1, <2>1 DEF Core, Consented
<1> QED
  BY <1>2, <1>3

-------------------------------------------------------------------------------
\* What a settlement changes.
SettledParts(d, e, o) ==
    LET l == d.offer[o].listing
        s == Seller(d, o)
        b == d.offer[o].buyer
        paid == Allocation(d, b, Terms(d, o))
    IN  /\ Typed(e) /\ e.auto = d.auto /\ Len(e.wanted) = Len(d.wanted)
        /\ DOMAIN e.listing = DOMAIN d.listing /\ DOMAIN e.offer = DOMAIN d.offer
        /\ Len(e.offer) = Len(d.offer)
        /\ \A p \in Players : p # s /\ p # b => e.gold[p] = d.gold[p]
        /\ \A i \in Item :
             e.item[i] = IF i \in paid
                         THEN [d.item[i] EXCEPT !.owner = s, !.keeper = s, !.wants = TRUE]
                         ELSE IF i \in Goods(d, o)
                         THEN [owner |-> b, keeper |-> b, state |-> "available", wants |-> TRUE]
                         ELSE d.item[i]
        /\ \A m \in DOMAIN d.listing :
             e.listing[m] = IF m = l THEN Revised(d.listing[l], "sold") ELSE d.listing[m]
        /\ e.offer[o] = Closed(Approve(d, o), "completed")
        /\ \A x \in DOMAIN d.offer : x # o =>
             e.offer[x] = IF d.offer[x].listing = l /\ Live(d, x) THEN Ended(d.offer[x])
                          ELSE d.offer[x]

LEMMA SettledIs ==
    ASSUME NEW d, Core(d), NEW o \in DOMAIN d.offer, Ready(d, o)
    PROVE  SettledParts(d, Settled(d, o), o)
<1> DEFINE e == Settled(d, o)
           l == d.offer[o].listing
           s == Seller(d, o)
           b == d.offer[o].buyer
           g == Terms(d, o).gold
           paid == Allocation(d, b, Terms(d, o))
           i0 == InvalidateOffers(d, {l}, o)
           qg == Paid(d, b, s, g)
           qi == Exchanged(d, o)
           ql == [i0.listing EXCEPT ![l] = Revised(@, "sold")]
           qo == [i0.offer EXCEPT ![o] = Closed(Approve(d, o), "completed")]
           qw == Fulfilled(i0.wanted, d.offer[o].post)
<1>1. /\ Typed(d) /\ l \in DOMAIN d.listing /\ s \in Players /\ b \in Players /\ s # b
      /\ g \in Nat /\ Goods(d, o) \subseteq Item
  BY RowsOf DEF Core
<1>2. d.gold[b] >= g /\ paid \subseteq Item /\ \A i \in paid : Holds(d, b, i, {"available"})
  BY AllocationIs DEF Ready
<1>3. /\ Typed(i0) /\ i0.item = d.item /\ i0.gold = d.gold /\ i0.auto = d.auto
      /\ i0.listing = d.listing /\ i0.wanted = d.wanted
      /\ DOMAIN i0.offer = DOMAIN d.offer
      /\ \A x \in DOMAIN d.offer :
           IF d.offer[x].listing \in {l} /\ Live(d, x) /\ x # o
           THEN i0.offer[x] = Ended(d.offer[x]) ELSE i0.offer[x] = d.offer[x]
  BY <1>1, Invalidated DEF Same
<1>4. e = [i0 EXCEPT !.gold = qg, !.item = qi, !.listing = ql, !.offer = qo, !.wanted = qw]
  <2> HIDE DEF i0
  <2> QED
    BY DEF Settled, i0
<1> HIDE DEF i0, e
<1>5. qg \in [Players -> Nat] /\ \A p \in Players \ {s, b} : qg[p] = d.gold[p]
  <2>1. d.gold \in [Players -> Nat]
    BY <1>1, Tables
  <2> HIDE DEF b, s, g
  <2>2. d.gold[b] \in Nat /\ d.gold[s] \in Nat
    BY <1>1, <2>1
  <2>3. d.gold[b] - g \in Nat /\ d.gold[s] + g \in Nat
    BY <1>1, <1>2, <2>2
  <2>4. qg = [[d.gold EXCEPT ![b] = d.gold[b] - g] EXCEPT ![s] = d.gold[s] + g]
    BY <1>1, <1>3, <2>1 DEF Paid
  <2> HIDE DEF qg
  <2>5. [d.gold EXCEPT ![b] = d.gold[b] - g] \in [Players -> Nat]
    BY <2>1, <2>3
  <2>6. qg \in [Players -> Nat]
    BY <2>3, <2>4, <2>5
  <2> QED
    BY <2>1, <2>4, <2>6
<1>10. \A i \in Item : qi[i] = IF i \in paid
                                THEN [d.item[i] EXCEPT !.owner = s, !.keeper = s, !.wants = TRUE]
                                ELSE IF i \in Goods(d, o)
                                THEN [owner |-> b, keeper |-> b, state |-> "available",
                                      wants |-> TRUE]
                                ELSE d.item[i]
  BY <1>3 DEF Exchanged
<1>6. qi \in [Item -> ItemRow]
  <2>1. d.item \in [Item -> ItemRow]
    BY <1>1, Tables
  <2>2. qi = [i \in Item |-> qi[i]]
    BY DEF Exchanged
  <2> HIDE DEF b, s, paid, qi
  <2> SUFFICES ASSUME NEW i \in Item PROVE qi[i] \in ItemRow
    BY <2>2
  <2>3. d.item[i] \in ItemRow
    BY <2>1
  <2>4. [d.item[i] EXCEPT !.owner = s, !.keeper = s, !.wants = TRUE] \in ItemRow
    BY <1>1, <2>3 DEF ItemRow
  <2>5. [owner |-> b, keeper |-> b, state |-> "available", wants |-> TRUE] \in ItemRow
    BY <1>1 DEF ItemRow
  <2> QED
    BY <1>10, <2>3, <2>4, <2>5
<1>7. ql \in Seq(ListingRow) /\ DOMAIN ql = DOMAIN d.listing
      /\ \A m \in DOMAIN d.listing :
            ql[m] = IF m = l THEN Revised(d.listing[l], "sold") ELSE d.listing[m]
  <2>1. /\ Len(d.listing) \in Nat /\ DOMAIN d.listing = 1 .. Len(d.listing)
        /\ \A m \in DOMAIN d.listing : d.listing[m] \in ListingRow
    BY <1>1, Tables
  <2>2. DOMAIN ql = DOMAIN d.listing /\ ql = [m \in DOMAIN ql |-> ql[m]]
      /\ \A m \in DOMAIN d.listing :
            ql[m] = IF m = l THEN Revised(d.listing[l], "sold") ELSE d.listing[m]
    BY <1>1, <1>3
  <2> HIDE DEF ql, l
  <2>4. l \in DOMAIN d.listing => Revised(d.listing[l], "sold") \in ListingRow
    BY <2>1, RevisedRow
  <2>3. \A m \in DOMAIN ql : ql[m] \in ListingRow
    BY <2>1, <2>2, <2>4
  <2> QED
    BY <2>1, <2>2, <2>3, SeqBy
<1>8. qo \in Seq(OfferRow) /\ DOMAIN qo = DOMAIN d.offer /\ Len(qo) = Len(d.offer)
      /\ qo[o] = Closed(Approve(d, o), "completed")
      /\ \A x \in DOMAIN d.offer \ {o} :
           qo[x] = IF d.offer[x].listing = l /\ Live(d, x) THEN Ended(d.offer[x]) ELSE d.offer[x]
  <2>1. /\ Len(d.offer) \in Nat /\ DOMAIN d.offer = 1 .. Len(d.offer)
        /\ \A x \in DOMAIN i0.offer : i0.offer[x] \in OfferRow
    BY <1>1, <1>3, Tables
  <2>2. DOMAIN qo = DOMAIN d.offer /\ qo = [x \in DOMAIN qo |-> qo[x]]
        /\ qo[o] = Closed(Approve(d, o), "completed")
        /\ \A x \in DOMAIN d.offer \ {o} : qo[x] = i0.offer[x]
    BY <1>3
  <2>5. DOMAIN qo = 1 .. Len(d.offer)
    BY <2>1, <2>2
  <2>3. Closed(Approve(d, o), "completed") \in OfferRow
    BY ApproveIs, ClosedOffer DEF OfferStatus
  <2> HIDE DEF qo, l
  <2>4. \A x \in DOMAIN qo : qo[x] \in OfferRow
    BY <1>3, <2>1, <2>2, <2>3
  <2> QED
    <3>1. qo \in Seq(OfferRow) /\ Len(qo) = Len(d.offer)
      BY <2>1, <2>2, <2>4, <2>5, SeqBy
    <3> QED
      BY <1>3, <2>2, <3>1
<1>9. qw \in Seq(PostRow) /\ Len(qw) = Len(d.wanted)
  <2>1. /\ Len(d.wanted) \in Nat /\ DOMAIN d.wanted = 1 .. Len(d.wanted)
        /\ \A w \in DOMAIN d.wanted : d.wanted[w] \in PostRow
    BY <1>1, Tables
  <2>3. DOMAIN qw = 1 .. Len(d.wanted) /\ qw = [w \in DOMAIN qw |-> qw[w]]
    BY <1>3, <2>1 DEF Fulfilled
  <2>2. ASSUME NEW w \in DOMAIN qw PROVE qw[w] \in PostRow
    <3>1. d.wanted[w] \in PostRow
      BY <1>3, <2>1, <2>3
    <3>2. qw[w] = d.wanted[w] \/ qw[w] = [d.wanted[w] EXCEPT !.status = "fulfilled"]
      BY <1>3, <2>1, <2>3 DEF Fulfilled
    <3> HIDE DEF qw
    <3> QED
      BY <3>1, <3>2 DEF PostRow
  <2> HIDE DEF qw
  <2> QED
    BY <2>1, <2>2, <2>3, SeqBy
<1> HIDE DEF qg, qi, ql, qo, qw
<1>11. /\ Typed(e) /\ e.auto = d.auto /\ e.gold = qg /\ e.item = qi /\ e.listing = ql
       /\ e.offer = qo /\ e.wanted = qw
  BY <1>3, <1>4, <1>5, <1>6, <1>7, <1>8, <1>9 DEF Typed, Database
<1> QED
  BY <1>5, <1>7, <1>8, <1>9, <1>10, <1>11 DEF e, SettledParts

-------------------------------------------------------------------------------
\* An item for sale is where its listing says.
LEMMA SoldHolds ==
    ASSUME NEW d, Core(d), NEW l \in DOMAIN d.listing, Active(d, l), NEW i \in d.listing[l].goods
    PROVE  /\ i \in Item /\ Sold(d, i)
           /\ Holds(d, d.listing[l].seller, i, Holding(d.listing[l]))
           /\ d.item[i].state \in {"listed", "local", "delivered"}
           /\ d.listing[l].spot = 0 <=> d.item[i].state = "listed"
<1>1. d.listing[l] \in ListingRow
  BY Tables DEF Core
<1>2. i \in Item
  BY <1>1 DEF ListingRow
<1>3. Holds(d, d.listing[l].seller, i, Holding(d.listing[l]))
  BY DEF Core, Placed
<1> QED
  BY <1>2, <1>3 DEF Sold, Holds, Holding

\* The sales around a trade that settles, in the old and in the new tables.
TradeParties(d, e, o) ==
    LET l == d.offer[o].listing
        s == Seller(d, o)
        b == d.offer[o].buyer
    IN  /\ Typed(d) /\ Typed(e) /\ e.auto = d.auto /\ Len(e.wanted) = Len(d.wanted)
        /\ DOMAIN e.listing = DOMAIN d.listing /\ DOMAIN e.offer = DOMAIN d.offer
        /\ l \in DOMAIN d.listing /\ s # b /\ Active(d, l) /\ d.listing[l].spot = 0
        /\ s \in Players /\ b \in Players
        /\ \A p \in Players : p # s /\ p # b => e.gold[p] = d.gold[p]

TradeItems(d, e, o) ==
    LET s == Seller(d, o)
        b == d.offer[o].buyer
        paid == Allocation(d, b, Terms(d, o))
    IN  /\ \A i \in paid : i \in Item /\ ~Sold(d, i) /\ e.item[i].owner = s
                           /\ e.item[i].state = "available" /\ Holds(d, b, i, {"available"})
        /\ \A i \in Goods(d, o) : i \in Item /\ e.item[i].owner = b
                           /\ e.item[i].state = "available" /\ Holds(d, s, i, {"listed"})
        /\ \A i \in Item : i \notin paid /\ i \notin Goods(d, o) => e.item[i] = d.item[i]

TradeRows(d, e, l) ==
    /\ \A m \in DOMAIN d.listing : m # l => e.listing[m] = d.listing[m]
    /\ e.listing[l].status = "sold" /\ e.listing[l].rev >= d.listing[l].rev
    /\ e.listing[l].goods = d.listing[l].goods /\ e.listing[l].root = d.listing[l].root
    /\ e.listing[l].spot = d.listing[l].spot /\ e.listing[l].seller = d.listing[l].seller

TradeOffers(d, e, o) ==
    LET l == d.offer[o].listing
    IN  /\ \A x \in DOMAIN d.offer :
             /\ e.offer[x].listing = d.offer[x].listing /\ e.offer[x].lrev = d.offer[x].lrev
             /\ e.offer[x].buyer = d.offer[x].buyer /\ e.offer[x].proposer = d.offer[x].proposer
             /\ e.offer[x].post = d.offer[x].post
             /\ x # o => IF d.offer[x].listing = l /\ Live(d, x) THEN e.offer[x].status = "ended"
                         ELSE e.offer[x] = d.offer[x]
        /\ e.offer[o].status = "completed" /\ Terms(e, o) = Terms(d, o)
        /\ e.offer[o].signed[Seller(d, o)] = Terms(d, o)
        /\ e.offer[o].signed[d.offer[o].buyer] = Terms(d, o) \/ Terms(d, o) = Free

Trade(d, e, o) == /\ TradeParties(d, e, o) /\ TradeItems(d, e, o)
                  /\ TradeRows(d, e, d.offer[o].listing) /\ TradeOffers(d, e, o)

LEMMA SettledTrade ==
    ASSUME NEW d, Core(d), NEW o \in DOMAIN d.offer, Ready(d, o)
    PROVE  Trade(d, Settled(d, o), o)
<1> DEFINE e == Settled(d, o)
           l == d.offer[o].listing
           s == Seller(d, o)
           b == d.offer[o].buyer
           paid == Allocation(d, b, Terms(d, o))
<1>1. /\ Typed(d) /\ l \in DOMAIN d.listing /\ s # b /\ Goods(d, o) \subseteq Item
      /\ d.listing[l] \in ListingRow /\ s \in Players /\ b \in Players
  BY RowsOf DEF Core
<1>2. Active(d, l) /\ \A i \in Goods(d, o) : Holds(d, s, i, {"listed"})
  BY ReadyActive DEF Ready, Goods, Seller
<1>3. d.listing[l].spot = 0
  <2>1. d.listing[l].root \in d.listing[l].goods
    BY <1>1 DEF Core, Placed
  <2>2. d.item[d.listing[l].root].state = "listed"
    BY <1>2, <2>1 DEF Holds, Goods
  <2> QED
    BY <1>1, <1>2, <2>1, <2>2, SoldHolds
<1>4. paid \subseteq Item /\ \A i \in paid : Holds(d, b, i, {"available"})
  BY AllocationIs DEF Ready
<1>5. ASSUME NEW i \in paid PROVE ~Sold(d, i)
  <2>1. d.item[i].state = "available"
    BY <1>4 DEF Holds
  <2> QED
    BY <2>1, SoldHolds DEF Sold
<1>20. SettledParts(d, e, o)
  BY SettledIs
<1> HIDE DEF e
<1>6. /\ Typed(e) /\ e.auto = d.auto /\ Len(e.wanted) = Len(d.wanted)
      /\ DOMAIN e.listing = DOMAIN d.listing /\ DOMAIN e.offer = DOMAIN d.offer
      /\ \A p \in Players : p # s /\ p # b => e.gold[p] = d.gold[p]
      /\ e.offer[o] = Closed(Approve(d, o), "completed")
  BY <1>20 DEF SettledParts
<1>21. /\ \A m \in DOMAIN d.listing : m # l => e.listing[m] = d.listing[m]
       /\ e.listing[l] = Revised(d.listing[l], "sold")
       /\ \A x \in DOMAIN d.offer : x # o =>
            e.offer[x] = IF d.offer[x].listing = l /\ Live(d, x) THEN Ended(d.offer[x])
                         ELSE d.offer[x]
  BY <1>1, <1>20 DEF SettledParts
<1>22. \A i \in Item :
          /\ i \in paid => e.item[i] = [d.item[i] EXCEPT !.owner = s, !.keeper = s, !.wants = TRUE]
          /\ i \notin paid /\ i \in Goods(d, o) =>
               e.item[i] = [owner |-> b, keeper |-> b, state |-> "available", wants |-> TRUE]
          /\ i \notin paid /\ i \notin Goods(d, o) => e.item[i] = d.item[i]
  BY <1>20 DEF SettledParts
<1> HIDE DEF l, s, b, paid
<1>7. ASSUME NEW i \in paid PROVE e.item[i].owner = s /\ e.item[i].state = "available" /\ i \in Item
  <2>1. d.item[i] \in ItemRow
    BY <1>1, <1>4, Tables
  <2>2. e.item[i] = [d.item[i] EXCEPT !.owner = s, !.keeper = s, !.wants = TRUE]
    BY <1>4, <1>22
  <2> QED
    BY <1>4, <2>1, <2>2 DEF ItemRow, Holds
<1>8. ASSUME NEW i \in Goods(d, o) PROVE e.item[i].owner = b /\ e.item[i].state = "available"
  <2>1. i \notin paid
    BY <1>2, <1>4, <1>8 DEF Holds
  <2>2. e.item[i] = [owner |-> b, keeper |-> b, state |-> "available", wants |-> TRUE]
    BY <1>1, <1>22, <1>8, <2>1
  <2> QED
    BY <2>2
<1>9. /\ e.listing[l].status = "sold" /\ e.listing[l].rev >= d.listing[l].rev
      /\ e.listing[l].goods = d.listing[l].goods /\ e.listing[l].root = d.listing[l].root
      /\ e.listing[l].spot = d.listing[l].spot /\ e.listing[l].seller = d.listing[l].seller
  <2>1. d.listing[l].rev \in Nat
    BY <1>1 DEF ListingRow
  <2> QED
    BY <1>1, <1>21, <2>1, RevisedRow
<1>10. /\ e.offer[o].listing = d.offer[o].listing /\ e.offer[o].lrev = d.offer[o].lrev
       /\ e.offer[o].buyer = d.offer[o].buyer /\ e.offer[o].proposer = d.offer[o].proposer
       /\ e.offer[o].post = d.offer[o].post
       /\ e.offer[o].status = "completed" /\ Terms(e, o) = Terms(d, o)
       /\ e.offer[o].signed[s] = Terms(d, o)
       /\ e.offer[o].signed[b] = Terms(d, o) \/ Terms(d, o) = Free
  <2>1. "completed" \in OfferStatus \cup {"ended"}
    BY DEF OfferStatus
  <2> DEFINE f == Approve(d, o)
  <2>2. /\ f \in OfferRow /\ f.listing = d.offer[o].listing /\ f.lrev = d.offer[o].lrev
        /\ f.buyer = d.offer[o].buyer /\ f.proposer = d.offer[o].proposer
        /\ f.post = d.offer[o].post /\ f.terms = d.offer[o].terms
        /\ f.signed[s] = Terms(d, o)
        /\ f.signed[b] = Terms(d, o) \/ Terms(d, o) = Free
    BY ApproveIs DEF s, b
  <2>3. e.offer[o] = Closed(f, "completed")
    BY <1>6
  <2> HIDE DEF f
  <2>4. /\ e.offer[o].status = "completed"
        /\ e.offer[o].listing = f.listing /\ e.offer[o].lrev = f.lrev
        /\ e.offer[o].buyer = f.buyer /\ e.offer[o].proposer = f.proposer
        /\ e.offer[o].post = f.post /\ e.offer[o].signed = f.signed
        /\ Last(e.offer[o].terms) = Last(f.terms)
    BY <2>1, <2>2, <2>3, ClosedOffer
  <2> QED
    BY <2>2, <2>4 DEF Terms
<1>11. ASSUME NEW x \in DOMAIN d.offer \ {o}
       PROVE  /\ e.offer[x].listing = d.offer[x].listing /\ e.offer[x].lrev = d.offer[x].lrev
              /\ e.offer[x].buyer = d.offer[x].buyer /\ e.offer[x].proposer = d.offer[x].proposer
              /\ e.offer[x].post = d.offer[x].post
              /\ IF d.offer[x].listing = l /\ Live(d, x) THEN e.offer[x].status = "ended"
                 ELSE e.offer[x] = d.offer[x]
  <2>1. d.offer[x] \in OfferRow
    BY <1>1, <1>11, Tables
  <2>2. /\ Ended(d.offer[x]).status = "ended"
        /\ Ended(d.offer[x]).listing = d.offer[x].listing
        /\ Ended(d.offer[x]).lrev = d.offer[x].lrev
        /\ Ended(d.offer[x]).buyer = d.offer[x].buyer
        /\ Ended(d.offer[x]).proposer = d.offer[x].proposer
        /\ Ended(d.offer[x]).post = d.offer[x].post
    BY <2>1, EndedOffer
  <2> QED
    BY <1>11, <1>21, <2>2
<1>12. TradeParties(d, e, o)
  BY <1>1, <1>2, <1>3, <1>6, Zenon DEF TradeParties, l, s, b
<1>13. TradeItems(d, e, o)
  BY <1>1, <1>2, <1>4, <1>5, <1>7, <1>8, <1>22 DEF TradeItems, s, b, paid
<1>14. TradeRows(d, e, l)
  BY <1>9, <1>21 DEF TradeRows
<1>15. TradeOffers(d, e, o)
  BY <1>10, <1>11, Zenon DEF TradeOffers, l, s, b
<1> QED
  BY <1>12, <1>13, <1>14, <1>15 DEF Trade, e, l

\* Nothing that is for sale elsewhere takes part in a trade.
LEMMA TradeApart ==
    ASSUME NEW d, Sound(d, {}), NEW e, NEW o, Trade(d, e, o),
           NEW m \in DOMAIN d.listing, Active(d, m), m # d.offer[o].listing,
           NEW i \in d.listing[m].goods
    PROVE  i \in Item /\ e.item[i] = d.item[i] /\ i \notin Goods(d, o)
<1>1. i \in Item /\ Sold(d, i)
  BY SoldHolds DEF Sound
<1>2. i \notin Goods(d, o)
  <2>1. Active(d, d.offer[o].listing) /\ d.offer[o].listing \in DOMAIN d.listing
    BY DEF Trade, TradeParties
  <2> QED
    BY <2>1 DEF Sound, Exclusive, Goods
<1>3. i \notin Allocation(d, d.offer[o].buyer, Terms(d, o))
  BY <1>1 DEF Trade, TradeItems
<1> QED
  BY <1>1, <1>2, <1>3 DEF Trade, TradeItems

LEMMA SettledSound ==
    ASSUME NEW d, Sound(d, {}), NEW o \in DOMAIN d.offer, Ready(d, o)
    PROVE  Sound(Settled(d, o), {})
<1> DEFINE e == Settled(d, o)
           l == d.offer[o].listing
<1>1. Core(d) /\ Trade(d, e, o)
  BY SettledTrade DEF Sound
<1> HIDE DEF e
<1>2. /\ Typed(d) /\ Typed(e) /\ Len(e.wanted) = Len(d.wanted)
      /\ DOMAIN e.listing = DOMAIN d.listing /\ DOMAIN e.offer = DOMAIN d.offer
      /\ l \in DOMAIN d.listing /\ d.listing[l].spot = 0 /\ Active(d, l)
      /\ \A m \in DOMAIN d.listing : m # l => e.listing[m] = d.listing[m]
      /\ e.listing[l].status = "sold" /\ e.listing[l].rev >= d.listing[l].rev
      /\ e.listing[l].goods = d.listing[l].goods /\ e.listing[l].root = d.listing[l].root
      /\ e.listing[l].spot = d.listing[l].spot /\ e.listing[l].seller = d.listing[l].seller
  BY <1>1, Zenon DEF Trade, TradeParties, TradeRows
<1>3. /\ \A x \in DOMAIN d.offer :
             /\ e.offer[x].listing = d.offer[x].listing /\ e.offer[x].lrev = d.offer[x].lrev
             /\ e.offer[x].buyer = d.offer[x].buyer /\ e.offer[x].proposer = d.offer[x].proposer
             /\ e.offer[x].post = d.offer[x].post
             /\ x # o => IF d.offer[x].listing = l /\ Live(d, x) THEN e.offer[x].status = "ended"
                         ELSE e.offer[x] = d.offer[x]
      /\ e.offer[o].status = "completed" /\ Terms(e, o) = Terms(d, o)
      /\ e.offer[o].signed[Seller(d, o)] = Terms(d, o)
      /\ e.offer[o].signed[d.offer[o].buyer] = Terms(d, o) \/ Terms(d, o) = Free
  BY <1>1, Zenon DEF Trade, TradeOffers
<1>12. \A x \in DOMAIN d.offer : e.offer[x].listing = d.offer[x].listing
  BY <1>3, Zenon
<1>13. e.offer[o].listing = l /\ e.offer[o].status = "completed"
  BY <1>3, Zenon DEF l
<1>4. \A m \in DOMAIN d.listing : Active(e, m) <=> Active(d, m) /\ m # l
  BY <1>2 DEF Active
<1>11. \A m \in DOMAIN d.listing :
           /\ e.listing[m].seller = d.listing[m].seller /\ e.listing[m].root = d.listing[m].root
           /\ e.listing[m].goods = d.listing[m].goods /\ e.listing[m].spot = d.listing[m].spot
           /\ e.listing[m].rev >= d.listing[m].rev
  <2>1. \A m \in DOMAIN d.listing : d.listing[m].rev \in Nat
    BY <1>2, Tables DEF ListingRow
  <2> HIDE DEF l
  <2> SUFFICES ASSUME NEW m \in DOMAIN d.listing
               PROVE  /\ e.listing[m].seller = d.listing[m].seller
                      /\ e.listing[m].root = d.listing[m].root
                      /\ e.listing[m].goods = d.listing[m].goods
                      /\ e.listing[m].spot = d.listing[m].spot
                      /\ e.listing[m].rev >= d.listing[m].rev
    OBVIOUS
  <2>2. CASE m = l
    BY <1>2, <2>2
  <2>3. CASE m # l
    <3>1. e.listing[m] = d.listing[m] /\ d.listing[m].rev \in Nat
      BY <1>2, <2>1, <2>3
    <3> QED
      BY <3>1
  <2> QED
    BY <2>2, <2>3
<1> HIDE DEF l
<1>5. Linked(e)
  <2> SUFFICES ASSUME NEW x \in DOMAIN d.offer
               PROVE  /\ e.offer[x].listing \in DOMAIN e.listing
                      /\ e.offer[x].lrev <= e.listing[e.offer[x].listing].rev
                      /\ e.offer[x].buyer # Seller(e, x)
                      /\ e.offer[x].proposer \in {e.offer[x].buyer, Seller(e, x)}
                      /\ e.offer[x].post \in 0 .. Len(e.wanted)
    BY <1>2 DEF Linked
  <2>1. /\ d.offer[x].listing \in DOMAIN d.listing
        /\ d.offer[x].lrev <= d.listing[d.offer[x].listing].rev
        /\ d.offer[x].buyer # Seller(d, x)
        /\ d.offer[x].proposer \in {d.offer[x].buyer, Seller(d, x)}
        /\ d.offer[x].post \in 0 .. Len(d.wanted)
    BY <1>1 DEF Core, Linked
  <2>2. d.offer[x].lrev \in Nat /\ d.listing[d.offer[x].listing].rev \in Nat
        /\ e.listing[d.offer[x].listing].rev \in Nat
    <3>1. d.offer[x] \in OfferRow /\ d.listing[d.offer[x].listing] \in ListingRow
          /\ e.listing[d.offer[x].listing] \in ListingRow
      BY <1>2, <2>1, Tables
    <3> QED
      BY <3>1 DEF OfferRow, ListingRow
  <2>3. /\ e.listing[d.offer[x].listing].seller = d.listing[d.offer[x].listing].seller
        /\ e.listing[d.offer[x].listing].rev >= d.listing[d.offer[x].listing].rev
    BY <1>11, <2>1, Zenon
  <2>4. Seller(e, x) = Seller(d, x)
    BY <1>3, <2>3, Zenon DEF Seller
  <2>6. e.offer[x].lrev = d.offer[x].lrev /\ e.offer[x].listing = d.offer[x].listing
    BY <1>3
  <2>5. e.offer[x].lrev <= e.listing[e.offer[x].listing].rev
    BY <2>1, <2>2, <2>3, <2>6
  <2> QED
    BY <1>2, <1>3, <2>1, <2>4, <2>5
<1>6. Placed(e)
  <2>1. ASSUME NEW m \in DOMAIN d.listing, Active(e, m), NEW i \in d.listing[m].goods
        PROVE  Holds(e, d.listing[m].seller, i, Holding(d.listing[m]))
    <3>1. Active(d, m) /\ m # l
      BY <1>4, <2>1
    <3>2. e.item[i] = d.item[i]
      BY <1>1, <3>1, TradeApart DEF l
    <3> QED
      BY <1>1, <3>1, <3>2, SoldHolds DEF Holds
  <2>2. \A m \in DOMAIN d.listing : Holding(e.listing[m]) = Holding(d.listing[m])
    BY <1>11 DEF Holding
  <2>3. ASSUME NEW m \in DOMAIN e.listing, e.listing[m].spot # 0, NEW n \in DOMAIN e.listing,
               e.listing[n].seller = e.listing[m].seller, e.listing[n].root = e.listing[m].root,
               e.listing[n].spot = e.listing[m].spot
        PROVE  n = m
    BY <1>1, <1>2, <1>11, <2>3 DEF Core, Placed
  <2>5. \A m \in DOMAIN e.listing : Active(e, m) => \A i \in e.listing[m].goods :
             Holds(e, e.listing[m].seller, i, Holding(e.listing[m]))
    BY <1>2, <1>11, <2>1, <2>2
  <2> SUFFICES ASSUME NEW m \in DOMAIN e.listing
               PROVE  /\ e.listing[m].root \in e.listing[m].goods
                      /\ e.listing[m].spot # 0 =>
                          /\ e.listing[m].goods = {e.listing[m].root}
                          /\ \A n \in DOMAIN e.listing :
                                /\ e.listing[n].seller = e.listing[m].seller
                                /\ e.listing[n].root = e.listing[m].root
                                /\ e.listing[n].spot = e.listing[m].spot
                                => n = m
                      /\ Active(e, m) => \A i \in e.listing[m].goods :
                              Holds(e, e.listing[m].seller, i, Holding(e.listing[m]))
    BY DEF Placed
  <2>6. e.listing[m].spot # 0 => \A n \in DOMAIN e.listing :
                                /\ e.listing[n].seller = e.listing[m].seller
                                /\ e.listing[n].root = e.listing[m].root
                                /\ e.listing[n].spot = e.listing[m].spot
                                => n = m
    BY <2>3
  <2>7. /\ e.listing[m].root \in e.listing[m].goods
        /\ e.listing[m].spot # 0 => e.listing[m].goods = {e.listing[m].root}
    BY <1>1, <1>2, <1>11 DEF Core, Placed
  <2>8. Active(e, m) => \A i \in e.listing[m].goods :
                              Holds(e, e.listing[m].seller, i, Holding(e.listing[m]))
    BY <2>5
  <2> QED
    BY <2>6, <2>7, <2>8
<1>7. Agreed(e)
  <2>1. AgreedPairs(d)
    BY <1>1, AgreedSays
  <2>2. ASSUME NEW m \in DOMAIN e.listing, e.listing[m].status = "agreed"
        PROVE  \E x \in DOMAIN e.offer : e.offer[x].listing = m /\ e.offer[x].status = "accepted"
    <3>1. m # l /\ d.listing[m].status = "agreed"
      BY <1>2, <2>2
    <3>2. PICK x \in DOMAIN d.offer : d.offer[x].listing = m /\ d.offer[x].status = "accepted"
      BY <1>2, <2>1, <3>1 DEF AgreedPairs, OfferAgrees, OffersApart
    <3>3. x # o
      BY <3>1, <3>2 DEF l
    <3>4. e.offer[x] = d.offer[x]
      BY <1>3, <3>1, <3>2, <3>3
    <3> QED
      BY <1>2, <3>2, <3>4
  <2>3. ASSUME NEW x \in DOMAIN d.offer, x # o
        PROVE  \/ e.offer[x].status = "ended"
               \/ /\ e.offer[x] = d.offer[x] /\ d.offer[x].listing # l
                  /\ e.listing[d.offer[x].listing] = d.listing[d.offer[x].listing]
    <3>1. CASE d.offer[x].listing = l
      <4>1. d.offer[x].status # "completed"
        BY <1>2, <2>1, <3>1, AgreedOffer DEF Active, OfferAgrees
      <4>2. d.offer[x].status \in OfferStatus \cup {"ended"}
        BY <1>2, Tables DEF OfferRow
      <4> QED
        BY <1>3, <2>3, <3>1, <4>1, <4>2 DEF Live, OfferStatus
    <3>2. CASE d.offer[x].listing # l
      <4>1. d.offer[x].listing \in DOMAIN d.listing
        BY <2>1, AgreedOffer DEF OfferAgrees
      <4>2. e.listing[d.offer[x].listing] = d.listing[d.offer[x].listing]
        BY <1>2, <3>2, <4>1
      <4> QED
        BY <1>3, <2>3, <3>2, <4>2
    <3> QED
      BY <3>1, <3>2
  <2>4. AgreedPairs(e)
    <3>1. ASSUME NEW x \in DOMAIN e.offer
          PROVE  OfferAgrees(e, x)
      <4>1. CASE x = o
        <5>1. l \in DOMAIN e.listing /\ e.listing[l].status = "sold" /\ e.listing[l].spot = 0
          BY <1>2
        <5>2. OfferAgrees(e, o)
          BY <1>13, <5>1 DEF OfferAgrees
        <5> QED
          BY <4>1, <5>2
      <4>2. CASE x # o
        <5>1. x \in DOMAIN d.offer /\ e.offer[x].listing = d.offer[x].listing
          BY <1>2, <1>12
        <5>2. OfferAgrees(d, x)
          BY <2>1, <5>1, AgreedOffer
        <5>6. d.offer[x].listing \in DOMAIN d.listing
          BY <5>2, Zenon DEF OfferAgrees
        <5>7. d.offer[x].listing \in DOMAIN e.listing
          BY <1>2, <5>6, Zenon
        <5>3. CASE e.offer[x].status = "ended"
          BY <5>1, <5>3, <5>7, EndedAgrees, Zenon
        <5>4. CASE e.offer[x] = d.offer[x] /\ e.listing[d.offer[x].listing] = d.listing[d.offer[x].listing]
          BY <5>2, <5>4, <5>7, SameOffer, Zenon
        <5> QED
          BY <2>3, <4>2, <5>1, <5>3, <5>4
      <4> QED
        BY <4>1, <4>2
    <3>2. ASSUME NEW x \in DOMAIN e.offer, NEW y \in DOMAIN e.offer, x # y,
                 e.offer[y].listing = e.offer[x].listing
          PROVE  OffersApart(e, x, y)
      <4>1. CASE x = o
        <5>1. y # o /\ d.offer[y].listing = l /\ y \in DOMAIN d.offer
          BY <1>2, <1>12, <1>13, <3>2, <4>1, Zenon
        <5>2. e.offer[y].status = "ended" /\ e.offer[o].status = "completed"
          BY <1>3, <2>3, <5>1
        <5> QED
          BY <4>1, <5>2, Zenon DEF OffersApart
      <4>2. CASE y = o
        <5>1. x # o /\ d.offer[x].listing = l /\ x \in DOMAIN d.offer
          BY <1>2, <1>12, <1>13, <3>2, <4>2, Zenon
        <5>2. e.offer[x].status = "ended"
          BY <2>3, <5>1
        <5> QED
          BY <5>2, Zenon DEF OffersApart
      <4>3. CASE x # o /\ y # o
        <5>1. x \in DOMAIN d.offer /\ y \in DOMAIN d.offer
              /\ d.offer[y].listing = d.offer[x].listing
          BY <1>2, <1>12, <3>2
        <5>2. OffersApart(d, x, y)
          BY <2>1, <3>2, <5>1, AgreedApart
        <5> QED
          BY <2>3, <4>3, <5>1, <5>2, SameApart
      <4> QED
        BY <4>1, <4>2, <4>3
    <3> QED
      BY <2>2, <3>1, <3>2 DEF AgreedPairs
  <2> QED
    BY <2>4, AgreedBy
<1>8. Consented(e)
  <2> SUFFICES ASSUME NEW x \in DOMAIN d.offer PROVE Consents(e, x)
    BY <1>2, ConsentedIs, Zenon
  <2>1. Seller(e, x) = Seller(d, x)
    <3>1. d.offer[x].listing \in DOMAIN d.listing
      BY <1>1 DEF Core, Linked
    <3> QED
      BY <1>11, <1>12, <3>1, Zenon DEF Seller
  <2>2. CASE x = o
    <3>1. e.offer[o].buyer = d.offer[o].buyer
      BY <1>3, <2>2
    <3> QED
      BY <1>3, <2>1, <2>2, <3>1 DEF Consents
  <2>3. CASE x # o
    <3>1. e.offer[x].status = "ended" \/ e.offer[x] = d.offer[x]
      BY <1>3, <2>3
    <3>2. Consents(d, x)
      BY <1>1, ConsentedIs DEF Core
    <3> QED
      BY <2>1, <3>1, <3>2, SameConsents, EndedConsents
  <2> QED
    BY <2>2, <2>3
<1>9. Exclusive(e, {})
  <2>1. Exclusive(d, {}) /\ \A m \in DOMAIN d.listing : e.listing[m].goods = d.listing[m].goods
    BY <1>2 DEF Sound
  <2> QED
    BY <1>2, <1>4, <2>1 DEF Exclusive
<1>10. ForSale(e, {})
  <2> SUFFICES ASSUME NEW i \in Item, e.item[i].state = "listed" PROVE Sold(e, i)
    BY DEF ForSale
  <2>1. i \notin Goods(d, o) /\ e.item[i] = d.item[i]
    BY <1>1 DEF Trade, TradeItems
  <2>2. PICK m \in DOMAIN d.listing : Active(d, m) /\ i \in d.listing[m].goods
    BY <2>1 DEF Sound, ForSale, Sold
  <2>3. m # l
    BY <2>1, <2>2 DEF Goods, l
  <2> QED
    BY <1>2, <1>4, <2>2, <2>3 DEF Sold
<1> QED
  BY <1>2, <1>5, <1>6, <1>7, <1>8, <1>9, <1>10 DEF Core, Sound, e

\* A trade makes only offers of its two parties ready, and never its own.
LEMMA SettledReady ==
    ASSUME NEW d, Sound(d, {}), NEW o \in DOMAIN d.offer, Ready(d, o),
           NEW x \in DOMAIN d.offer, Ready(Settled(d, o), x)
    PROVE  x # o /\ (Ready(d, x) \/ d.offer[x].buyer \in {Seller(d, o), d.offer[o].buyer})
<1> DEFINE e == Settled(d, o)
           l == d.offer[o].listing
           b == d.offer[x].buyer
<1>1. Core(d) /\ Trade(d, e, o)
  BY SettledTrade DEF Sound
<1>2. Ready(e, x)
  OBVIOUS
<1> HIDE DEF e
<1>3. Live(e, x) /\ Active(e, e.offer[x].listing)
  BY <1>2, ReadyActive
<1>4. x # o /\ e.offer[x] = d.offer[x]
  BY <1>1, <1>3 DEF Trade, TradeOffers, Live
<1>5. d.offer[x].listing \in DOMAIN d.listing /\ b \in Players
  BY <1>1, RowsOf
<1>6. d.offer[x].listing # l
  BY <1>1, <1>3, <1>4 DEF Trade, TradeRows, Active
<1>7. e.listing[d.offer[x].listing] = d.listing[d.offer[x].listing]
      /\ Active(d, d.offer[x].listing)
  <2>1. e.listing[d.offer[x].listing] = d.listing[d.offer[x].listing]
    BY <1>1, <1>5, <1>6 DEF Trade, TradeRows
  <2> QED
    BY <1>3, <1>4, <2>1 DEF Active
<1>8. \A i \in d.listing[d.offer[x].listing].goods : e.item[i] = d.item[i]
  BY <1>1, <1>5, <1>6, <1>7, TradeApart
<1>9. ASSUME b \notin {Seller(d, o), d.offer[o].buyer} PROVE Ready(d, x)
  <2>1. e.gold[b] = d.gold[b] /\ e.auto = d.auto
    BY <1>1, <1>5, <1>9 DEF Trade, TradeParties
  <2>2. ASSUME NEW i \in Item, Holds(e, b, i, {"available"}) PROVE Holds(d, b, i, {"available"})
    <3>2. e.item[i].owner = b
      BY <2>2 DEF Holds
    <3>1. e.item[i] = d.item[i]
      BY <1>1, <1>9, <2>2, <3>2 DEF Trade, TradeItems
    <3> QED
      BY <2>2, <3>1 DEF Holds
  <2>3. Terms(e, x) = Terms(d, x)
    BY <1>4, Zenon DEF Terms
  <2>4. Unhelped(d, e, x, x)
    BY <1>4, <1>7, <1>8, <2>1, <2>2, <2>3, Zenon DEF Unhelped, Holds
  <2> QED
    BY <1>2, <2>4, ReadyWas
<1> QED
  BY <1>4, <1>9

-------------------------------------------------------------------------------
(***************************************************************************)
(* Recursive functions over 0 .. n, and the end of a command.              *)
(***************************************************************************)
Recurs(n, R, step, a, g) ==
    /\ g = [i \in 0 .. n |-> IF i = 0 THEN a ELSE step[<<i - 1, g[i - 1]>>]]
    /\ \A i \in 0 .. n : <<i, g[i]>> \in R
\* A recursion whose values stay in R has a solution, with values in R.
LEMMA Recursion ==
    ASSUME NEW n \in Nat, NEW R, NEW step, NEW a, <<0, a>> \in R,
           \A i \in 1 .. n : \A x : <<i - 1, x>> \in R => <<i, step[<<i - 1, x>>]>> \in R
    PROVE  \E g : Recurs(n, R, step, a, g)
<1> DEFINE Solves(m, g) == Recurs(m, R, step, a, g)
           T == {m \in Nat : m <= n => \E g : Solves(m, g)}
<1> HIDE DEF Solves
<1>1. 0 \in T
  <2> DEFINE h == [i \in 0 .. 0 |-> a]
  <2>1. h[0] = a /\ \A i \in 0 .. 0 : i = 0
    OBVIOUS
  <2>2. h = [i \in 0 .. 0 |-> IF i = 0 THEN a ELSE step[<<i - 1, h[i - 1]>>]]
    OBVIOUS
  <2>3. \A i \in 0 .. 0 : <<i, h[i]>> \in R
    BY <2>1
  <2>4. Solves(0, h)
    BY <2>2, <2>3 DEF Solves, Recurs
  <2> QED
    BY <2>4
<1>2. ASSUME NEW m \in Nat, m \in T PROVE m + 1 \in T
  <2> SUFFICES ASSUME m + 1 <= n PROVE \E g : Solves(m + 1, g)
    OBVIOUS
  <2>1. PICK g : Solves(m, g)
    BY <1>2
  <2> DEFINE h == [i \in 0 .. m + 1 |-> IF i = m + 1 THEN step[<<m, g[m]>>] ELSE g[i]]
  <2>10. /\ \A i \in 0 .. m : i \in 0 .. m + 1 /\ i # m + 1
         /\ m + 1 \in 0 .. m + 1 /\ m \in 0 .. m
    OBVIOUS
  <2>11. (\A i \in 0 .. m : h[i] = g[i]) /\ h[m + 1] = step[<<m, g[m]>>]
    BY <2>10
  <2>2. /\ \A i \in 0 .. m : h[i] = g[i] /\ i \in 0 .. m + 1
        /\ h[m + 1] = step[<<m, h[m]>>] /\ m \in 0 .. m
    BY <2>10, <2>11
  <2>3. \A i \in 0 .. m + 1 : i = m + 1 \/ i \in 0 .. m
    OBVIOUS
  <2>4. \A i \in 0 .. m : i = 0 \/ i - 1 \in 0 .. m
    OBVIOUS
  <2>5. DOMAIN h = 0 .. m + 1 /\ h = [i \in DOMAIN h |-> h[i]]
    OBVIOUS
  <2> HIDE DEF h
  <2>6. \A i \in 0 .. m : g[i] = (IF i = 0 THEN a ELSE step[<<i - 1, g[i - 1]>>])
    BY <2>1 DEF Solves, Recurs
  <2>7. ASSUME NEW i \in 0 .. m + 1
        PROVE  h[i] = IF i = 0 THEN a ELSE step[<<i - 1, h[i - 1]>>]
    <3>1. CASE i = m + 1
      <4>1. i # 0 /\ i - 1 = m
        BY <3>1
      <4> QED
        BY <2>2, <3>1, <4>1
    <3>2. CASE i \in 0 .. m /\ i = 0
      BY <2>2, <2>6, <3>2
    <3>3. CASE i \in 0 .. m /\ i # 0
      <4>1. i - 1 \in 0 .. m
        BY <3>3
      <4> QED
        BY <2>2, <2>6, <3>3, <4>1
    <3> QED
      BY <2>3, <3>1, <3>2, <3>3
  <2>8. h = [i \in 0 .. m + 1 |-> IF i = 0 THEN a ELSE step[<<i - 1, h[i - 1]>>]]
    BY <2>5, <2>7
  <2>9. \A i \in 0 .. m + 1 : <<i, h[i]>> \in R
    <3>1. <<m, h[m]>> \in R
      BY <2>1, <2>2 DEF Solves, Recurs
    <3>2. m + 1 \in 1 .. n /\ (m + 1) - 1 = m
      OBVIOUS
    <3>3. <<m + 1, h[m + 1]>> \in R
      BY <2>2, <3>1, <3>2
    <3> QED
      BY <2>1, <2>2, <2>3, <3>3 DEF Solves, Recurs
  <2>12. Solves(m + 1, h)
    BY <2>8, <2>9 DEF Solves, Recurs
  <2> QED
    BY <2>12
<1> HIDE DEF T
<1>3. \A m \in Nat : m \in T
  BY <1>1, <1>2, NatSet
<1>4. n \in T /\ n <= n
  BY <1>3
<1>5. PICK g : Solves(n, g)
  BY <1>4 DEF T
<1> QED
  BY <1>5 DEF Solves

\* The offers that Commit keeps, in order: f names the old place of each.
KeptBy(q, i, x, f) ==
    /\ f \in [DOMAIN x -> 1 .. i]
    /\ \A j, k \in DOMAIN x : f[j] = f[k] => j = k
    /\ \A k \in DOMAIN x : x[k] = q[f[k]] /\ q[f[k]].status # "ended"
    /\ \A j \in 1 .. i : q[j].status # "ended" => \E k \in DOMAIN x : f[k] = j
KeptSteps(q, g) ==
    g = [o \in 0 .. Len(q) |->
           IF o = 0 THEN <<>>
           ELSE IF q[o].status = "ended" THEN g[o - 1] ELSE Append(g[o - 1], q[o])]

LEMMA KeptNext ==
    ASSUME NEW q \in Seq(OfferRow), NEW i \in 1 .. Len(q), NEW x \in Seq(OfferRow), NEW f,
           KeptBy(q, i - 1, x, f), q[i].status # "ended"
    PROVE  Append(x, q[i]) \in Seq(OfferRow) /\ \E h : KeptBy(q, i, Append(x, q[i]), h)
<1>1. /\ Len(x) \in Nat /\ DOMAIN x = 1 .. Len(x) /\ q[i] \in OfferRow /\ i \in Nat
  BY SeqIs
<1> DEFINE y == Append(x, q[i])
           n == Len(x) + 1
           h == [k \in 1 .. n |-> IF k = n THEN i ELSE f[k]]
<1>2. /\ y \in Seq(OfferRow) /\ DOMAIN y = 1 .. n /\ y[n] = q[i]
      /\ \A k \in DOMAIN x : y[k] = x[k]
  BY <1>1, SeqAppend
<1> HIDE DEF y
<1>3. ASSUME NEW k \in 1 .. n PROVE k = n \/ (k \in DOMAIN x /\ k # n)
  <2>1. k = n \/ (k \in 1 .. Len(x) /\ k # n)
    BY <1>1
  <2> QED
    BY <1>1, <2>1
<1>4. \A k \in DOMAIN x : k \in 1 .. n /\ k # n
  BY <1>1
<1>5. h[n] = i /\ (\A k \in DOMAIN x : h[k] = f[k] /\ f[k] \in 1 .. i - 1) /\ DOMAIN h = 1 .. n
      /\ n \in 1 .. n
  BY <1>1, <1>4 DEF KeptBy
<1>6. \A j \in 1 .. i - 1 : j \in 1 .. i /\ j # i
  BY <1>1
<1>7. h \in [DOMAIN y -> 1 .. i]
  <2>1. i \in 1 .. i
    BY <1>1
  <2>2. \A k \in 1 .. n : h[k] \in 1 .. i
    BY <1>3, <1>5, <1>6, <2>1
  <2> QED
    BY <1>2, <2>2
<1> HIDE DEF h, n
<1>8. ASSUME NEW j \in DOMAIN y, NEW k \in DOMAIN y, h[j] = h[k] PROVE j = k
  BY <1>2, <1>3, <1>5, <1>6, <1>8 DEF KeptBy
<1>9. \A k \in DOMAIN y : y[k] = q[h[k]] /\ q[h[k]].status # "ended"
  BY <1>2, <1>3, <1>5 DEF KeptBy
<1>10. ASSUME NEW j \in 1 .. i, q[j].status # "ended" PROVE \E k \in DOMAIN y : h[k] = j
  <2>1. CASE j = i
    BY <1>2, <1>5, <2>1
  <2>2. CASE j # i
    <3>1. j \in 1 .. i - 1
      BY <1>1, <2>2
    <3>2. PICK k \in DOMAIN x : f[k] = j
      BY <1>10, <3>1 DEF KeptBy
    <3> QED
      BY <1>2, <1>4, <1>5, <3>2
  <2> QED
    BY <2>1, <2>2
<1>11. KeptBy(q, i, y, h)
  BY <1>7, <1>8, <1>9, <1>10 DEF KeptBy
<1> QED
  BY <1>2, <1>11 DEF y

LEMMA UnendedIs ==
    ASSUME NEW q \in Seq(OfferRow)
    PROVE  Unended(q) \in Seq(OfferRow) /\ \E f : KeptBy(q, Len(q), Unended(q), f)
<1> DEFINE R == {z \in (0 .. Len(q)) \X Seq(OfferRow) : \E f : KeptBy(q, z[1], z[2], f)}
           step == [z \in R |-> IF q[z[1] + 1].status = "ended" THEN z[2]
                                ELSE Append(z[2], q[z[1] + 1])]
<1>1. Len(q) \in Nat
  BY SeqIs
<1>2. <<0, <<>>>> \in R
  <2>1. KeptBy(q, 0, <<>>, <<>>)
    BY EmptySeq DEF KeptBy
  <2>4. <<>> \in Seq(OfferRow) /\ 0 \in 0 .. Len(q)
    BY <1>1
  <2>2. <<0, <<>>>> \in (0 .. Len(q)) \X Seq(OfferRow)
    BY <2>4
  <2>3. <<0, <<>>>>[1] = 0 /\ <<0, <<>>>>[2] = <<>>
    OBVIOUS
  <2> QED
    BY <2>1, <2>2, <2>3
<1>3. ASSUME NEW i \in 1 .. Len(q), NEW x, <<i - 1, x>> \in R
      PROVE  /\ step[<<i - 1, x>>] = IF q[i].status = "ended" THEN x ELSE Append(x, q[i])
             /\ <<i, step[<<i - 1, x>>]>> \in R
  <2>1. x \in Seq(OfferRow) /\ (i - 1) + 1 = i /\ i \in 0 .. Len(q) /\ i \in Nat
    BY <1>1, <1>3
  <2>2. PICK f : KeptBy(q, i - 1, x, f)
    BY <1>3
  <2>3. step[<<i - 1, x>>] = IF q[i].status = "ended" THEN x ELSE Append(x, q[i])
    BY <1>3, <2>1
  <2> HIDE DEF step
  <2>4. CASE q[i].status = "ended"
    <3>1. \A j \in 1 .. i : j = i \/ j \in 1 .. i - 1
      BY <2>1
    <3>2. \A j \in 1 .. i - 1 : j \in 1 .. i
      BY <2>1
    <3>3. KeptBy(q, i, x, f)
      BY <2>2, <2>4, <3>1, <3>2 DEF KeptBy
    <3> QED
      BY <2>1, <2>3, <2>4, <3>3
  <2>5. CASE q[i].status # "ended"
    <3> DEFINE y == Append(x, q[i])
    <3>1. y \in Seq(OfferRow) /\ \E h : KeptBy(q, i, y, h)
      BY <2>1, <2>2, <2>5, KeptNext
    <3>2. step[<<i - 1, x>>] = y
      BY <2>3, <2>5
    <3> HIDE DEF y
    <3>3. <<i, y>> \in (0 .. Len(q)) \X Seq(OfferRow) /\ <<i, y>>[1] = i /\ <<i, y>>[2] = y
      BY <2>1, <3>1
    <3>4. <<i, y>> \in R
      BY <3>1, <3>3
    <3> QED
      BY <2>3, <3>2, <3>4
  <2> QED
    BY <2>3, <2>4, <2>5
<1> HIDE DEF R, step
<1>13. \A i \in 1 .. Len(q) : \A x : <<i - 1, x>> \in R => <<i, step[<<i - 1, x>>]>> \in R
  BY <1>3
<1>14. PICK g : Recurs(Len(q), R, step, <<>>, g)
  BY <1>1, <1>2, <1>13, Recursion
<1>4. /\ g = [i \in 0 .. Len(q) |-> IF i = 0 THEN <<>> ELSE step[<<i - 1, g[i - 1]>>]]
      /\ \A i \in 0 .. Len(q) : <<i, g[i]>> \in R
  BY <1>14 DEF Recurs
<1>5. KeptSteps(q, g)
  <2>1. ASSUME NEW i \in 0 .. Len(q)
        PROVE  g[i] = IF i = 0 THEN <<>> ELSE
                      IF q[i].status = "ended" THEN g[i - 1] ELSE Append(g[i - 1], q[i])
    <3>1. CASE i = 0
      BY <1>4, <3>1
    <3>2. CASE i # 0
      <4>1. i \in 1 .. Len(q) /\ i - 1 \in 0 .. Len(q)
        BY <1>1, <3>2
      <4>2. g[i] = step[<<i - 1, g[i - 1]>>]
        BY <1>4, <3>2
      <4> QED
        BY <1>3, <1>4, <3>2, <4>1, <4>2
    <3> QED
      BY <3>1, <3>2
  <2>2. g = [i \in 0 .. Len(q) |-> g[i]]
    BY <1>4
  <2> QED
    BY <2>1, <2>2 DEF KeptSteps
<1> DEFINE k == CHOOSE h : KeptSteps(q, h)
<1>6. Unended(q) = k[Len(q)]
  BY DEF Unended, KeptSteps
<1>7. KeptSteps(q, k)
  BY <1>5
<1> HIDE DEF k
<1>8. \A i \in 0 .. Len(q) :
         k[i] = IF i = 0 THEN <<>> ELSE
                IF q[i].status = "ended" THEN k[i - 1] ELSE Append(k[i - 1], q[i])
  BY <1>7 DEF KeptSteps
<1> DEFINE T == {i \in Nat : i <= Len(q) => <<i, k[i]>> \in R}
<1>9. 0 \in T
  <2>1. k[0] = <<>>
    BY <1>1, <1>8
  <2> QED
    BY <1>2, <2>1
<1>10. ASSUME NEW i \in Nat, i \in T PROVE i + 1 \in T
  <2> SUFFICES ASSUME i + 1 <= Len(q) PROVE <<i + 1, k[i + 1]>> \in R
    OBVIOUS
  <2>1. i + 1 \in 1 .. Len(q) /\ i + 1 \in 0 .. Len(q) /\ (i + 1) - 1 = i /\ i + 1 # 0
        /\ i <= Len(q)
    BY <1>1
  <2>2. <<(i + 1) - 1, k[i]>> \in R
    BY <1>10, <2>1
  <2>3. k[i + 1] = IF q[i + 1].status = "ended" THEN k[i] ELSE Append(k[i], q[i + 1])
    BY <1>8, <2>1
  <2> QED
    BY <1>3, <2>1, <2>2, <2>3
<1> HIDE DEF T
<1>11. \A i \in Nat : i \in T
  BY <1>9, <1>10, NatSet
<1>12. <<Len(q), k[Len(q)]>> \in R
  BY <1>1, <1>11 DEF T
<1> QED
  BY <1>6, <1>12 DEF R

-------------------------------------------------------------------------------
\* The end of a command keeps what is sound, and makes no offer ready.
LEMMA UnendedSound ==
    ASSUME NEW d, Sound(d, {}), NEW P, Waits(d, P)
    PROVE  LET e == [d EXCEPT !.offer = Unended(@)] IN
           /\ Sound(e, {}) /\ Waits(e, P) /\ \A o \in DOMAIN e.offer : e.offer[o].status # "ended"
<1> DEFINE e == [d EXCEPT !.offer = Unended(@)]
           u == Unended(d.offer)
<1>1. Core(d) /\ Typed(d) /\ d.offer \in Seq(OfferRow) /\ DOMAIN d.offer = 1 .. Len(d.offer)
      /\ Exclusive(d, {}) /\ ForSale(d, {})
  BY Tables DEF Sound, Core
<1>2. u \in Seq(OfferRow) /\ \E f : KeptBy(d.offer, Len(d.offer), u, f)
  BY <1>1, UnendedIs
<1>3. PICK f : KeptBy(d.offer, Len(d.offer), u, f)
  BY <1>2
<1>4. e = [d EXCEPT !.offer = u]
  OBVIOUS
<1> HIDE DEF e, u
<1>5. Typed(e) /\ e.offer = u /\ Same(d, e, {"offer"})
  BY <1>1, <1>2, <1>4 DEF Typed, Database, Same
<1>6. /\ e.item = d.item /\ e.gold = d.gold /\ e.auto = d.auto /\ e.listing = d.listing
      /\ e.wanted = d.wanted
  BY <1>5 DEF Same
<1>7. /\ \A o \in DOMAIN e.offer : f[o] \in DOMAIN d.offer /\ e.offer[o] = d.offer[f[o]]
                                 /\ e.offer[o].status # "ended"
      /\ \A o, x \in DOMAIN e.offer : o # x => f[o] # f[x]
      /\ \A x \in DOMAIN d.offer : d.offer[x].status # "ended" =>
            \E o \in DOMAIN e.offer : f[o] = x
  BY <1>1, <1>3, <1>5 DEF KeptBy
<1>8. Linked(e)
  <2> SUFFICES ASSUME NEW o \in DOMAIN e.offer
               PROVE  /\ e.offer[o].listing \in DOMAIN e.listing
                      /\ e.offer[o].lrev <= e.listing[e.offer[o].listing].rev
                      /\ e.offer[o].buyer # Seller(e, o)
                      /\ e.offer[o].proposer \in {e.offer[o].buyer, Seller(e, o)}
                      /\ e.offer[o].post \in 0 .. Len(e.wanted)
    BY DEF Linked
  <2>1. f[o] \in DOMAIN d.offer /\ e.offer[o] = d.offer[f[o]]
    BY <1>7
  <2> QED
    BY <1>1, <1>6, <2>1 DEF Core, Linked, Seller
<1>9. Placed(e)
  BY <1>1, <1>6 DEF Core, Placed, Active, Holds
<1>10. Agreed(e)
  <2>1. AgreedPairs(d)
    BY <1>1, AgreedSays
  <2>2. ASSUME NEW l \in DOMAIN e.listing, e.listing[l].status = "agreed"
        PROVE  \E o \in DOMAIN e.offer : e.offer[o].listing = l /\ e.offer[o].status = "accepted"
    <3>1. PICK x \in DOMAIN d.offer : d.offer[x].listing = l /\ d.offer[x].status = "accepted"
      BY <1>6, <2>1, <2>2 DEF AgreedPairs, OfferAgrees, OffersApart
    <3>2. PICK o \in DOMAIN e.offer : f[o] = x
      BY <1>7, <3>1
    <3> QED
      BY <1>7, <3>1, <3>2
  <2>3. ASSUME NEW o \in DOMAIN e.offer
        PROVE  OfferAgrees(e, o)
    <3>1. f[o] \in DOMAIN d.offer /\ e.offer[o] = d.offer[f[o]]
      BY <1>7
    <3> QED
      BY <1>6, <2>1, <3>1, AgreedOffer DEF OfferAgrees
  <2>4. ASSUME NEW o \in DOMAIN e.offer, NEW x \in DOMAIN e.offer, o # x,
               e.offer[x].listing = e.offer[o].listing
        PROVE  OffersApart(e, o, x)
    <3>1. /\ f[o] \in DOMAIN d.offer /\ e.offer[o] = d.offer[f[o]]
          /\ f[x] \in DOMAIN d.offer /\ e.offer[x] = d.offer[f[x]]
          /\ f[o] # f[x]
      BY <1>7, <2>4
    <3> QED
      BY <2>1, <2>4, <3>1, AgreedApart DEF OffersApart
  <2>5. AgreedPairs(e)
    BY <2>2, <2>3, <2>4 DEF AgreedPairs
  <2> QED
    BY <2>5, AgreedBy
<1>11. Consented(e)
  <2> SUFFICES ASSUME NEW x \in DOMAIN e.offer
               PROVE  /\ e.offer[x].status = "pending" =>
                           e.offer[x].signed[e.offer[x].proposer] = Terms(e, x)
                      /\ e.offer[x].status \in {"accepted", "completed"} =>
                           /\ e.offer[x].signed[Seller(e, x)] = Terms(e, x)
                           /\ \/ e.offer[x].signed[e.offer[x].buyer] = Terms(e, x)
                              \/ Terms(e, x) = Free
    BY DEF Consented
  <2>1. f[x] \in DOMAIN d.offer /\ e.offer[x] = d.offer[f[x]]
    BY <1>7
  <2>2. Terms(e, x) = Terms(d, f[x]) /\ Seller(e, x) = Seller(d, f[x])
    BY <1>6, <2>1 DEF Terms, Seller
  <2> QED
    BY <1>1, <2>1, <2>2 DEF Core, Consented
<1>12. Exclusive(e, {}) /\ ForSale(e, {})
  BY <1>1, <1>6 DEF Exclusive, ForSale, Sold, Active
<1>13. ASSUME NEW o \in DOMAIN e.offer, Ready(e, o) PROVE e.offer[o].buyer \in P
  <2>1. Unhelped(d, e, f[o], o)
    BY <1>6, <1>7 DEF Unhelped, Terms, Holds
  <2>2. Ready(d, f[o])
    BY <1>13, <2>1, ReadyWas
  <2> QED
    BY <1>7, <2>2 DEF Waits
<1> QED
  BY <1>5, <1>7, <1>8, <1>9, <1>10, <1>11, <1>12, <1>13 DEF Sound, Core, Waits, e

LEMMA CommitOrderly ==
    ASSUME NEW d, Sound(d, {}), NEW P, Waits(d, P), Commit(d)
    PROVE  /\ Sound(db', {}) /\ Waits(db', P)
           /\ \A o \in DOMAIN db'.offer : db'.offer[o].status # "ended"
  BY UnendedSound DEF Commit

-------------------------------------------------------------------------------
(***************************************************************************)
(* Sweeps.                                                                 *)
(***************************************************************************)
Selectors == {All} \cup {Buyer(p) : p \in Players} \cup {Focus(o) : o \in Nat}
Sweeps == [db : Database, queue : Seq(Selectors), budget : Nat, left : SUBSET Players]
Queued(s, x) == \E k \in DOMAIN s.queue : Selects(s.queue[k], s.db, x)

\* A sweep is sound; every ready offer is its buyer's who is left, is selected
\* by the queue, or was read and comes after place o.  m bounds what the sweep
\* can still do.
Sweeping(s, read, o, m) ==
    /\ s \in Sweeps /\ Sound(s.db, {})
    /\ s.budget > 0 => \A x \in DOMAIN s.db.offer : Ready(s.db, x) =>
         \/ s.db.offer[x].buyer \in s.left
         \/ Queued(s, x)
         \/ x > o /\ x \in read
    /\ Len(s.queue) + 2 * s.budget <= m

LEMMA EnqueuedIs ==
    ASSUME NEW queue \in Seq(Selectors), NEW p \in Players
    PROVE  LET new == Enqueued(queue, p) IN
           /\ new \in Seq(Selectors) /\ Len(new) <= Len(queue) + 1 /\ Len(new) \in Nat
           /\ \A k \in DOMAIN queue : k \in DOMAIN new /\ new[k] = queue[k]
           /\ \E k \in DOMAIN new : new[k] = Buyer(p)
<1>1. Len(queue) \in Nat /\ DOMAIN queue = 1 .. Len(queue)
  BY SeqIs
<1>2. CASE Contains(queue, Buyer(p))
  <2>1. Enqueued(queue, p) = queue
    BY <1>2 DEF Enqueued
  <2>2. \E k \in DOMAIN queue : queue[k] = Buyer(p)
    BY <1>1, <1>2 DEF Contains
  <2> QED
    BY <1>1, <2>1, <2>2
<1>3. CASE ~Contains(queue, Buyer(p))
  <2> DEFINE new == Append(queue, Buyer(p))
  <2>1. Buyer(p) \in Selectors
    BY DEF Selectors
  <2>2. /\ new \in Seq(Selectors) /\ Len(new) = Len(queue) + 1
        /\ DOMAIN new = 1 .. (Len(queue) + 1)
        /\ \A k \in DOMAIN queue : new[k] = queue[k]
        /\ new[Len(queue) + 1] = Buyer(p)
    BY <2>1, SeqAppend
  <2>3. Enqueued(queue, p) = new
    BY <1>3 DEF Enqueued
  <2> HIDE DEF new
  <2> QED
    BY <1>1, <2>2, <2>3
<1> QED
  BY <1>2, <1>3

Woken(queue, p, r, new) ==
    /\ new \in Seq(Selectors) /\ Len(new) <= Len(queue) + 2 /\ Len(new) \in Nat
    /\ \A k \in DOMAIN queue : k \in DOMAIN new /\ new[k] = queue[k]
    /\ \E k \in DOMAIN new : new[k] = Buyer(p)
    /\ \E k \in DOMAIN new : new[k] = Buyer(r)

LEMMA WakeIs ==
    ASSUME NEW queue \in Seq(Selectors), NEW p \in Players, NEW r \in Players
    PROVE  Woken(queue, p, r, Wake(queue, p, r))
<1> DEFINE one == Enqueued(queue, p)
           new == Enqueued(one, r)
<1>1. Len(queue) \in Nat
  BY SeqIs
<1>2. /\ one \in Seq(Selectors) /\ Len(one) <= Len(queue) + 1 /\ Len(one) \in Nat
      /\ \A k \in DOMAIN queue : k \in DOMAIN one /\ one[k] = queue[k]
      /\ \E k \in DOMAIN one : one[k] = Buyer(p)
  BY EnqueuedIs
<1> HIDE DEF one
<1>3. /\ new \in Seq(Selectors) /\ Len(new) <= Len(one) + 1 /\ Len(new) \in Nat
      /\ \A k \in DOMAIN one : k \in DOMAIN new /\ new[k] = one[k]
      /\ \E k \in DOMAIN new : new[k] = Buyer(r)
  BY <1>2, EnqueuedIs
<1>4. new = Wake(queue, p, r)
  BY DEF Wake, one
<1> HIDE DEF new
<1>5. Len(new) <= Len(queue) + 2
  BY <1>1, <1>2, <1>3
<1>6. /\ \A k \in DOMAIN queue : k \in DOMAIN new /\ new[k] = queue[k]
      /\ \E k \in DOMAIN new : new[k] = Buyer(p)
  BY <1>2, <1>3
<1> QED
  BY <1>3, <1>4, <1>5, <1>6 DEF Woken

\* A visit settles the offer at o, or finds that it cannot be settled.
Due(s, read, o, m) ==
    o \in DOMAIN s.db.offer /\ m \in Nat /\ Sweeping(s, read, o - 1, m)

LEMMA Visited ==
    ASSUME NEW s, NEW read, NEW o, NEW m, Due(s, read, o, m)
    PROVE  Sweeping(Visit(read, s, o), read, o, m)
           /\ Len(Visit(read, s, o).db.offer) = Len(s.db.offer)
<1> o \in DOMAIN s.db.offer /\ m \in Nat /\ Sweeping(s, read, o - 1, m)
  BY DEF Due
<1>1. /\ Typed(s.db) /\ Sound(s.db, {}) /\ Core(s.db) /\ s \in Sweeps /\ s.budget \in Nat
      /\ s.queue \in Seq(Selectors) /\ Len(s.queue) \in Nat
      /\ Len(s.queue) + 2 * s.budget <= m
      /\ DOMAIN s.db.offer = 1 .. Len(s.db.offer) /\ Len(s.db.offer) \in Nat /\ o \in Nat
  <2>1. Sound(s.db, {}) /\ s \in Sweeps /\ Len(s.queue) + 2 * s.budget <= m
    BY DEF Sweeping
  <2>2. Core(s.db) /\ Typed(s.db) /\ s.budget \in Nat /\ s.queue \in Seq(Selectors)
    BY <2>1 DEF Sweeps, Sound, Core
  <2>3. Len(s.queue) \in Nat
    BY <2>2, SeqIs
  <2>4. DOMAIN s.db.offer = 1 .. Len(s.db.offer) /\ Len(s.db.offer) \in Nat
    BY <2>2, Tables
  <2> QED
    BY <2>1, <2>2, <2>3, <2>4
<1>2. ASSUME s.budget > 0, NEW x \in DOMAIN s.db.offer, Ready(s.db, x)
      PROVE  \/ s.db.offer[x].buyer \in s.left
             \/ Queued(s, x)
             \/ (x > o - 1) /\ x \in read
  BY <1>2 DEF Sweeping
<1>3. \A x \in DOMAIN s.db.offer : x > o - 1 => x = o \/ x > o
  BY <1>1
<1>4. CASE ~(s.budget > 0 /\ o \in read /\ Ready(s.db, o))
  <2>1. Visit(read, s, o) = s
    BY <1>4 DEF Visit
  <2>2. Sweeping(s, read, o, m)
    BY <1>1, <1>2, <1>3, <1>4 DEF Sweeping
  <2> QED
    BY <2>1, <2>2
<1>5. CASE s.budget > 0 /\ o \in read /\ Ready(s.db, o)
  <2> DEFINE d == s.db
             e == Settled(d, o)
             new == Wake(s.queue, Seller(d, o), d.offer[o].buyer)
             t == Visit(read, s, o)
  <2>1. /\ SettledParts(d, e, o) /\ Sound(e, {})
        /\ \A x \in DOMAIN d.offer : Ready(e, x) =>
              x # o /\ (Ready(d, x) \/ d.offer[x].buyer \in {Seller(d, o), d.offer[o].buyer})
        /\ Trade(d, e, o)
    BY <1>1, <1>5, SettledIs, SettledSound, SettledReady, SettledTrade
  <2>2. Seller(d, o) \in Players /\ d.offer[o].buyer \in Players
    BY <1>1, RowsOf
  <2>3. /\ new \in Seq(Selectors) /\ Len(new) <= Len(s.queue) + 2 /\ Len(new) \in Nat
        /\ \A k \in DOMAIN s.queue : k \in DOMAIN new /\ new[k] = s.queue[k]
        /\ \E k \in DOMAIN new : new[k] = Buyer(Seller(d, o))
        /\ \E k \in DOMAIN new : new[k] = Buyer(d.offer[o].buyer)
    <3>1. Woken(s.queue, Seller(d, o), d.offer[o].buyer, new)
      BY <1>1, <2>2, WakeIs
    <3> HIDE DEF new
    <3> QED
      BY <3>1 DEF Woken
  <2>4. t = [s EXCEPT !.db = e, !.budget = @ - 1, !.queue = new]
    BY <1>5 DEF Visit
  <2> HIDE DEF e
  <2>5. Typed(e) /\ Len(e.offer) = Len(d.offer) /\ DOMAIN e.offer = DOMAIN d.offer
        /\ \A x \in DOMAIN d.offer : e.offer[x].buyer = d.offer[x].buyer
    <3>1. Typed(e) /\ Len(e.offer) = Len(d.offer) /\ DOMAIN e.offer = DOMAIN d.offer
      BY <2>1, Zenon DEF SettledParts
    <3>2. TradeOffers(d, e, o)
      BY <2>1, Zenon DEF Trade
    <3> QED
      BY <3>1, <3>2, Zenon DEF TradeOffers
  <2> HIDE DEF t, new
  <2>6. s.budget - 1 \in Nat
    BY <1>1, <1>5
  <2>7. /\ t \in Sweeps /\ t.db = e /\ t.budget = s.budget - 1 /\ t.queue = new
        /\ t.left = s.left
    BY <1>1, <2>3, <2>4, <2>5, <2>6 DEF Sweeps, Typed
  <2>8. Len(t.queue) + 2 * t.budget <= m
    <3>1. /\ Len(new) <= Len(s.queue) + 2 /\ Len(new) \in Nat /\ Len(s.queue) \in Nat
          /\ s.budget \in Nat /\ Len(s.queue) + 2 * s.budget <= m
      BY <1>1, <2>3
    <3> QED
      BY <2>7, <3>1
  <2>9. ASSUME NEW x \in DOMAIN e.offer, Ready(e, x)
        PROVE  \/ e.offer[x].buyer \in t.left
               \/ Queued(t, x)
               \/ x > o /\ x \in read
    <3>1. x \in DOMAIN d.offer /\ x # o /\ e.offer[x].buyer = d.offer[x].buyer
      BY <2>1, <2>5, <2>9
    <3>2. CASE d.offer[x].buyer \in {Seller(d, o), d.offer[o].buyer}
      <4>1. PICK k \in DOMAIN new : new[k] = Buyer(d.offer[x].buyer)
        BY <2>3, <3>2
      <4>2. Selects(new[k], e, x)
        BY <3>1, <4>1 DEF Selects, Buyer
      <4> QED
        BY <2>7, <4>2 DEF Queued
    <3>3. CASE Ready(d, x)
      <4>1. CASE d.offer[x].buyer \in s.left
        BY <2>7, <3>1, <4>1
      <4>2. CASE Queued(s, x)
        <5>1. PICK k \in DOMAIN s.queue : Selects(s.queue[k], d, x)
          BY <4>2 DEF Queued
        <5>2. k \in DOMAIN new /\ Selects(new[k], e, x)
          BY <2>3, <3>1, <5>1 DEF Selects
        <5> QED
          BY <2>7, <5>2 DEF Queued
      <4>3. CASE x > o - 1 /\ x \in read
        BY <1>3, <3>1, <4>3
      <4> QED
        BY <1>2, <1>5, <3>1, <3>3, <4>1, <4>2, <4>3
    <3> QED
      BY <2>1, <2>9, <3>1, <3>2, <3>3
  <2>10. Sweeping(t, read, o, m)
    BY <2>1, <2>7, <2>8, <2>9 DEF Sweeping
  <2> QED
    BY <2>5, <2>7, <2>10 DEF t
<1> QED
  BY <1>4, <1>5

-------------------------------------------------------------------------------

LEMMA RecursionIn ==
    ASSUME NEW n \in Nat, NEW R, NEW g, <<0, g[0]>> \in R,
           \A i \in 1 .. n : <<i - 1, g[i - 1]>> \in R => <<i, g[i]>> \in R
    PROVE  \A i \in 0 .. n : <<i, g[i]>> \in R
<1> DEFINE T == {i \in Nat : i <= n => <<i, g[i]>> \in R}
<1>1. 0 \in T
  OBVIOUS
<1>2. ASSUME NEW i \in Nat, i \in T PROVE i + 1 \in T
  <2> SUFFICES ASSUME i + 1 <= n PROVE <<i + 1, g[i + 1]>> \in R
    OBVIOUS
  <2>1. i + 1 \in 1 .. n /\ (i + 1) - 1 = i /\ i <= n
    OBVIOUS
  <2>2. <<i, g[i]>> \in R
    BY <1>2, <2>1
  <2> QED
    BY <2>1, <2>2
<1> HIDE DEF T
<1>3. \A i \in Nat : i \in T
  BY <1>1, <1>2, NatSet
<1> QED
  BY <1>3 DEF T

\* Between the passes.
Between(s, m) == Sweeping(s, {}, Len(s.db.offer), m)

LEMMA BetweenPlaces ==
    ASSUME NEW s, NEW read, NEW m, NEW o, o = Len(s.db.offer), Sweeping(s, read, o, m)
    PROVE  Between(s, m)
<1>1. Typed(s.db)
  BY DEF Sweeping, Sound, Core
<1>2. \A x \in DOMAIN s.db.offer : ~(x > o)
  BY <1>1, Tables
<1> QED
  BY <1>2 DEF Sweeping, Between

LEMMA ReadyEligible ==
    ASSUME NEW d, Core(d), NEW q, NEW x \in DOMAIN d.offer, Ready(d, x), Selects(q, d, x)
    PROVE  x \in Eligible(q, d)
<1> DEFINE l == d.offer[x].listing
<1>1. l \in DOMAIN d.listing /\ d.listing[l].root \in d.listing[l].goods
  BY DEF Core, Linked, Placed
<1>2. Live(d, x) /\ \A i \in d.listing[l].goods : Holds(d, d.listing[l].seller, i, {"listed"})
  BY DEF Ready
<1> QED
  BY <1>1, <1>2 DEF Eligible, Seller

LEMMA DequeuedIs ==
    ASSUME NEW s, NEW m \in Nat, Between(s, m), s.queue # <<>>
    PROVE  /\ Sweeping(Dequeued(s), Read(Head(s.queue), s.db), 0, m - 1) /\ m - 1 \in Nat
           /\ Dequeued(s).db = s.db
<1> DEFINE q == Head(s.queue)
           t == Dequeued(s)
           rest == Tail(s.queue)
           read == Read(q, s.db)
           rem == (s.left \ Swept(q)) \cup Unread(q, s.db)
<1>1. /\ s \in Sweeps /\ Sound(s.db, {}) /\ s.queue \in Seq(Selectors) /\ s.budget \in Nat /\ Core(s.db)
      /\ s.left \subseteq Players /\ Len(s.queue) + 2 * s.budget <= m /\ Typed(s.db)
  BY DEF Between, Sweeping, Sweeps, Typed, Sound, Core
<1>2. /\ q \in Selectors /\ q = s.queue[1] /\ rest \in Seq(Selectors)
      /\ Len(rest) = Len(s.queue) - 1
      /\ \A i \in 1 .. Len(rest) : rest[i] = s.queue[i + 1]
      /\ Len(s.queue) \in Nat /\ Len(s.queue) # 0
  BY <1>1, HeadTailProperties, EmptySeq
<1>3. DOMAIN s.queue = 1 .. Len(s.queue) /\ DOMAIN rest = 1 .. Len(rest) /\ Len(rest) \in Nat
  BY <1>1, <1>2, SeqIs
<1>4. Unread(q, s.db) \subseteq Players
  <2>1. \A x \in DOMAIN s.db.offer : s.db.offer[x].buyer \in Players
    BY <1>1, RowsOf
  <2> QED
    BY <2>1 DEF Unread, Eligible
<1>12. ASSUME NEW x \in DOMAIN s.db.offer, Ready(s.db, x), Selects(q, s.db, x)
       PROVE  x \in read \/ s.db.offer[x].buyer \in Unread(q, s.db)
  <2>1. x \in Eligible(q, s.db)
    BY <1>1, <1>12, ReadyEligible
  <2> QED
    BY <1>12, <2>1 DEF Unread
<1>11. ASSUME NEW x \in DOMAIN s.db.offer, s.db.offer[x].buyer \in Swept(q)
       PROVE  Selects(q, s.db, x)
  <2>1. CASE q = All
    BY <2>1 DEF All, Selects
  <2>2. CASE \E p \in Players : q = Buyer(p)
    BY <1>11, <2>2 DEF Buyer, Swept, Selects
  <2>3. CASE \E o \in Nat : q = Focus(o)
    BY <1>11, <2>3 DEF Focus, Swept
  <2> QED
    BY <1>2, <2>1, <2>2, <2>3 DEF Selectors
<1>5. t = [s EXCEPT !.queue = rest, !.left = rem]
  BY DEF Dequeued
<1>6. \A x \in DOMAIN s.db.offer : x > 0 /\ ~(x > Len(s.db.offer))
  BY <1>1, Tables
<1>7. ASSUME s.budget > 0, NEW x \in DOMAIN s.db.offer, Ready(s.db, x)
      PROVE  \/ s.db.offer[x].buyer \in s.left
             \/ Queued(s, x)
  BY <1>6, <1>7 DEF Between, Sweeping
<1> HIDE DEF t, rest, rem, read, q
<1>8. /\ t \in Sweeps /\ t.db = s.db /\ t.queue = rest /\ t.left = rem /\ t.budget = s.budget
  <2>1. rem \subseteq Players
    BY <1>1, <1>4 DEF rem
  <2> QED
    BY <1>1, <1>2, <1>5, <2>1 DEF Sweeps
<1>9. ASSUME s.budget > 0, NEW x \in DOMAIN s.db.offer, Ready(s.db, x)
      PROVE  \/ s.db.offer[x].buyer \in t.left
             \/ Queued(t, x)
             \/ x > 0 /\ x \in read
  <2>1. CASE s.db.offer[x].buyer \in s.left
    <3>1. t.left = (s.left \ Swept(q)) \cup Unread(q, s.db)
      BY <1>8 DEF rem
    <3>2. CASE s.db.offer[x].buyer \in Swept(q)
      <4>1. x \in read \/ s.db.offer[x].buyer \in Unread(q, s.db)
        BY <1>9, <1>11, <1>12, <3>2
      <4> QED
        BY <1>6, <3>1, <4>1
    <3>3. CASE s.db.offer[x].buyer \notin Swept(q)
      BY <2>1, <3>1, <3>3
    <3> QED
      BY <3>2, <3>3
  <2>2. CASE Queued(s, x)
    <3>1. PICK k \in DOMAIN s.queue : Selects(s.queue[k], s.db, x)
      BY <2>2 DEF Queued
    <3>2. CASE k = 1
      <4>1. Selects(q, s.db, x)
        BY <1>2, <3>1, <3>2
      <4>2. x \in read \/ s.db.offer[x].buyer \in Unread(q, s.db)
        BY <1>9, <1>12, <4>1
      <4>3. Unread(q, s.db) \subseteq t.left
        BY <1>8 DEF rem
      <4> QED
        BY <1>6, <4>2, <4>3
    <3>3. CASE k # 1
      <4>1. k - 1 \in DOMAIN rest /\ rest[k - 1] = s.queue[k]
        <5>1. k \in Nat /\ k <= Len(s.queue) /\ k >= 1
          BY <1>2, <1>3
        <5>2. k - 1 \in 1 .. Len(rest) /\ (k - 1) + 1 = k
          BY <1>2, <1>3, <3>3, <5>1
        <5> QED
          BY <1>2, <1>3, <5>2
      <4> QED
        BY <1>8, <3>1, <4>1 DEF Queued
    <3> QED
      BY <3>2, <3>3
  <2> QED
    BY <1>7, <1>9, <2>1, <2>2
<1>10. Len(rest) + 2 * s.budget <= m - 1 /\ m - 1 \in Nat
  BY <1>1, <1>2
<1> QED
  BY <1>1, <1>8, <1>9, <1>10 DEF Sweeping, t, read, q

PassSteps(s, g) ==
    g = [o \in 0 .. Len(s.db.offer) |->
           IF o = 0 THEN Dequeued(s)
           ELSE Visit(Read(Head(s.queue), s.db), g[o - 1], o)]

LEMMA PassIs ==
    ASSUME NEW s, NEW m \in Nat, Between(s, m), s.queue # <<>>
    PROVE  Between(Pass(s), m - 1) /\ m - 1 \in Nat
<1> DEFINE read == Read(Head(s.queue), s.db)
           n == Len(s.db.offer)
           In(o, t) == Sweeping(t, read, o, m - 1) /\ Len(t.db.offer) = n
           R == {z \in (0 .. n) \X Sweeps : In(z[1], z[2])}
           step == [z \in R |-> Visit(read, z[2], z[1] + 1)]
           a == Dequeued(s)
<1>1. n \in Nat
  <2>1. Typed(s.db)
    BY DEF Between, Sweeping, Sound, Core
  <2> QED
    BY <2>1, Tables
<1>2. In(0, a) /\ m - 1 \in Nat
  BY DequeuedIs
<1>3. ASSUME NEW i \in 1 .. n, NEW x, In(i - 1, x)
      PROVE  In(i, Visit(read, x, i))
  <2>1. Typed(x.db) /\ Len(x.db.offer) = n
    BY <1>3 DEF Sweeping, Sound, Core
  <2>2. i \in DOMAIN x.db.offer
    BY <2>1, Tables
  <2>3. Sweeping(x, read, i - 1, m - 1)
    BY <1>3
  <2>5. Due(x, read, i, m - 1)
    BY <1>2, <2>2, <2>3 DEF Due
  <2>6. Sweeping(Visit(read, x, i), read, i, m - 1)
        /\ Len(Visit(read, x, i).db.offer) = Len(x.db.offer)
    BY <2>5, Visited
  <2> QED
    BY <2>1, <2>6
<1>4. \A o, t : In(o, t) => t \in Sweeps
  BY DEF Sweeping
<1> HIDE DEF In, read, n, a
<1>5. \A i \in 0 .. n : \A t : <<i, t>> \in R <=> In(i, t)
  <2>1. \A i \in 0 .. n : \A t : <<i, t>>[1] = i /\ <<i, t>>[2] = t
    OBVIOUS
  <2> QED
    BY <1>4, <2>1
<1>6. ASSUME NEW i \in 1 .. n, NEW x, <<i - 1, x>> \in R
      PROVE  step[<<i - 1, x>>] = Visit(read, x, i) /\ <<i, step[<<i - 1, x>>]>> \in R
  <2>1. i - 1 \in 0 .. n /\ (i - 1) + 1 = i /\ i \in 0 .. n
    BY <1>1
  <2>2. step[<<i - 1, x>>] = Visit(read, x, i)
    BY <1>6, <2>1
  <2>3. In(i, Visit(read, x, i))
    BY <1>3, <1>5, <1>6, <2>1
  <2> HIDE DEF step, R
  <2> QED
    BY <1>5, <2>1, <2>2, <2>3
<1>7. <<0, a>> \in R
  <2>1. 0 \in 0 .. n
    BY <1>1
  <2> HIDE DEF R
  <2> QED
    BY <1>2, <1>5, <2>1
<1> HIDE DEF R, step
<1>8. \A i \in 1 .. n : \A x : <<i - 1, x>> \in R => <<i, step[<<i - 1, x>>]>> \in R
  BY <1>6
<1>9. PICK g : Recurs(n, R, step, a, g)
  BY <1>1, <1>7, <1>8, Recursion
<1>10. g = [i \in 0 .. n |-> IF i = 0 THEN a ELSE Visit(read, g[i - 1], i)]
  <2>1. g = [i \in 0 .. n |-> IF i = 0 THEN a ELSE step[<<i - 1, g[i - 1]>>]]
        /\ \A i \in 0 .. n : <<i, g[i]>> \in R
    BY <1>9 DEF Recurs
  <2>2. ASSUME NEW i \in 0 .. n
        PROVE  g[i] = IF i = 0 THEN a ELSE Visit(read, g[i - 1], i)
    <3>1. CASE i = 0
      BY <2>1, <3>1
    <3>2. CASE i # 0
      <4>1. i \in 1 .. n /\ i - 1 \in 0 .. n
        BY <1>1, <3>2
      <4>2. g[i] = step[<<i - 1, g[i - 1]>>]
        BY <2>1, <3>2
      <4> QED
        BY <1>6, <2>1, <3>2, <4>1, <4>2
    <3> QED
      BY <3>1, <3>2
  <2>3. g = [i \in 0 .. n |-> g[i]]
    BY <2>1
  <2> QED
    BY <2>2, <2>3
<1> DEFINE k == CHOOSE h : PassSteps(s, h)
<1>11. PassSteps(s, g)
  BY <1>10 DEF PassSteps, a, read, n
<1>12. Pass(s) = k[n] /\ PassSteps(s, k)
  <2>1. Pass(s) = k[n]
    BY DEF Pass, PassSteps, n
  <2> QED
    BY <1>11, <2>1
<1> HIDE DEF k
<1>13. \A i \in 0 .. n : k[i] = IF i = 0 THEN a ELSE Visit(read, k[i - 1], i)
  BY <1>12 DEF PassSteps, a, read, n
<1>14. <<0, k[0]>> \in R
  <2>1. 0 \in 0 .. n
    BY <1>1
  <2>2. k[0] = a
    BY <1>13, <2>1
  <2> QED
    BY <1>7, <2>2
<1>15. ASSUME NEW i \in 1 .. n, <<i - 1, k[i - 1]>> \in R PROVE <<i, k[i]>> \in R
  <2>1. i \in 0 .. n /\ i # 0
    BY <1>1
  <2>2. k[i] = Visit(read, k[i - 1], i)
    BY <1>13, <2>1
  <2> QED
    BY <1>6, <1>15, <2>2
<1>18. \A i \in 1 .. n : <<i - 1, k[i - 1]>> \in R => <<i, k[i]>> \in R
  BY <1>15
<1>19. \A i \in 0 .. n : <<i, k[i]>> \in R
  BY <1>1, <1>14, <1>18, RecursionIn
<1>16. <<n, k[n]>> \in R /\ n \in 0 .. n
  BY <1>1, <1>19
<1>17. In(n, k[n])
  BY <1>5, <1>16
<1> QED
  BY <1>2, <1>12, <1>17, BetweenPlaces DEF In

-------------------------------------------------------------------------------
\* After n passes at most m - n is left to do, or the sweep has ended.
Turned(s, n, m) ==
    /\ Between(s, m)
    /\ s.queue = <<>> \/ s.budget = 0 \/ Between(s, m - n)
DrainSteps(s, g) ==
    g = [n \in 0 .. Passes |-> IF n = 0 THEN s ELSE Turn(g[n - 1])]

LEMMA TurnIs ==
    ASSUME NEW s, NEW m \in Nat, NEW n \in 1 .. m, Turned(s, n - 1, m)
    PROVE  Turned(Turn(s), n, m)
<1>1. CASE s.queue = <<>> \/ s.budget = 0
  BY <1>1 DEF Turn, Turned
<1>2. CASE ~(s.queue = <<>> \/ s.budget = 0)
  <2> DEFINE m1 == m - (n - 1)
  <2>1. m1 \in Nat /\ Between(s, m1) /\ m1 - 1 = m - n /\ m - n <= m /\ m - n \in Int
    BY <1>2 DEF Turned
  <2> HIDE DEF m1
  <2>2. Turn(s) = Pass(s)
    BY <1>2 DEF Turn
  <2>3. Between(Pass(s), m - n) /\ m - n \in Nat
    <3>1. Between(Pass(s), m1 - 1) /\ m1 - 1 \in Nat
      BY <1>2, <2>1, PassIs
    <3> QED
      BY <2>1, <3>1
  <2>4. Between(Pass(s), m)
    <3> DEFINE p == Pass(s)
    <3>1. Between(p, m - n) /\ m - n \in Nat /\ m - n <= m
      BY <2>1, <2>3
    <3> HIDE DEF p
    <3>2. p.queue \in Seq(Selectors) /\ p.budget \in Nat
      BY <3>1 DEF Between, Sweeping, Sweeps
    <3>3. Len(p.queue) \in Nat
      BY <3>2, SeqIs
    <3>4. Len(p.queue) + 2 * p.budget <= m - n
      BY <3>1 DEF Between, Sweeping
    <3>5. Len(p.queue) + 2 * p.budget <= m
      BY <3>1, <3>2, <3>3, <3>4
    <3>6. Between(p, m)
      BY <3>1, <3>5 DEF Between, Sweeping
    <3> QED
      BY <3>6 DEF p
  <2> QED
    BY <2>2, <2>3, <2>4 DEF Turned
<1> QED
  BY <1>1, <1>2

\* A sweep ends, and leaves nothing ready but for the players who are left.
LEMMA DrainIs ==
    ASSUME NEW s, Between(s, Passes)
    PROVE  LET t == Drain(s) IN
           /\ t \in Sweeps /\ Sound(t.db, {}) /\ (t.budget # 0 => Waits(t.db, t.left))
<1> DEFINE R == {z \in (0 .. Passes) \X Sweeps : Turned(z[2], z[1], Passes)}
           step == [z \in R |-> Turn(z[2])]
<1>1. Passes \in Nat /\ Budget \in Nat \ {0}
  BY DEF Passes, MarketAssumption
<1>2. \A i \in 0 .. Passes : \A t : <<i, t>> \in R <=> Turned(t, i, Passes)
  <2>1. \A i \in 0 .. Passes : \A t : <<i, t>>[1] = i /\ <<i, t>>[2] = t
    OBVIOUS
  <2>2. \A i \in 0 .. Passes : \A t : Turned(t, i, Passes) => t \in Sweeps
    BY DEF Turned, Between, Sweeping
  <2> QED
    BY <2>1, <2>2
<1>3. ASSUME NEW i \in 1 .. Passes, NEW x, <<i - 1, x>> \in R
      PROVE  step[<<i - 1, x>>] = Turn(x) /\ <<i, Turn(x)>> \in R
  <2>1. i - 1 \in 0 .. Passes /\ i \in 0 .. Passes
    BY <1>1
  <2>2. step[<<i - 1, x>>] = Turn(x)
    BY <1>3
  <2> HIDE DEF step, R
  <2>3. Turned(x, i - 1, Passes)
    BY <1>2, <1>3, <2>1
  <2>4. Turned(Turn(x), i, Passes)
    BY <1>1, <2>3, TurnIs
  <2> QED
    BY <1>2, <2>1, <2>2, <2>4
<1>4. <<0, s>> \in R
  <2>1. 0 \in 0 .. Passes /\ Passes - 0 = Passes
    BY <1>1
  <2>2. Turned(s, 0, Passes)
    BY <2>1 DEF Turned
  <2> HIDE DEF R
  <2> QED
    BY <1>2, <2>1, <2>2
<1> HIDE DEF R, step
<1>5. \A i \in 1 .. Passes : \A x : <<i - 1, x>> \in R => <<i, step[<<i - 1, x>>]>> \in R
  BY <1>3
<1>6. PICK g : Recurs(Passes, R, step, s, g)
  BY <1>1, <1>4, <1>5, Recursion
<1>7. DrainSteps(s, g)
  <2>1. g = [i \in 0 .. Passes |-> IF i = 0 THEN s ELSE step[<<i - 1, g[i - 1]>>]]
        /\ \A i \in 0 .. Passes : <<i, g[i]>> \in R
    BY <1>6 DEF Recurs
  <2>2. ASSUME NEW i \in 0 .. Passes
        PROVE  g[i] = IF i = 0 THEN s ELSE Turn(g[i - 1])
    <3>1. CASE i = 0
      BY <2>1, <3>1
    <3>2. CASE i # 0
      <4>1. i \in 1 .. Passes /\ i - 1 \in 0 .. Passes
        BY <1>1, <3>2
      <4>2. g[i] = step[<<i - 1, g[i - 1]>>]
        BY <2>1, <3>2
      <4> QED
        BY <1>3, <2>1, <3>2, <4>1, <4>2
    <3> QED
      BY <3>1, <3>2
  <2>3. g = [i \in 0 .. Passes |-> g[i]]
    BY <2>1
  <2> QED
    BY <2>2, <2>3 DEF DrainSteps
<1> DEFINE k == CHOOSE h : DrainSteps(s, h)
<1>8. Drain(s) = k[Passes] /\ DrainSteps(s, k)
  <2>1. Drain(s) = k[Passes]
    BY DEF Drain, DrainSteps
  <2> QED
    BY <1>7, <2>1
<1> HIDE DEF k
<1>9. \A i \in 0 .. Passes : k[i] = IF i = 0 THEN s ELSE Turn(k[i - 1])
  BY <1>8 DEF DrainSteps
<1>10. <<0, k[0]>> \in R
  <2>1. 0 \in 0 .. Passes
    BY <1>1
  <2>2. k[0] = s
    BY <1>9, <2>1
  <2> QED
    BY <1>4, <2>2
<1>11. \A i \in 1 .. Passes : <<i - 1, k[i - 1]>> \in R => <<i, k[i]>> \in R
  <2> SUFFICES ASSUME NEW i \in 1 .. Passes, <<i - 1, k[i - 1]>> \in R PROVE <<i, k[i]>> \in R
    OBVIOUS
  <2>1. i \in 0 .. Passes /\ i # 0
    BY <1>1
  <2>2. k[i] = Turn(k[i - 1])
    BY <1>9, <2>1
  <2> QED
    BY <1>3, <2>2
<1>12. \A i \in 0 .. Passes : <<i, k[i]>> \in R
  BY <1>1, <1>10, <1>11, RecursionIn
<1> DEFINE t == Drain(s)
<1>13. Turned(t, Passes, Passes)
  <2>1. Passes \in 0 .. Passes
    BY <1>1
  <2> QED
    BY <1>2, <1>8, <1>12, <2>1
<1> HIDE DEF t
<1>14. t \in Sweeps /\ Sound(t.db, {}) /\ t.queue \in Seq(Selectors) /\ t.budget \in Nat
  BY <1>13 DEF Turned, Between, Sweeping, Sweeps
<1>15. Len(t.queue) \in Nat
  BY <1>14, SeqIs
<1>16. ASSUME t.budget # 0 PROVE t.queue = <<>>
  <2>1. CASE Between(t, Passes - Passes)
    <3>1. Len(t.queue) + 2 * t.budget <= Passes - Passes
      BY <2>1 DEF Between, Sweeping
    <3>2. t.budget = 0
      BY <1>1, <1>14, <1>15, <3>1
    <3> QED
      BY <1>16, <3>2
  <2> QED
    BY <1>13, <1>16, <2>1 DEF Turned
<1>17. ASSUME t.budget # 0, NEW x \in DOMAIN t.db.offer, Ready(t.db, x)
       PROVE  t.db.offer[x].buyer \in t.left
  <2>1. t.budget > 0
    BY <1>14, <1>17
  <2>2. ~Queued(t, x)
    BY <1>16, <1>17 DEF Queued
  <2>3. ~(x > Len(t.db.offer))
    <3>1. Typed(t.db)
      BY <1>14 DEF Sound, Core
    <3> QED
      BY <1>17, <3>1, Tables
  <2>4. Between(t, Passes)
    BY <1>13 DEF Turned
  <2> QED
    BY <1>17, <2>1, <2>2, <2>3, <2>4 DEF Between, Sweeping
<1> QED
  BY <1>14, <1>17 DEF Waits, t
===============================================================================
