------------------------------- MODULE Identity -------------------------------
(***************************************************************************)
(* One persistent item identity (a saved UUID, or a seed with a base code) *)
(* and the owners who may host it.  Saves are the players' own files: a    *)
(* restored or copied save holds the identity again, so any player may     *)
(* publish or deposit a copy of it at any time, from any place of a stash  *)
(* page (a source key).  The service alone decides whether the copy is the *)
(* item.  A row is an entry of the items table with this identity; a copy  *)
(* that the service cannot recognise gets a row of its own.                *)
(*                                                                         *)
(* Every request is one transaction under lockScope, hence one action; a   *)
(* deposit is several: prepare, authorize, commit or cancel, with requests *)
(* of other players in between.  A refused request changes nothing and is  *)
(* no step.  Identities meet only in a deposit of several items, which is  *)
(* refused or accepted as a whole.                                         *)
(***************************************************************************)
EXTENDS Integers, FiniteSets

CONSTANTS
    \* owners of stashes
    Players,
    \* identifiers of rows; the code draws 32 random digits, this set bounds them
    Row,
    \* places on a published page: page, tab and the saved bytes with the position
    Source,
    \* absence of a player, a row or a publication
    None,
    \* whether operators record sales while a deposit is under way
    RacingSales

ASSUME IdentityAssumption ==
    /\ None \notin Players \cup Row /\ RacingSales \in BOOLEAN

VARIABLES owner,     \* items.owner of every row; None: no such row yet
          keeper,    \* escrow_items.owner, None before the first deposit
          state,     \* escrow_items.state, "none" before the first deposit
          sold,      \* rows of which an operator has recorded a sale
          page,      \* published_items of every player, with the listing's status
          spent,     \* custody_sources: places whose item has entered the Vault
          reserved,  \* identity_reservations: whose deposit holds the identity
          ticket     \* the open custody ticket of every player

ledger == <<owner, keeper, state, sold>>
vars == <<ledger, page, spent, reserved, ticket>>

NoTicket == [kind |-> "none"]
Init == /\ owner = [r \in Row |-> None] /\ keeper = [r \in Row |-> None]
        /\ state = [r \in Row |-> "none"] /\ sold = {}
        /\ page = [p \in Players |-> [s \in Source |-> None]] /\ spent = {}
        /\ reserved = None /\ ticket = [p \in Players |-> NoTicket]

-----------------------------------------------------------------------------
(* identityAdmission.  A row that has been in the Vault or was sold decides *)
(* alone; before that, nobody may advertise what somebody else advertises. *)
Used == {r \in Row : owner[r] # None}
Decisive == {r \in Used : keeper[r] # None \/ r \in sold}
\* Mutant: the owner of the Vault record decides, not the owner of the item.
RecordDelivered(p, r) == keeper[r] = p /\ state[r] = "delivered"
Delivered(p, r) == owner[r] = p /\ state[r] = "delivered"

On(p, r) == {s \in Source : page[p][s] # None /\ page[p][s].row = r}
Advertises(p, r) == \E s \in On(p, r) : page[p][s].status = "open"
Clear(p) == \A q \in Players \ {p}, r \in Used :
                owner[r] # p => ~Advertises(q, r)

\* Mutant: the reservation of another deposit is not looked up.
AdmitsReserved(p, line) ==
    IF Decisive = {} THEN Clear(p) ELSE line \in Decisive /\ Delivered(p, line)
Admits(p, line) ==
    /\ reserved = None
    /\ IF Decisive = {} THEN Clear(p) ELSE line \in Decisive /\ Delivered(p, line)
AdmitsPage(p) ==
    /\ reserved = None
    /\ IF Decisive = {} THEN Clear(p) ELSE \E r \in Row : Decisive = {r} /\ Delivered(p, r)

-----------------------------------------------------------------------------
(* publish.  The row is the one published from this place before, else the *)
(* one that decides, else the only one of this owner, else a new one.  The *)
(* page replaces the published one: entries elsewhere are withdrawn.       *)
Withdrawn(entry) == IF entry # None /\ entry.status = "open"
                    THEN [entry EXCEPT !.status = "withdrawn"] ELSE entry
Republished(old, s, r) ==
    [x \in Source |-> IF x = s THEN [row |-> r, status |-> "open"] ELSE Withdrawn(old[x])]
Own(p) == {r \in Used : owner[r] = p}
Known(p) == IF Decisive # {} THEN Decisive
            ELSE IF Cardinality(Own(p)) = 1 THEN Own(p) ELSE {}

Publish(p, s) ==
    /\ AdmitsPage(p) /\ <<p, s>> \notin spent
    /\ \E r \in IF page[p][s] # None THEN {page[p][s].row}
                ELSE IF Known(p) # {} THEN Known(p) ELSE Row \ Used :
        /\ r \in Used => owner[r] = p
        /\ page[p][s] # None => page[p][s].status # "sold"
        /\ owner' = [owner EXCEPT ![r] = p]
        /\ page' = [page EXCEPT ![p] = Republished(@, s, r)]
    /\ UNCHANGED <<keeper, state, sold, spent, reserved, ticket>>

(* The page without the item, or with a copy that is not admitted; and     *)
(* withdrawPhysical, before an item is moved.                              *)
Unpublish(p) ==
    /\ page' = [page EXCEPT ![p] = [s \in Source |-> Withdrawn(@[s])]]
    /\ UNCHANGED <<ledger, spent, reserved, ticket>>
WithdrawPhysical(p, r) ==
    /\ owner[r] = p /\ state[r] \in {"none", "delivered"}
    /\ page' = [page EXCEPT ![p] = [s \in Source |->
           IF s \in On(p, r) THEN Withdrawn(@[s]) ELSE @[s]]]
    /\ UNCHANGED <<ledger, spent, reserved, ticket>>

-----------------------------------------------------------------------------
(* depositPublication: the row under which the copy was published, found   *)
(* by its place, or else by its identity.                                  *)
Publications(p, s) ==
    IF page[p][s] # None THEN {page[p][s].row}
    ELSE {r \in Row : On(p, r) # {}}
Matches(p, s, line) ==
    /\ Cardinality(Publications(p, s)) <= 1
    /\ \A r \in Publications(p, s) :
         /\ owner[r] = p
         /\ line = None => keeper[r] = None
         /\ line # None => r = line
Returns(p, line) == line # None => keeper[line] = p /\ state[line] = "delivered"

Deposit(s, line) == [kind |-> "deposit", source |-> s, line |-> line, writing |-> FALSE]
Claim(r) == [kind |-> "claim", row |-> r, writing |-> FALSE]
Depositing(p) == ticket[p].kind = "deposit"
Claiming(p) == ticket[p].kind = "claim"

(* deposit_prepare *)
PrepareDeposit(p, s, line) ==
    /\ ticket[p] = NoTicket
    /\ Admits(p, line) /\ Returns(p, line) /\ Matches(p, s, line)
    /\ ticket' = [ticket EXCEPT ![p] = Deposit(s, line)] /\ reserved' = p
    /\ UNCHANGED <<ledger, page, spent>>

(* write_authorize *)
Authorize(p) == /\ ticket[p] # NoTicket /\ ticket' = [ticket EXCEPT ![p].writing = TRUE]
                /\ UNCHANGED <<ledger, page, spent, reserved>>

Release(p) == /\ ticket' = [ticket EXCEPT ![p] = NoTicket]
              /\ reserved' = IF reserved = p THEN None ELSE reserved

(* settleReady, at the end of a command, over the values the command has   *)
(* written: the goods of a listing change hands, or a payment, and what    *)
(* was bought may pay for the next trade.  The offers that decide it are   *)
(* not kept.  The sale it records concerns a row that decides anyway.      *)
Settle(own, keep, held) ==
    \/ owner' = own /\ keeper' = keep /\ state' = held
    \/ \E r \in Row, p \in Players :
         /\ held[r] = "available" \/ (held[r] = "listed" /\ own[r] = keep[r])
         /\ owner' = [own EXCEPT ![r] = p] /\ keeper' = [keep EXCEPT ![r] = p]
         /\ state' = [held EXCEPT ![r] = "available"]

(* cancel *)
Cancel(p) ==
    /\ ticket[p] # NoTicket /\ ~ticket[p].writing
    /\ Settle(owner, keeper, IF Claiming(p) THEN [state EXCEPT ![ticket[p].row] = "available"]
                             ELSE state)
    /\ Release(p) /\ UNCHANGED <<sold, page, spent>>

(* commit of a deposit: activateDeposit.  The identity is not admitted a   *)
(* second time; what is checked again is the publication and, for an item  *)
(* that returns, the Vault record.                                         *)
Retired(p, r) == [s \in Source |-> IF s \in On(p, r) THEN None ELSE page[p][s]]
CommitDeposit(p) ==
    LET s == ticket[p].source
        line == ticket[p].line
        rows == IF line # None THEN {line}
                ELSE IF Publications(p, s) # {} THEN Publications(p, s) ELSE Row \ Used
    IN  /\ Depositing(p) /\ ticket[p].writing
        /\ Matches(p, s, line) /\ Returns(p, line)
        /\ \E r \in rows, held \in {"available", "listed"} :
             /\ Settle(IF r \in Used THEN owner ELSE [owner EXCEPT ![r] = p],
                       [keeper EXCEPT ![r] = p], [state EXCEPT ![r] = held])
             /\ page' = [page EXCEPT ![p] = Retired(p, r)]
        /\ spent' = spent \cup {<<p, s>>}
        /\ Release(p) /\ UNCHANGED sold

(* reserveClaim and completeClaim *)
PrepareClaim(p, r) ==
    /\ ticket[p] = NoTicket /\ keeper[r] = p /\ state[r] = "available"
    /\ ticket' = [ticket EXCEPT ![p] = Claim(r)]
    /\ state' = [state EXCEPT ![r] = "claiming"]
    /\ UNCHANGED <<owner, keeper, sold, page, spent, reserved>>
CommitClaim(p) ==
    /\ Claiming(p) /\ ticket[p].writing
    /\ Settle(owner, keeper, [state EXCEPT ![ticket[p].row] = "delivered"])
    /\ Release(p) /\ UNCHANGED <<sold, page, spent>>

(* escrow_price and escrow_return; and the commands of the market, which   *)
(* settle trades too.                                                      *)
Price(p, r) ==
    /\ keeper[r] = p /\ state[r] \in {"available", "listed"}
    /\ \E held \in {"available", "listed"} : Settle(owner, keeper, [state EXCEPT ![r] = held])
    /\ UNCHANGED <<sold, page, spent, reserved, ticket>>
Trade == Settle(owner, keeper, state) /\ UNCHANGED <<sold, page, spent, reserved, ticket>>

(* sale: an operator records a sale of an item that is not in the Vault.   *)
RecordSale(p, q, r) ==
    /\ p # q /\ owner[r] = p /\ state[r] \in {"none", "delivered"}
    /\ RacingSales \/ reserved = None
    /\ owner' = [owner EXCEPT ![r] = q] /\ sold' = sold \cup {r}
    /\ page' = [x \in Players |-> [s \in Source |->
           IF s \in On(x, r) /\ page[x][s].status = "open"
           THEN [page[x][s] EXCEPT !.status = "sold"] ELSE page[x][s]]]
    /\ UNCHANGED <<keeper, state, spent, reserved, ticket>>

-----------------------------------------------------------------------------
Request(p) ==
    \/ \E s \in Source : \/ Publish(p, s)
                        \/ \E line \in Row \cup {None} : PrepareDeposit(p, s, line)
    \/ Unpublish(p) \/ Authorize(p) \/ Cancel(p) \/ CommitDeposit(p) \/ CommitClaim(p)
    \/ \E r \in Row : \/ WithdrawPhysical(p, r) \/ PrepareClaim(p, r) \/ Price(p, r)
                     \/ \E q \in Players : RecordSale(p, q, r)
Next == Trade \/ \E p \in Players : Request(p)

Spec == Init /\ [][Next]_vars
===============================================================================
