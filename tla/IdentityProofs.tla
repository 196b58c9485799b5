---------------------------- MODULE IdentityProofs ----------------------------
(***************************************************************************)
(* HostedOnce is inductive, and OwnersHost relative to it; both for any    *)
(* number of players, rows and places.                                     *)
(***************************************************************************)
EXTENDS IdentityProperties, TLAPS

States == {"none", "available", "listed", "claiming", "delivered"}
Owners == [Row -> Players \cup {None}]

(* A settlement moves only what the Vault has available or listed, keeps it *)
(* there, and makes the owners of item and record the same (settleReady).   *)
LEMMA SettleMoves ==
    ASSUME NEW own \in Owners, NEW keep \in Owners, NEW held \in [Row -> States],
           Settle(own, keep, held)
    PROVE  /\ owner' \in Owners /\ keeper' \in Owners /\ state' \in [Row -> States]
           /\ \A r \in Row :
                \/ owner'[r] = own[r] /\ keeper'[r] = keep[r] /\ state'[r] = held[r]
                \/ /\ held[r] \in {"available", "listed"} /\ state'[r] = "available"
                   /\ owner'[r] = keeper'[r] /\ keeper'[r] \in Players
<1>1. CASE owner' = own /\ keeper' = keep /\ state' = held
  BY <1>1
<1>2. ASSUME NEW r \in Row, NEW p \in Players,
             held[r] = "available" \/ (held[r] = "listed" /\ own[r] = keep[r]),
             owner' = [own EXCEPT ![r] = p], keeper' = [keep EXCEPT ![r] = p],
             state' = [held EXCEPT ![r] = "available"]
      PROVE  /\ owner' \in Owners /\ keeper' \in Owners /\ state' \in [Row -> States]
             /\ \A q \in Row :
                  \/ owner'[q] = own[q] /\ keeper'[q] = keep[q] /\ state'[q] = held[q]
                  \/ /\ held[q] \in {"available", "listed"} /\ state'[q] = "available"
                     /\ owner'[q] = keeper'[q] /\ keeper'[q] \in Players
  BY <1>2 DEF Owners, States
<1> QED
  BY <1>1, <1>2 DEF Settle

(***************************************************************************)
(* Types.                                                                  *)
(***************************************************************************)
LEMMA TypesInit == Init => TypeOK
  BY DEF Init, TypeOK

(* A deposit takes one row: the one that returns, the published one or a new one. *)
LEMMA DepositedRow ==
    ASSUME TypeOK, NEW p \in Players, CommitDeposit(p)
    PROVE  /\ ticket[p].source \in Source /\ ticket[p].line \in Row \cup {None}
           /\ \E r \in Row, held \in {"available", "listed"} :
                /\ IF ticket[p].line # None THEN r = ticket[p].line
                   ELSE r \in Publications(p, ticket[p].source) \cup (Row \ Used)
                /\ Settle(IF r \in Used THEN owner ELSE [owner EXCEPT ![r] = p],
                          [keeper EXCEPT ![r] = p], [state EXCEPT ![r] = held])
                /\ page' = [page EXCEPT ![p] = Retired(p, r)]
<1>1. /\ ticket[p] \in Tickets
      /\ ticket[p].source \in Source /\ ticket[p].line \in Row \cup {None}
  BY DEF TypeOK, CommitDeposit, Depositing, Tickets, NoTicket
<1> DEFINE line == ticket[p].line
           published == Publications(p, ticket[p].source)
           rows == IF line # None THEN {line}
                   ELSE IF published # {} THEN published ELSE Row \ Used
<1>2. published \subseteq Row
  BY <1>1 DEF TypeOK, Publications, Entries
<1>3. rows \subseteq Row
  BY <1>1, <1>2
<1>4. PICK r \in rows, held \in {"available", "listed"} :
          /\ Settle(IF r \in Used THEN owner ELSE [owner EXCEPT ![r] = p],
                    [keeper EXCEPT ![r] = p], [state EXCEPT ![r] = held])
          /\ page' = [page EXCEPT ![p] = Retired(p, r)]
  BY DEF CommitDeposit
<1> QED
  BY <1>1, <1>3, <1>4

LEMMA TypesStep == TypeOK /\ [Next]_vars => TypeOK'
<1> SUFFICES ASSUME TypeOK, [Next]_vars PROVE TypeOK'
  OBVIOUS
<1> USE IdentityAssumption DEF TypeOK
<1>a. owner \in Owners /\ keeper \in Owners /\ state \in [Row -> States]
  BY DEF Owners, States
<1>b. ASSUME owner' \in Owners, keeper' \in Owners, state' \in [Row -> States]
      PROVE  /\ owner' \in [Row -> Players \cup {None}]
             /\ keeper' \in [Row -> Players \cup {None}]
             /\ state' \in [Row -> {"none", "available", "listed", "claiming", "delivered"}]
  BY <1>b DEF Owners, States
<1>c. ASSUME NEW p \in Players, Release(p)
      PROVE  ticket' \in [Players -> {NoTicket} \cup Tickets] /\ reserved' \in Players \cup {None}
  BY <1>c DEF Release
<1>d. ASSUME NEW entry \in {None} \cup Entries
      PROVE  Withdrawn(entry) \in {None} \cup Entries
  BY <1>d DEF Withdrawn, Entries
<1>1. CASE UNCHANGED vars
  BY <1>1 DEF vars, ledger
<1>2. CASE Trade
  BY <1>2, <1>a, <1>b, SettleMoves DEF Trade
<1>3. ASSUME NEW p \in Players, NEW s \in Source, Publish(p, s) PROVE TypeOK'
  <2>a. page[p][s] # None => page[p][s].row \in Row
    BY DEF Entries
  <2>b. Known(p) \subseteq Row
    BY DEF Known, Own, Used, Decisive
  <2> DEFINE rows == IF page[p][s] # None THEN {page[p][s].row}
                     ELSE IF Known(p) # {} THEN Known(p) ELSE Row \ Used
  <2>c. rows \subseteq Row
    BY <2>a, <2>b
  <2>1. PICK r \in rows :
          /\ owner' = [owner EXCEPT ![r] = p]
          /\ page' = [page EXCEPT ![p] = Republished(page[p], s, r)]
    BY <1>3 DEF Publish
  <2>2. [row |-> r, status |-> "open"] \in Entries
    BY <2>c DEF Entries
  <2>3. page' \in [Players -> [Source -> {None} \cup Entries]]
    BY <2>1, <2>2, <1>d DEF Republished
  <2> QED
    BY <2>1, <2>3, <2>c, <1>3 DEF Publish
<1>4. ASSUME NEW p \in Players, Unpublish(p) PROVE TypeOK'
  BY <1>4, <1>d DEF Unpublish, ledger
<1>5. ASSUME NEW p \in Players, NEW r \in Row, WithdrawPhysical(p, r) PROVE TypeOK'
  BY <1>5, <1>d DEF WithdrawPhysical, ledger
<1>6. ASSUME NEW p \in Players, NEW s \in Source, NEW line \in Row \cup {None},
             PrepareDeposit(p, s, line)
      PROVE  TypeOK'
  BY <1>6 DEF PrepareDeposit, Deposit, Tickets, ledger
<1>7. ASSUME NEW p \in Players, Authorize(p) PROVE TypeOK'
  <2>1. ticket[p] \in Tickets
    BY <1>7 DEF Authorize
  <2>2. [ticket[p] EXCEPT !.writing = TRUE] \in Tickets
    BY <2>1 DEF Tickets
  <2> HIDE DEF Tickets
  <2>3. ticket' \in [Players -> {NoTicket} \cup Tickets]
    BY <1>7, <2>2 DEF Authorize
  <2> QED
    BY <1>7, <2>3 DEF Authorize, ledger
<1>8. ASSUME NEW p \in Players, Cancel(p) PROVE TypeOK'
  <2>1. (IF Claiming(p) THEN [state EXCEPT ![ticket[p].row] = "available"] ELSE state)
           \in [Row -> States]
    BY <1>a DEF States
  <2> QED
    BY <1>8, <2>1, <1>a, <1>b, <1>c, SettleMoves DEF Cancel
<1>9. ASSUME NEW p \in Players, CommitDeposit(p) PROVE TypeOK'
  <2>1. PICK r \in Row, held \in {"available", "listed"} :
          /\ Settle(IF r \in Used THEN owner ELSE [owner EXCEPT ![r] = p],
                    [keeper EXCEPT ![r] = p], [state EXCEPT ![r] = held])
          /\ page' = [page EXCEPT ![p] = Retired(p, r)]
          /\ ticket[p].source \in Source
    BY <1>9, DepositedRow
  <2>2. /\ (IF r \in Used THEN owner ELSE [owner EXCEPT ![r] = p]) \in Owners
        /\ [keeper EXCEPT ![r] = p] \in Owners /\ [state EXCEPT ![r] = held] \in [Row -> States]
    BY <1>a DEF Owners, States
  <2>3. owner' \in Owners /\ keeper' \in Owners /\ state' \in [Row -> States]
    BY <2>1, <2>2, SettleMoves
  <2>4. page' \in [Players -> [Source -> {None} \cup Entries]]
    BY <2>1 DEF Retired
  <2>5. spent' \subseteq Players \X Source
    BY <1>9, <2>1 DEF CommitDeposit
  <2> QED
    BY <1>9, <2>3, <2>4, <2>5, <1>b, <1>c DEF CommitDeposit
<1>10. ASSUME NEW p \in Players, CommitClaim(p) PROVE TypeOK'
  <2>1. [state EXCEPT ![ticket[p].row] = "delivered"] \in [Row -> States]
    BY <1>a DEF States
  <2> QED
    BY <1>10, <2>1, <1>a, <1>b, <1>c, SettleMoves DEF CommitClaim
<1>11. ASSUME NEW p \in Players, NEW r \in Row, PrepareClaim(p, r) PROVE TypeOK'
  BY <1>11 DEF PrepareClaim, Claim, Tickets
<1>12. ASSUME NEW p \in Players, NEW r \in Row, Price(p, r) PROVE TypeOK'
  <2>1. PICK held \in {"available", "listed"} :
          Settle(owner, keeper, [state EXCEPT ![r] = held])
    BY <1>12 DEF Price
  <2>2. [state EXCEPT ![r] = held] \in [Row -> States]
    BY <1>a DEF States
  <2> QED
    BY <1>12, <2>1, <2>2, <1>a, <1>b, SettleMoves DEF Price
<1>13. ASSUME NEW p \in Players, NEW q \in Players, NEW r \in Row, RecordSale(p, q, r)
       PROVE  TypeOK'
  BY <1>13 DEF RecordSale, On, Entries
<1> QED
  BY <1>1, <1>2, <1>3, <1>4, <1>5, <1>6, <1>7, <1>8, <1>9, <1>10, <1>11, <1>12, <1>13
     DEF Next, Request

(***************************************************************************)
(* One step of the inductive invariant.                                    *)
(***************************************************************************)
(* Commands that move at most their own row before trades settle (held are  *)
(* the states they settle from) leave everything else as it was.            *)
LEMMA SettledCommand ==
    ASSUME HostedOnce, NEW held \in [Row -> States], Settle(owner, keeper, held),
           \A r \in Row : \/ held[r] = state[r]
                          \/ /\ state[r] \in {"available", "listed", "claiming"}
                             /\ held[r] \in {"available", "listed", "delivered"}
    PROVE  /\ OneLedger' /\ RecordsAgree'
           /\ \A r \in Row : held[r] \notin {"available", "listed"} =>
                /\ owner'[r] = owner[r] /\ keeper'[r] = keeper[r] /\ state'[r] = held[r]
           /\ \A r \in Row : Recorded(r)' <=> Recorded(r)
           /\ \A r \in Row : Held(r)' =>
                /\ Held(r)
                /\ owner[r] = keeper[r] => owner'[r] = keeper'[r]
<1> USE IdentityAssumption DEF HostedOnce, TypeOK
<1>1. owner \in Owners /\ keeper \in Owners
  BY DEF Owners
<1>2. \A r \in Row :
        \/ owner'[r] = owner[r] /\ keeper'[r] = keeper[r] /\ state'[r] = held[r]
        \/ /\ held[r] \in {"available", "listed"} /\ state'[r] = "available"
           /\ owner'[r] = keeper'[r] /\ keeper'[r] \in Players
  BY <1>1, SettleMoves
<1>3. \A r \in Row : held[r] # "none" <=> state[r] # "none"
  OBVIOUS
<1>4. \A r \in Row : Recorded(r)' <=> Recorded(r)
  BY <1>2, <1>3 DEF RecordsAgree, Recorded
<1>5. OneLedger'
  BY <1>4 DEF OneLedger
<1>6. RecordsAgree'
  BY <1>2, <1>3, <1>4 DEF RecordsAgree, Recorded
<1>7. ASSUME NEW r \in Row, Held(r)'
      PROVE  Held(r) /\ (owner[r] = keeper[r] => owner'[r] = keeper'[r])
  BY <1>7, <1>2 DEF Held
<1> QED
  BY <1>2, <1>4, <1>5, <1>6, <1>7

(* No deposit is under way while the Vault holds the item.                  *)
LEMMA NoneHeld ==
    ASSUME OneLedger', RecordsAgree', AdmissionLasts', TypeOK'
    PROVE  \A p \in Players, r \in Row : ~(Depositing(p)' /\ Held(r)')
<1> SUFFICES ASSUME NEW p \in Players, NEW r \in Row, Depositing(p)', Held(r)' PROVE FALSE
  OBVIOUS
<1>1. Recorded(r)'
  BY DEF RecordsAgree, Held
<1>2. ticket'[p].line # None /\ ticket'[p].line \in Row
  BY <1>1 DEF AdmissionLasts, TypeOK, Depositing, Tickets, NoTicket
<1>3. keeper'[ticket'[p].line] = p /\ state'[ticket'[p].line] = "delivered"
  BY <1>2 DEF AdmissionLasts
<1>4. ticket'[p].line = r
  BY <1>1, <1>2, <1>3, IdentityAssumption DEF OneLedger, Recorded
<1> QED
  BY <1>3, <1>4 DEF Held

LEMMA HostedStep == HostedOnce /\ [Next]_vars => HostedOnce'
<1> SUFFICES ASSUME HostedOnce, [Next]_vars PROVE HostedOnce'
  OBVIOUS
<1> DEFINE Parts == OneLedger /\ RecordsAgree /\ ClaimsAreKept /\ ReservedByDeposit
                    /\ AdmissionLasts
<1>a. TypeOK /\ Parts /\ TypeOK'
  BY TypesStep DEF HostedOnce
<1>b. SUFFICES Parts'
  BY <1>a, NoneHeld DEF HostedOnce
<1> USE IdentityAssumption DEF TypeOK
\* Steps that leave the records and the tickets alone.
<1>1. ASSUME UNCHANGED <<keeper, state, reserved, ticket>>,
             \A r \in Row : owner[r] # None => owner'[r] # None
      PROVE  Parts'
  BY <1>a, <1>1 DEF OneLedger, RecordsAgree, ClaimsAreKept, ReservedByDeposit,
     AdmissionLasts, Recorded, Depositing, Claiming
<1>2. CASE UNCHANGED vars
  BY <1>1, <1>2 DEF vars, ledger
<1>3. ASSUME NEW p \in Players, NEW s \in Source, Publish(p, s) PROVE Parts'
  <2>1. PICK r : owner' = [owner EXCEPT ![r] = p]
    BY <1>3 DEF Publish
  <2> QED
    BY <1>a, <1>1, <1>3, <2>1 DEF Publish
<1>4. ASSUME NEW p \in Players, Unpublish(p) PROVE Parts'
  BY <1>1, <1>4 DEF Unpublish, ledger
<1>5. ASSUME NEW p \in Players, NEW r \in Row, WithdrawPhysical(p, r) PROVE Parts'
  BY <1>1, <1>5 DEF WithdrawPhysical, ledger
<1>6. ASSUME NEW p \in Players, NEW q \in Players, NEW r \in Row, RecordSale(p, q, r)
      PROVE  Parts'
  BY <1>a, <1>1, <1>6 DEF RecordSale
\* Steps that open or change a ticket.
<1>7. ASSUME NEW p \in Players, NEW s \in Source, NEW line \in Row \cup {None},
             PrepareDeposit(p, s, line)
      PROVE  Parts'
  <2>1. /\ UNCHANGED <<owner, keeper, state>> /\ reserved = None /\ reserved' = p
        /\ ticket[p] = NoTicket /\ ticket' = [ticket EXCEPT ![p] = Deposit(s, line)]
    BY <1>7 DEF PrepareDeposit, Admits, ledger
  <2>2. Depositing(p)' /\ ~Claiming(p)' /\ ticket'[p].line = line
    BY <1>a, <2>1 DEF Depositing, Claiming, Deposit
  <2>3. \A q \in Players : ~Depositing(q)
    BY <1>a, <2>1 DEF ReservedByDeposit
  <2>4. \A q \in Players \ {p} : ticket'[q] = ticket[q]
    BY <1>a, <2>1
  <2>5. IF line = None THEN \A r \in Row : ~Recorded(r)
        ELSE keeper[line] = p /\ state[line] = "delivered"
    BY <1>a, <1>7 DEF PrepareDeposit, Admits, Returns, Decisive, Used, Recorded, RecordsAgree
  <2>6. ReservedByDeposit' /\ AdmissionLasts'
    BY <2>1, <2>2, <2>3, <2>4, <2>5
       DEF ReservedByDeposit, AdmissionLasts, Depositing, Recorded
  <2> QED
    BY <1>a, <2>1, <2>2, <2>4, <2>6 DEF OneLedger, RecordsAgree, ClaimsAreKept, Recorded, Claiming
<1>8. ASSUME NEW p \in Players, Authorize(p) PROVE Parts'
  <2>1. \A q \in Players : /\ ticket'[q].kind = ticket[q].kind
                           /\ Depositing(q) => ticket'[q].line = ticket[q].line
                           /\ Claiming(q) => ticket'[q].row = ticket[q].row
    BY <1>a, <1>8 DEF Authorize, Tickets, NoTicket, Depositing, Claiming
  <2> QED
    BY <1>a, <1>8, <2>1 DEF Authorize, ledger, OneLedger, RecordsAgree, ClaimsAreKept,
       ReservedByDeposit, AdmissionLasts, Recorded, Depositing, Claiming
<1>9. ASSUME NEW p \in Players, NEW r \in Row, PrepareClaim(p, r) PROVE Parts'
  <2>1. /\ UNCHANGED <<owner, keeper, reserved>> /\ state' = [state EXCEPT ![r] = "claiming"]
        /\ ticket[p] = NoTicket /\ ticket' = [ticket EXCEPT ![p] = Claim(r)]
        /\ keeper[r] = p /\ state[r] = "available"
    BY <1>9 DEF PrepareClaim
  <2>2. ~Depositing(p) /\ ~Depositing(p)' /\ Claiming(p)' /\ ticket'[p].row = r
    BY <1>a, <2>1 DEF Depositing, Claiming, Claim, NoTicket
  <2>3. \A q \in Players \ {p} : ticket'[q] = ticket[q]
    BY <1>a, <2>1
  <2>4. OneLedger' /\ RecordsAgree'
    BY <1>a, <2>1 DEF OneLedger, RecordsAgree, Recorded
  <2>5. ClaimsAreKept'
    BY <1>a, <2>1, <2>2, <2>3 DEF ClaimsAreKept, Claiming, Tickets, NoTicket
  <2>6. ReservedByDeposit' /\ AdmissionLasts'
    BY <1>a, <2>1, <2>2, <2>3
       DEF ReservedByDeposit, AdmissionLasts, Depositing, Recorded, Tickets, NoTicket
  <2> QED
    BY <2>4, <2>5, <2>6
\* Commands that settle trades, and keep the tickets.
<1>10. ASSUME NEW held \in [Row -> States], Settle(owner, keeper, held),
              UNCHANGED <<reserved, ticket>>,
              \A r \in Row : \/ held[r] = state[r]
                             \/ /\ state[r] \in {"available", "listed"}
                                /\ held[r] \in {"available", "listed"}
       PROVE  Parts'
  <2>1. /\ OneLedger' /\ RecordsAgree'
        /\ \A r \in Row : held[r] \notin {"available", "listed"} =>
             /\ owner'[r] = owner[r] /\ keeper'[r] = keeper[r] /\ state'[r] = held[r]
        /\ \A r \in Row : Recorded(r)' <=> Recorded(r)
    BY <1>10, SettledCommand
  <2>2. ClaimsAreKept'
    <3> SUFFICES ASSUME NEW q \in Players, Claiming(q)
                 PROVE  keeper'[ticket[q].row] = q /\ state'[ticket[q].row] = "claiming"
      BY <1>10 DEF ClaimsAreKept, Claiming
    <3>1. /\ ticket[q].row \in Row /\ keeper[ticket[q].row] = q
          /\ state[ticket[q].row] = "claiming"
      BY <1>a DEF ClaimsAreKept, Claiming, Tickets, NoTicket
    <3> QED
      BY <1>10, <2>1, <3>1
  <2>3. ReservedByDeposit'
    BY <1>a, <1>10 DEF ReservedByDeposit, Depositing
  <2>4. AdmissionLasts'
    <3> SUFFICES ASSUME NEW q \in Players, Depositing(q)
                 PROVE  IF ticket[q].line = None THEN \A r \in Row : ~Recorded(r)'
                        ELSE /\ keeper'[ticket[q].line] = q
                             /\ state'[ticket[q].line] = "delivered"
      BY <1>10 DEF AdmissionLasts, Depositing
    <3>1. ticket[q].line \in Row \cup {None}
      BY <1>a DEF Depositing, Tickets, NoTicket
    <3>2. IF ticket[q].line = None THEN \A r \in Row : ~Recorded(r)
          ELSE keeper[ticket[q].line] = q /\ state[ticket[q].line] = "delivered"
      BY <1>a DEF AdmissionLasts
    <3>3. CASE ticket[q].line = None
      BY <2>1, <3>2, <3>3
    <3>4. CASE ticket[q].line # None
      BY <1>10, <2>1, <3>1, <3>2, <3>4
    <3> QED
      BY <3>3, <3>4
  <2> QED
    BY <2>1, <2>2, <2>3, <2>4
<1>11. CASE Trade
  BY <1>a, <1>10, <1>11 DEF Trade, States
<1>12. ASSUME NEW p \in Players, NEW r \in Row, Price(p, r) PROVE Parts'
  <2>1. PICK held \in {"available", "listed"} :
          Settle(owner, keeper, [state EXCEPT ![r] = held])
    BY <1>12 DEF Price
  <2>2. [state EXCEPT ![r] = held] \in [Row -> States]
    BY <1>a DEF States
  <2> QED
    BY <1>a, <1>10, <1>12, <2>1, <2>2 DEF Price
\* Commands that settle trades after a claim, or a deposit that is given up.
<1>13. ASSUME NEW p \in Players, NEW held \in [Row -> States],
              ticket[p] # NoTicket, Release(p), Settle(owner, keeper, held),
              IF Claiming(p)
              THEN \E to \in {"available", "delivered"} :
                     held = [state EXCEPT ![ticket[p].row] = to]
              ELSE held = state
       PROVE  Parts'
  <2>1. Claiming(p) => /\ ticket[p].row \in Row /\ keeper[ticket[p].row] = p
                       /\ state[ticket[p].row] = "claiming"
    BY <1>a DEF ClaimsAreKept, Claiming, Tickets, NoTicket
  <2>2. \A r \in Row : \/ held[r] = state[r]
                       \/ /\ Claiming(p) /\ r = ticket[p].row
                          /\ held[r] \in {"available", "delivered"}
    BY <1>a, <1>13, <2>1
  <2>3. /\ OneLedger' /\ RecordsAgree'
        /\ \A r \in Row : held[r] \notin {"available", "listed"} =>
             /\ owner'[r] = owner[r] /\ keeper'[r] = keeper[r] /\ state'[r] = held[r]
        /\ \A r \in Row : Recorded(r)' <=> Recorded(r)
    BY <1>13, <2>1, <2>2, SettledCommand
  <2>4. /\ \A q \in Players \ {p} : ticket'[q] = ticket[q]
        /\ ~Depositing(p)' /\ ~Claiming(p)'
        /\ reserved' = IF reserved = p THEN None ELSE reserved
    BY <1>a, <1>13 DEF Release, Depositing, Claiming, NoTicket
  <2>5. ClaimsAreKept'
    <3> SUFFICES ASSUME NEW q \in Players, Claiming(q)'
                 PROVE  keeper'[ticket'[q].row] = q /\ state'[ticket'[q].row] = "claiming"
      BY DEF ClaimsAreKept
    <3>1. q # p /\ ticket'[q] = ticket[q]
      BY <2>4
    <3>2. /\ ticket[q].row \in Row /\ keeper[ticket[q].row] = q
          /\ state[ticket[q].row] = "claiming"
      BY <1>a, <3>1 DEF ClaimsAreKept, Claiming, Tickets, NoTicket
    <3>3. held[ticket[q].row] = "claiming"
      BY <3>1, <3>2, <2>1, <2>2
    <3> QED
      BY <3>1, <3>2, <3>3, <2>3
  <2>6. ReservedByDeposit'
    BY <1>a, <2>4 DEF ReservedByDeposit, Depositing
  <2>7. AdmissionLasts'
    <3> SUFFICES ASSUME NEW q \in Players, Depositing(q)'
                 PROVE  IF ticket'[q].line = None THEN \A r \in Row : ~Recorded(r)'
                        ELSE /\ keeper'[ticket'[q].line] = q
                             /\ state'[ticket'[q].line] = "delivered"
      BY DEF AdmissionLasts
    <3>1. q # p /\ ticket'[q] = ticket[q] /\ Depositing(q)
      BY <2>4 DEF Depositing
    <3>2. ticket[q].line \in Row \cup {None}
      BY <1>a, <3>1 DEF Depositing, Tickets, NoTicket
    <3>3. CASE ticket[q].line = None
      BY <1>a, <3>1, <3>3, <2>3 DEF AdmissionLasts
    <3>4. CASE ticket[q].line # None
      <4>1. keeper[ticket[q].line] = q /\ state[ticket[q].line] = "delivered"
        BY <1>a, <3>1, <3>4 DEF AdmissionLasts
      <4>2. held[ticket[q].line] = "delivered"
        BY <3>2, <3>4, <4>1, <2>1, <2>2
      <4> QED
        BY <3>1, <3>2, <3>4, <4>1, <4>2, <2>3
    <3> QED
      BY <3>3, <3>4
  <2> QED
    BY <2>3, <2>5, <2>6, <2>7
<1>14. ASSUME NEW p \in Players, Cancel(p) PROVE Parts'
  <2> DEFINE held == IF Claiming(p) THEN [state EXCEPT ![ticket[p].row] = "available"]
                     ELSE state
  <2>1. held \in [Row -> States]
    BY <1>a DEF States
  <2> QED
    BY <1>13, <1>14, <2>1 DEF Cancel
<1>15. ASSUME NEW p \in Players, CommitClaim(p) PROVE Parts'
  <2>1. [state EXCEPT ![ticket[p].row] = "delivered"] \in [Row -> States]
    BY <1>a DEF States
  <2>2. Claiming(p) /\ ticket[p] # NoTicket
    BY <1>15 DEF CommitClaim, Claiming, NoTicket
  <2> QED
    BY <1>13, <1>15, <2>1, <2>2 DEF CommitClaim
<1>16. ASSUME NEW p \in Players, CommitDeposit(p) PROVE Parts'
  <2>1. PICK r \in Row, held \in {"available", "listed"} :
          /\ Settle(IF r \in Used THEN owner ELSE [owner EXCEPT ![r] = p],
                    [keeper EXCEPT ![r] = p], [state EXCEPT ![r] = held])
          /\ ticket[p].line # None => r = ticket[p].line
    BY <1>a, <1>16, DepositedRow
  <2> DEFINE own == IF r \in Used THEN owner ELSE [owner EXCEPT ![r] = p]
             keep == [keeper EXCEPT ![r] = p]
             from == [state EXCEPT ![r] = held]
  <2>2. own \in Owners /\ keep \in Owners /\ from \in [Row -> States]
    BY <1>a DEF Owners, States
  <2>3. \A q \in Row :
          \/ owner'[q] = own[q] /\ keeper'[q] = keep[q] /\ state'[q] = from[q]
          \/ /\ from[q] \in {"available", "listed"} /\ state'[q] = "available"
             /\ owner'[q] = keeper'[q] /\ keeper'[q] \in Players
    <3>1. Settle(own, keep, from)
      BY <2>1
    <3> HIDE DEF own, keep, from
    <3> QED
      BY <2>2, <3>1, SettleMoves
  <2>4. \A q \in Row \ {r} : ~Recorded(q) /\ state[q] = "none"
    BY <1>a, <1>16, <2>1
       DEF CommitDeposit, AdmissionLasts, OneLedger, RecordsAgree, Recorded
  <2>5. \A q \in Row \ {r} : keeper'[q] = None /\ state'[q] = "none"
    BY <1>a, <2>3, <2>4 DEF Recorded
  <2>6. keeper'[r] \in Players /\ state'[r] # "none" /\ owner'[r] # None
    BY <1>a, <2>3 DEF Used
  <2>7. OneLedger' /\ RecordsAgree'
    BY <2>5, <2>6 DEF OneLedger, RecordsAgree, Recorded
  <2>8. /\ \A q \in Players \ {p} : ticket'[q] = ticket[q] /\ ~Depositing(q)
        /\ ~Depositing(p)' /\ ~Claiming(p)' /\ reserved' = None
    BY <1>a, <1>16
       DEF CommitDeposit, ReservedByDeposit, Release, Depositing, Claiming, NoTicket
  <2>9. \A q \in Row : state[q] # "claiming"
    BY <1>a, <1>16, <2>1, <2>4 DEF CommitDeposit, AdmissionLasts, RecordsAgree, Recorded
  <2>10. \A q \in Players : ~Claiming(q)
    BY <1>a, <2>9 DEF ClaimsAreKept, Claiming, Tickets, NoTicket
  <2> QED
    BY <2>7, <2>8, <2>10
       DEF ClaimsAreKept, ReservedByDeposit, AdmissionLasts, Depositing, Claiming
<1> QED
  BY <1>2, <1>3, <1>4, <1>5, <1>6, <1>7, <1>8, <1>9, <1>11, <1>12, <1>14, <1>15, <1>16
     DEF Next, Request

(* An item is in the Vault once, whatever copies of it the players deposit. *)
THEOREM HostedOnceAlways == Spec => []HostedOnce
<1>1. Init => HostedOnce
  BY TypesInit, IdentityAssumption DEF Init, HostedOnce, OneLedger, RecordsAgree,
     ClaimsAreKept, ReservedByDeposit, AdmissionLasts, Recorded, Held, Depositing,
     Claiming, NoTicket
<1> QED
  BY <1>1, HostedStep, PTL DEF Spec

(***************************************************************************)
(* Owners.                                                                 *)
(***************************************************************************)
(* A command that settles trades from the states held leaves alone what     *)
(* the open deposits q were admitted for.                                   *)
LEMMA OwnersSettled ==
    ASSUME HostedOnce, HostedOnce', OwnersHost, UNCHANGED sold,
           NEW held \in [Row -> States], Settle(owner, keeper, held),
           \A r \in Row : \/ held[r] = state[r]
                          \/ /\ state[r] \in {"available", "listed", "claiming"}
                             /\ held[r] \in {"available", "listed", "delivered"},
           \A q \in Players : Depositing(q)' => ticket'[q] = ticket[q]
    PROVE  OwnersHost'
<1> USE IdentityAssumption DEF HostedOnce, TypeOK
<1>1. /\ \A r \in Row : held[r] \notin {"available", "listed"} =>
           /\ owner'[r] = owner[r] /\ keeper'[r] = keeper[r] /\ state'[r] = held[r]
      /\ \A r \in Row : Held(r)' => Held(r) /\ (owner[r] = keeper[r] => owner'[r] = keeper'[r])
  BY SettledCommand
<1>2. ASSUME NEW r \in Row, Held(r)' PROVE owner'[r] = keeper'[r]
  <2>1. Held(r)
    BY <1>1, <1>2
  <2>2. owner[r] = keeper[r]
    BY <2>1 DEF OwnersHost
  <2> QED
    BY <1>1, <1>2, <2>2
<1>3. ASSUME NEW q \in Players, Depositing(q)'
      PROVE  IF ticket'[q].line = None THEN Decisive' = {} ELSE owner'[ticket'[q].line] = q
  <2>1. /\ ticket'[q] = ticket[q] /\ Depositing(q)
        /\ ticket[q].line \in Row \cup {None}
    <3>1. ticket'[q] = ticket[q]
      BY <1>3
    <3>2. Depositing(q)
      BY <1>3, <3>1 DEF Depositing
    <3>3. ticket[q] \in Tickets
      BY <3>2 DEF Depositing, NoTicket
    <3>4. ticket[q].line \in Row \cup {None}
      BY <3>2, <3>3 DEF Depositing, Tickets
    <3> QED
      BY <3>1, <3>2, <3>4
  <2>2. CASE ticket[q].line = None
    <3>1. Decisive = {} /\ \A r \in Row : state[r] = "none"
      BY <2>1, <2>2 DEF OwnersHost, AdmissionLasts, RecordsAgree
    <3>2. \A r \in Row : held[r] = "none"
      <4> SUFFICES ASSUME NEW r \in Row PROVE held[r] = "none"
        OBVIOUS
      <4>1. state[r] = "none"
        BY <3>1
      <4> QED
        BY <4>1
    <3>3. \A r \in Row : owner'[r] = owner[r] /\ keeper'[r] = keeper[r]
      BY <1>1, <3>2
    <3>4. Decisive' = {}
      BY <3>1, <3>3 DEF Decisive, Used
    <3> QED
      BY <2>1, <2>2, <3>4
  <2>3. CASE ticket[q].line # None
    <3>1. state[ticket[q].line] = "delivered" /\ owner[ticket[q].line] = q
      BY <2>1, <2>3 DEF OwnersHost, AdmissionLasts
    <3>2. held[ticket[q].line] = "delivered"
      <4>1. ticket[q].line \in Row
        BY <2>1, <2>3
      <4> QED
        BY <3>1, <4>1
    <3>3. owner'[ticket[q].line] = q
      <4>1. ticket[q].line \in Row
        BY <2>1, <2>3
      <4> QED
        BY <1>1, <3>1, <3>2, <4>1
    <3> QED
      BY <2>1, <2>3, <3>3
  <2> QED
    BY <2>2, <2>3
<1> QED
  BY <1>2, <1>3 DEF OwnersHost

LEMMA OwnersStep ==
    ASSUME RacingSales = FALSE
    PROVE  HostedOnce /\ HostedOnce' /\ OwnersHost /\ [Next]_vars => OwnersHost'
<1> SUFFICES ASSUME HostedOnce, HostedOnce', OwnersHost, [Next]_vars PROVE OwnersHost'
  OBVIOUS
<1> USE IdentityAssumption
<1>a. TypeOK /\ TypeOK'
  BY DEF HostedOnce
\* Requests that neither open a deposit nor touch the ledger.
<1>1. ASSUME UNCHANGED ledger,
             \A q \in Players : Depositing(q)' =>
                 Depositing(q) /\ ticket'[q].line = ticket[q].line
      PROVE  OwnersHost'
  BY <1>1 DEF OwnersHost, ledger, Held, Decisive, Used
<1>2. CASE UNCHANGED vars
  BY <1>1, <1>2 DEF vars, Depositing
<1>3. ASSUME NEW p \in Players, Unpublish(p) PROVE OwnersHost'
  BY <1>1, <1>3 DEF Unpublish, Depositing
<1>4. ASSUME NEW p \in Players, NEW r \in Row, WithdrawPhysical(p, r) PROVE OwnersHost'
  BY <1>1, <1>4 DEF WithdrawPhysical, Depositing
<1>5. ASSUME NEW p \in Players, Authorize(p) PROVE OwnersHost'
  <2>1. \A q \in Players : Depositing(q)' =>
            Depositing(q) /\ ticket'[q].line = ticket[q].line
    BY <1>a, <1>5 DEF Authorize, TypeOK, Tickets, NoTicket, Depositing
  <2> QED
    BY <1>1, <1>5, <2>1 DEF Authorize
\* Nobody has a deposit under way.
<1>6. ASSUME reserved = None, UNCHANGED <<reserved, keeper, state>>,
             \A r \in Row : Held(r) => owner'[r] = owner[r]
      PROVE  OwnersHost'
  <2>1. \A q \in Players : ~Depositing(q)'
    BY <1>6 DEF HostedOnce, ReservedByDeposit
  <2> QED
    BY <1>6, <2>1 DEF OwnersHost, Held
<1>7. ASSUME NEW p \in Players, NEW s \in Source, Publish(p, s) PROVE OwnersHost'
  <2>1. PICK r : owner' = [owner EXCEPT ![r] = p] /\ (r \in Used => owner[r] = p)
    BY <1>7 DEF Publish
  <2>2. \A q \in Row : Held(q) => q \in Used
    BY DEF HostedOnce, RecordsAgree, Recorded, Held, Used
  <2>3. \A q \in Row : Held(q) => owner'[q] = owner[q]
    BY <1>a, <2>1, <2>2 DEF TypeOK
  <2> QED
    BY <1>6, <1>7, <2>3 DEF Publish, AdmitsPage
<1>8. ASSUME NEW p \in Players, NEW q \in Players, NEW r \in Row, RecordSale(p, q, r)
      PROVE  OwnersHost'
  <2>1. \A i \in Row : Held(i) => owner'[i] = owner[i]
    BY <1>a, <1>8 DEF RecordSale, Held, TypeOK
  <2> QED
    BY <1>6, <1>8, <2>1 DEF RecordSale
\* A deposit is admitted.
<1>9. ASSUME NEW p \in Players, NEW s \in Source, NEW line \in Row \cup {None},
             PrepareDeposit(p, s, line)
      PROVE  OwnersHost'
  <2>1. /\ UNCHANGED ledger /\ reserved' = p
        /\ ticket' = [ticket EXCEPT ![p] = Deposit(s, line)]
    BY <1>9 DEF PrepareDeposit
  <2>2. ticket'[p].line = line
    BY <1>a, <2>1 DEF TypeOK, Deposit
  <2>3. \A q \in Players \ {p} : ~Depositing(q)'
    BY <2>1 DEF HostedOnce, ReservedByDeposit
  <2>4. IF line = None THEN Decisive = {} ELSE owner[line] = p
    BY <1>9 DEF PrepareDeposit, Admits, Returns, Decisive, Delivered, Used, HostedOnce,
       RecordsAgree, Recorded
  <2>5. Decisive' = Decisive
    BY <2>1 DEF Decisive, Used, ledger
  <2> QED
    BY <2>1, <2>2, <2>3, <2>4, <2>5 DEF OwnersHost, ledger, Held
\* Claims and trades.
<1>10. ASSUME NEW p \in Players, NEW r \in Row, PrepareClaim(p, r) PROVE OwnersHost'
  <2>1. /\ UNCHANGED <<owner, keeper, sold>> /\ state' = [state EXCEPT ![r] = "claiming"]
        /\ state[r] = "available"
        /\ ticket' = [ticket EXCEPT ![p] = Claim(r)]
    BY <1>10 DEF PrepareClaim
  <2>2. \A q \in Row : Held(q)' => Held(q)
    BY <1>a, <2>1 DEF TypeOK, Held
  <2>3. \A q \in Players : Depositing(q)' => ticket'[q] = ticket[q] /\ Depositing(q)
    BY <1>a, <2>1 DEF TypeOK, Depositing, Claim
  <2>4. Decisive' = Decisive
    BY <2>1 DEF Decisive, Used
  <2> QED
    BY <2>1, <2>2, <2>3, <2>4 DEF OwnersHost
<1>11. CASE Trade
  BY <1>a, <1>11, OwnersSettled DEF Trade, TypeOK, States
<1>12. ASSUME NEW p \in Players, NEW r \in Row, Price(p, r) PROVE OwnersHost'
  <2>1. PICK held \in {"available", "listed"} :
          Settle(owner, keeper, [state EXCEPT ![r] = held])
    BY <1>12 DEF Price
  <2>2. [state EXCEPT ![r] = held] \in [Row -> States]
    BY <1>a DEF States, TypeOK
  <2> QED
    BY <1>a, <1>12, <2>1, <2>2, OwnersSettled DEF Price, TypeOK
\* A claim ends, or a deposit is given up.
<1>13. ASSUME NEW p \in Players, NEW held \in [Row -> States],
              Release(p), UNCHANGED sold, Settle(owner, keeper, held),
              IF Claiming(p)
              THEN \E to \in {"available", "delivered"} :
                     held = [state EXCEPT ![ticket[p].row] = to]
              ELSE held = state
       PROVE  OwnersHost'
  <2>1. Claiming(p) => ticket[p].row \in Row /\ state[ticket[p].row] = "claiming"
    BY <1>a DEF TypeOK, HostedOnce, ClaimsAreKept, Claiming, Tickets, NoTicket
  <2>2. \A r \in Row : \/ held[r] = state[r]
                       \/ /\ state[r] \in {"available", "listed", "claiming"}
                          /\ held[r] \in {"available", "listed", "delivered"}
    BY <1>a, <1>13, <2>1 DEF TypeOK
  <2>3. \A q \in Players : Depositing(q)' => ticket'[q] = ticket[q]
    BY <1>a, <1>13 DEF TypeOK, Release, Depositing, NoTicket
  <2> QED
    BY <1>13, <2>2, <2>3, OwnersSettled
<1>14. ASSUME NEW p \in Players, Cancel(p) PROVE OwnersHost'
  <2> DEFINE held == IF Claiming(p) THEN [state EXCEPT ![ticket[p].row] = "available"]
                     ELSE state
  <2>1. held \in [Row -> States]
    BY <1>a DEF States, TypeOK
  <2> QED
    BY <1>13, <1>14, <2>1 DEF Cancel
<1>15. ASSUME NEW p \in Players, CommitClaim(p) PROVE OwnersHost'
  <2>1. [state EXCEPT ![ticket[p].row] = "delivered"] \in [Row -> States]
    BY <1>a DEF States, TypeOK
  <2> QED
    BY <1>13, <1>15, <2>1 DEF CommitClaim
\* A deposit ends: its row belongs to the depositor.
<1>16. ASSUME NEW p \in Players, CommitDeposit(p) PROVE OwnersHost'
  <2>1. PICK r \in Row, held \in {"available", "listed"} :
          /\ Settle(IF r \in Used THEN owner ELSE [owner EXCEPT ![r] = p],
                    [keeper EXCEPT ![r] = p], [state EXCEPT ![r] = held])
          /\ IF ticket[p].line # None THEN r = ticket[p].line
             ELSE r \in Publications(p, ticket[p].source) \cup (Row \ Used)
    BY <1>a, <1>16, DepositedRow
  <2> DEFINE own == IF r \in Used THEN owner ELSE [owner EXCEPT ![r] = p]
             keep == [keeper EXCEPT ![r] = p]
             from == [state EXCEPT ![r] = held]
  <2>2. own \in Owners /\ keep \in Owners /\ from \in [Row -> States]
    BY <1>a DEF Owners, States, TypeOK
  <2>3. \A q \in Row :
          \/ owner'[q] = own[q] /\ keeper'[q] = keep[q] /\ state'[q] = from[q]
          \/ /\ from[q] \in {"available", "listed"} /\ state'[q] = "available"
             /\ owner'[q] = keeper'[q] /\ keeper'[q] \in Players
    <3>1. Settle(own, keep, from)
      BY <2>1
    <3> HIDE DEF own, keep, from
    <3> QED
      BY <2>2, <3>1, SettleMoves
  <2>4. own[r] = p
    BY <1>a, <1>16, <2>1
       DEF CommitDeposit, Matches, Returns, OwnersHost, Used, TypeOK
  <2>5. keep[r] = p
    BY <1>a DEF TypeOK
  <2>6. \A q \in Row \ {r} : ~Held(q)
    BY <1>16, <2>1 DEF CommitDeposit, HostedOnce
  <2>7. \A q \in Row : Held(q)' => owner'[q] = keeper'[q]
    BY <1>a, <2>3, <2>4, <2>5, <2>6 DEF Held, TypeOK
  <2>8. \A q \in Players : ~Depositing(q)'
    BY <1>16, <1>a
       DEF CommitDeposit, HostedOnce, ReservedByDeposit, Release
  <2> QED
    BY <2>7, <2>8 DEF OwnersHost
<1> QED
  BY <1>2, <1>3, <1>4, <1>5, <1>7, <1>8, <1>9, <1>10, <1>11, <1>12, <1>14, <1>15, <1>16
     DEF Next, Request

(* If operators record no sale while a deposit is under way, the Vault      *)
(* never takes an item from somebody whom the items table does not name.    *)
THEOREM OwnersHostAlways ==
    ASSUME RacingSales = FALSE
    PROVE  Spec => []OwnersHost
<1>1. Init => OwnersHost
  BY DEF Init, OwnersHost, Held, Depositing, NoTicket
<1>2. HostedOnce /\ HostedOnce' /\ OwnersHost /\ [Next]_vars => OwnersHost'
  BY OwnersStep
<1> QED
  BY <1>1, <1>2, HostedOnceAlways, PTL DEF Spec
===============================================================================
