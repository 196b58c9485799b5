-------------------------- MODULE IdentityProperties --------------------------
(***************************************************************************)
(* What the service promises about the copies of one item.                 *)
(***************************************************************************)
EXTENDS Identity

Entries == [row : Row, status : {"open", "withdrawn", "sold"}]
Tickets == [kind : {"deposit"}, source : Source, line : Row \cup {None}, writing : BOOLEAN]
           \cup [kind : {"claim"}, row : Row, writing : BOOLEAN]
TypeOK ==
    /\ owner \in [Row -> Players \cup {None}] /\ keeper \in [Row -> Players \cup {None}]
    /\ state \in [Row -> {"none", "available", "listed", "claiming", "delivered"}]
    /\ sold \subseteq Row
    /\ page \in [Players -> [Source -> {None} \cup Entries]]
    /\ spent \subseteq Players \X Source
    /\ reserved \in Players \cup {None}
    /\ ticket \in [Players -> {NoTicket} \cup Tickets]

Recorded(r) == keeper[r] # None
Held(r) == state[r] \in {"available", "listed", "claiming"}

(* A row has a Vault state exactly if it has a Vault record; only rows that *)
(* exist have one; what a claim delivers stays reserved for it; and the     *)
(* identity is reserved exactly for the player with an open deposit.        *)
RecordsAgree ==
    \A r \in Row : /\ Recorded(r) <=> state[r] # "none"
                   /\ Recorded(r) => owner[r] # None
ClaimsAreKept == \A p \in Players : Claiming(p) =>
                     keeper[ticket[p].row] = p /\ state[ticket[p].row] = "claiming"
ReservedByDeposit == \A p \in Players : reserved = p <=> Depositing(p)

(* What an open deposit has been admitted for stays true until its commit:  *)
(* the row that returns is delivered to the depositor, and without such a   *)
(* row nobody has deposited the item before.                                *)
AdmissionLasts ==
    \A p \in Players : Depositing(p) =>
        LET line == ticket[p].line
        IN  IF line = None THEN \A r \in Row : ~Recorded(r)
            ELSE keeper[line] = p /\ state[line] = "delivered"

(* Whatever copies the players own, publish and deposit, and in whatever    *)
(* order: one row at most stands for the item in the Vault (OneLedger), one *)
(* deposit of it at most is under way (one is reserved), and none while the *)
(* Vault holds it.  The inductive invariant of IdentityProofs.              *)
OneLedger == \A r, q \in Row : Recorded(r) /\ Recorded(q) => r = q
HostedOnce ==
    /\ TypeOK /\ OneLedger /\ RecordsAgree /\ ClaimsAreKept
    /\ ReservedByDeposit /\ AdmissionLasts
    /\ \A p \in Players, r \in Row : ~(Depositing(p) /\ Held(r))

(* If operators record no sale while a deposit is under way, the Vault      *)
(* holds an item for its owner in the items table, and whoever deposits it  *)
(* may: the row that returns is his, or no row has been held or sold.       *)
OwnersHost ==
    /\ \A r \in Row : Held(r) => owner[r] = keeper[r]
    /\ \A p \in Players : Depositing(p) =>
         IF ticket[p].line = None THEN Decisive = {} ELSE owner[ticket[p].line] = p
===============================================================================
