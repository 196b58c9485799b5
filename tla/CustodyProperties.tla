-------------------------- MODULE CustodyProperties --------------------------
(***************************************************************************)
(* What custody promises: goods are in exactly one place, a page is        *)
(* replaced exactly once per committed ticket and never without one, and   *)
(* every journaled transfer ends.                                          *)
(***************************************************************************)
EXTENDS Custody, Functions

\* What the player sees on the market page.
Visible == IF Loaded THEN mem ELSE page

\* A deposit that left the page and is not in the Vault yet.
DepositInTransit(t) == IsDeposit(t) /\ writes[t] > 0 /\ status[t] # "committed"

\* A claim that is on the page while the Vault still reserves it.
ClaimPlaced(t) == ~IsDeposit(t) /\ writes[t] > 0 /\ status[t] # "committed"

Places(i) ==
    {p \in {"page", "carried", "transit", "vault", "others"} :
        \/ p = "page"    /\ i \in Visible.items
        \/ p = "carried" /\ i \in carried.items
        \/ p = "transit" /\ \E t \in Txn : DepositInTransit(t) /\ i \in parcel[t].items
        \/ p = "vault"   /\ \/ state[i] \in {"listed", "available"}
                            \/ /\ state[i] = "claiming"
                               /\ ~\E t \in Txn : ClaimPlaced(t) /\ i \in parcel[t].items
        \/ p = "others"  /\ state[i] = "outside"}

\* Every item is in exactly one place: on the page, with the player, taken from
\* the page by a deposit the service has not committed, in the Vault, or with
\* another player.  A lost item has no place, a duplicated one has two.
ItemInOnePlace == \A i \in Item : Cardinality(Places(i)) = 1

Reserved == [w \in Wid |-> IF wd[w] \in {"queued", "delivering"} THEN remaining[w] ELSE 0]
Moved    == [t \in Txn |-> IF DepositInTransit(t) THEN parcel[t].gold ELSE 0]
Unpaid   == [t \in Txn |-> IF ClaimPlaced(t) THEN parcel[t].gold ELSE 0]

\* Gold is neither minted nor lost: what the player, the Vault, the withdrawals,
\* the deposits on their way and the other players hold always adds up, less the
\* claims that are on the page before the service has recorded their delivery.
GoldConserved ==
    Visible.gold + carried.gold + balance + otherGold
        + SumFunction(Reserved) + SumFunction(Moved)
    = StartGold + OtherGold + SumFunction(Unpaid)

\* The page is replaced once for a committed ticket, at most once while the write
\* is authorized, and never for a ticket that is missing, prepared or cancelled.
WrittenOnce ==
    \A t \in Txn :
        /\ status[t] = "committed" => writes[t] = 1
        /\ status[t] = "writing"   => writes[t] <= 1
        /\ status[t] \in {"none", "prepared", "cancelled"} => writes[t] = 0

\* One player has at most one ticket that may still change a save.
OneOpenTicket == \A t, u \in Txn : Open(t) /\ Open(u) => t = u

\* Every ticket that may still change a save is the one the agent must recover:
\* nothing else can finish it, and it keeps every other transfer waiting.
OpenTicketIsPending == \A t \in Txn : Open(t) => pointer = t

\* A receipt on disk is never ahead of the truth: applied means the page was
\* replaced under an authorization, complete means the service committed.
ReceiptsAreTrue ==
    \A t \in Txn :
        /\ phase[t] = "applied"  => writes[t] = 1 /\ status[t] \in {"writing", "committed"}
        /\ phase[t] = "complete" => writes[t] = 1 /\ status[t] = "committed"

\* What the service admitted it accepts at commit as well: once a deposit has
\* left the page, no check of activateDeposit can send it into limbo.
TakenDepositIsCommittable ==
    \A t \in Txn : DepositInTransit(t) /\ Open(t) => Admissible(parcel[t])

\* Outside the game only an authorized write changes the page, and only from the
\* image it was planned on: an edit of the player is never overwritten.
AuthorizedWrite ==
    page' # page /\ ~Loaded =>
        \E t \in Txn : /\ status[t] = "writing" /\ proof[t] = img[t]
                       /\ page = img[t].before /\ page' = img[t].after

OnlyAuthorizedWrites == [][AuthorizedWrite]_vars

\* A ticket is never reopened, and an authorized write can only commit.
Progress ==
    \A t \in Txn :
        /\ status[t] \in {"committed", "cancelled"} => status'[t] = status[t]
        /\ status[t] = "writing" => status'[t] \in {"writing", "committed"}

TicketOrder == [][Progress]_vars

\* From some time on the game stays closed, or stays in a game with the page
\* unloaded and its window published.  A player may withhold this for ever.
AccessStays == <>[]Accessible

\* A journal that the player has edited around is kept for reconciliation.
NeedsReconciliation(t) == img[t] # None /\ phase[t] \notin {"applied", "complete"} /\ ~PageMatches(t)

\* While the service answers and access stays, a journaled transfer ends: the agent
\* recovers it until its pointer is removed.  The exceptions are a page that is
\* neither image, and a rejection interrupted before the pointer was removed.
PendingResolves ==
    ServiceAnswers /\ AccessStays =>
        \A t \in Txn : pointer = t ~>
            pointer # t \/ phase[t] = "rejected" \/ NeedsReconciliation(t)

\* The journal of a rejected deposit is removed (custody-agent.py: "A rejected
\* deposit must not leave an unnecessary pending journal").
RejectionClears ==
    \A t \in Txn :
        pointer = t /\ IsDeposit(t) /\ phase[t] = "rejected" ~> pointer # t

\* Nor does a ticket keep the owner's other transfers waiting for ever.
OpenTicketEnds ==
    ServiceAnswers /\ AccessStays =>
        \A t \in Txn : Open(t) ~> ~Open(t) \/ NeedsReconciliation(t)

\* A page that is completely written returns to the player even if the service
\* never answers the commit.
AppliedPageReturns ==
    \A t \in Txn : pointer = t /\ phase[t] = "applied" ~> ~PendingBlocksPage
=============================================================================
