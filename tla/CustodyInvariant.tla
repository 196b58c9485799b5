--------------------------- MODULE CustodyInvariant ---------------------------
(***************************************************************************)
(* The inductive invariant of custody, in five layers.  Structure holds of *)
(* any behaviour; Position relates where the agent is to its journal and   *)
(* to the tickets of the service; Exclusion needs that no edit is mistaken *)
(* for the agent's work and says that the page tells whether the agent has *)
(* replaced it; Whereabouts says of every item that the ledger and the     *)
(* page agree; and Accounts says the same of the gold.                     *)
(***************************************************************************)
EXTENDS CustodyProperties

\* A transfer that was never journaled has left no trace.
Fresh ==
    \A t \in Txn : phase[t] = "none" =>
        /\ pointer # t
        /\ status[t] = "none" /\ writes[t] = 0
        /\ img[t] = None /\ req[t] = NoRequest
        /\ \A op \in Calls : <<op, t>> \notin late

\* A deposit is planned with its images; a withdrawal names what it collects.
WellFormed(r, i) ==
    /\ r.kind = "deposit" => i # None
    /\ r.kind = "withdrawal" <=> r.wid \in Wid

Requests ==
    /\ \A t \in Txn : WellFormed(req[t], img[t])
    /\ WellFormed(plan.req, plan.img)

\* An open delivery of a withdrawal is covered by what the withdrawal reserves.
Reservations ==
    \A t \in Txn : Open(t) /\ req[t].kind = "withdrawal" =>
        /\ wd[req[t].wid] = "delivering"
        /\ parcel[t].gold <= remaining[req[t].wid]

\* Away from idle and start the agent works on the transfer of the pointer, which
\* has its images from the check on; a new transfer starts when there is none.
AgentFollows ==
    /\ pc = "start" => pointer = None
    /\ pc \notin {"idle", "start"} => pointer # None
    /\ pc \in {"check", "authorize", "apply", "write", "mark"} => img[pointer] # None

Structure ==
    TypeOK /\ AgentFollows /\ Fresh /\ Requests /\ OneOpenTicket /\ Reservations

----------------------------------------------------------------------------
Settled == {"applied", "complete"}
Unwritten == {"prepare", "status", "plan", "cancel", "check", "authorize"}

\* Where the agent is says what the journal holds.
Journaled ==
    /\ pc \in Unwritten => phase[pointer] \notin Settled
    /\ pc \in {"apply", "write", "mark"} => phase[pointer] = "applying"
    /\ pc \in {"release", "commit"} => phase[pointer] = "applied"
    /\ pc = "finish" => phase[pointer] = "complete"
    /\ pc = "unlink" => phase[pointer] \in {"rejected", "empty", "cancelled"}
    /\ pc = "status" => MayReject(pointer)
    /\ pc \in {"plan", "cancel"} => img[pointer] = None

\* What the service answered still holds when the agent reads it, up to progress.
Truthful ==
    /\ reply # "none" => pc \in Calls
    /\ reply = "cancelled" => status[pointer] = "cancelled"
    /\ reply = "committed" => status[pointer] = "committed"
    /\ reply = "writing"   => status[pointer] \in {"writing", "committed"}

\* Authorized images are the journal's; a commit never precedes the receipt of
\* the write, a receipt never the authorization.
Tickets ==
    \A t \in Txn :
        /\ status[t] \in {"writing", "committed"} =>
               img[t] # None /\ proof[t] = img[t] /\ Distinct(t)
        /\ status[t] = "committed" => phase[t] \in Settled
        /\ phase[t] \in {"applying", "applied"} => status[t] \in {"writing", "committed"}
        /\ phase[t] = "complete" => status[t] = "committed"

\* An abandoned authorization has images, an abandoned commit a written page.
LateCalls ==
    \A t \in Txn :
        /\ <<"authorize", t>> \in late => img[t] # None
        /\ <<"commit", t>> \in late => phase[t] \in Settled

Position == Structure /\ Journaled /\ Truthful /\ Tickets /\ LateCalls

----------------------------------------------------------------------------
\* The agent is inside save_access only while the game cannot load the page; and
\* once Permit has been asked, the page is loaded under no journal that needs it.
PageHeld ==
    /\ pc \in Gated => Accessible
    /\ game = "open" /\ pointer # None => safe /\ phase[pointer] \in Settled

\* The page is not the one that a plan in memory is to make of it.
Planned ==
    pc = "start" /\ plan.img # None =>
        page # plan.img.after /\ plan.img.before # plan.img.after

\* Until the receipt, the image on the page says whether it has been written; a
\* page that is neither image says nothing.
OnImages ==
    \A t \in Txn : pointer = t /\ img[t] # None /\ phase[t] \notin Settled =>
        /\ page = img[t].before => writes[t] = 0
        /\ page = img[t].after /\ Distinct(t) => writes[t] = 1

\* One write per receipt, and none that no journal answers for.
Receipts ==
    /\ \A t \in Txn :
        /\ phase[t] \in Settled => writes[t] = 1
        /\ phase[t] \notin Settled /\ writes[t] # 0 =>
               /\ writes[t] = 1 /\ phase[t] = "applying"
               /\ pointer = t /\ img[t] # None
    /\ pc = "mark" => writes[pointer] = 1

Exclusion == Position /\ PageHeld /\ Planned /\ OnImages /\ Receipts

----------------------------------------------------------------------------
\* A deposit takes its goods off the page; a claim puts its parcel on the page,
\* and is planned only when the service has made the parcel.
Taken(r, i) == r.kind = "deposit" /\ i # None =>
    /\ r.goods.items \subseteq i.before.items
    /\ i.after.items = i.before.items \ r.goods.items

Placed(t) == ~IsDeposit(t) /\ img[t] # None =>
    /\ status[t] # "none"
    /\ img[t].after.items = img[t].before.items \cup parcel[t].items

Images ==
    /\ Taken(plan.req, plan.img)
    /\ plan.req.kind # "deposit" => plan.img = None
    /\ \A t \in Txn : Taken(req[t], img[t]) /\ Placed(t)
    /\ pc = "plan" \/ reply = "prepared" => status[pointer] # "none"

\* A ticket carries what was asked for, or what the Vault has set aside for it.
Parcels ==
    \A t \in Txn :
        /\ IsDeposit(t) /\ status[t] # "none" => parcel[t].items = req[t].goods.items
        /\ ~IsDeposit(t) /\ Open(t) => \A i \in parcel[t].items : state[i] = "claiming"

Leaving(i) == \E t \in Txn : DepositInTransit(t) /\ i \in parcel[t].items
Delivering(i) == \E t \in Txn : ClaimPlaced(t) /\ i \in parcel[t].items

\* The ledger says that the item is with the player.
WithPlayer(i) ==
    state[i] \in {"local", "delivered"} \/ (state[i] = "claiming" /\ Delivering(i))

Located(i) ==
    /\ WithPlayer(i) <=> i \in Visible.items \/ i \in carried.items \/ Leaving(i)
    /\ ~(i \in Visible.items /\ i \in carried.items)
    /\ Leaving(i) => i \notin Visible.items /\ i \notin carried.items

Whereabouts == Exclusion /\ Images /\ Parcels /\ \A i \in Item : Located(i)

----------------------------------------------------------------------------
\* The gold of the images differs by what the transfer moves, and no deposit was
\* planned on more gold than there is.
TakenGold(r, i) == r.kind = "deposit" /\ i # None =>
    /\ r.goods.gold <= i.before.gold /\ i.before.gold <= StartGold + OtherGold
    /\ i.after.gold = i.before.gold - r.goods.gold

PlacedGold(t) == ~IsDeposit(t) /\ img[t] # None =>
    img[t].after.gold = img[t].before.gold + parcel[t].gold

\* A deposit's ticket carries the gold that was asked for; only withdrawals
\* deliver gold.
ParcelGold(t) ==
    /\ IsDeposit(t) /\ status[t] # "none" => parcel[t].gold = req[t].goods.gold
    /\ status[t] = "none" \/ req[t].kind \in {"none", "items"} => parcel[t].gold = 0

GoldMoved ==
    /\ TakenGold(plan.req, plan.img)
    /\ \A t \in Txn : TakenGold(req[t], img[t]) /\ PlacedGold(t) /\ ParcelGold(t)

Accounts == Whereabouts /\ GoldMoved /\ GoldConserved
=============================================================================
