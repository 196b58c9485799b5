------------------------------- MODULE Custody -------------------------------
(***************************************************************************)
(* One player's market page, the save agent that edits it, the game that   *)
(* loads it, and the Vault service that keeps the authoritative ledger.    *)
(*                                                                         *)
(* The agent (tools/marketplace/custody-agent.py) moves goods between a    *)
(* stash file and the Vault through a journaled transaction: an intent     *)
(* with before/after images, a ticket prepared by the service, a write     *)
(* authorization, the page replacement, and a commit.  The service         *)
(* (server/Escrow.php, server/Wallet.php) runs each request in one         *)
(* database transaction under the scope lock, so a request is one step     *)
(* here.  Every step of the agent may be its last: Abort stands for a      *)
(* crash, a lost or timed-out answer, or an exception that unwinds to the  *)
(* watch loop, and only the durable files survive it.                      *)
(***************************************************************************)
EXTENDS Naturals, FiniteSets

CONSTANTS
    Txn,            \* transaction identities (uuid4 of the agent), never reused
    Item,           \* items with a persistent identity
    Wid,            \* identities of wallet withdrawals
    None,           \* absence of a transaction, an image or a withdrawal
    StartGold,      \* gold on the market page in the initial state
    OtherGold,      \* gold other players can spend in trades with this one
    GoldCap,        \* gold the page can hold
    ItemCap,        \* items the page can hold
    MaxFaults,      \* bound on the number of aborts
    LateRequests,   \* an abandoned request may still reach the service
    OperatorSales   \* operators record sales made outside the Vault

ASSUME ConstantsAssumption ==
    /\ None \notin Txn /\ None \notin Wid
    /\ IsFiniteSet(Txn) /\ IsFiniteSet(Item) /\ IsFiniteSet(Wid)
    /\ {StartGold, OtherGold, GoldCap, ItemCap, MaxFaults} \subseteq Nat
    /\ {LateRequests, OperatorSales} \subseteq BOOLEAN

VARIABLES
    \* Files of the agent and of the game.
    page,       \* contents of the market page file
    pointer,    \* pending.json: the transaction that must be recovered
    safe,       \* pending.json: reload_safe
    phase,      \* record.json of every transaction: phase
    req,        \* record.json: request
    img,        \* record.json: images, and the delivered layout with them
    \* The agent process.
    pc,         \* where run() is; a call in progress has the name of its type
    reply,      \* the answer to the call in progress
    plan,       \* request and image of a transaction not journaled yet
    faults,     \* number of aborts so far
    late,       \* abandoned requests still in the network
    \* The game process.
    game,       \* whether it runs, and what it has done with the market page
    mem,        \* contents of the loaded page in game memory
    carried,    \* what the player has outside the market page
    \* The service.
    status,     \* custody_tickets.status
    parcel,     \* custody_tickets.packet: the goods of the ticket
    proof,      \* custody_tickets.proof: the authorized save images
    state,      \* escrow_items.state of every item
    requested,  \* items with metadata.delivery_requested
    balance,    \* escrow_balances: spendable gold
    wd,         \* wallet_withdrawals.status
    remaining,  \* wallet_withdrawals.remaining
    otherGold,  \* spendable gold of the other players
    foreign,    \* items whose ledger row belongs to another player
    \* History.
    writes      \* number of times the agent replaced the page for a transaction

diskVars    == <<page, pointer, safe, phase, req, img, writes>>
agentVars   == <<pc, reply, plan, faults, late>>
gameVars    == <<game, mem, carried>>
ticketVars  == <<status, parcel, proof>>
ledgerVars  == <<state, requested, balance, wd, remaining, otherGold, foreign>>
serviceVars == <<ticketVars, ledgerVars>>
vars        == <<diskVars, agentVars, gameVars, serviceVars>>

----------------------------------------------------------------------------
(***************************************************************************)
(* Goods: a set of identified items and an amount of fungible gold.  Two   *)
(* pages with the same items and the same gold have the same bytes, so the *)
(* digest comparisons of the code are equalities of goods.                 *)
(***************************************************************************)
Goods   == [items : SUBSET Item, gold : Nat]
Nothing == [items |-> {}, gold |-> 0]

Plus(g, h)   == [items |-> g.items \cup h.items, gold |-> g.gold + h.gold]
Minus(g, h)  == [items |-> g.items \ h.items, gold |-> g.gold - h.gold]
Fits(g)      == Cardinality(g.items) <= ItemCap /\ g.gold <= GoldCap
Lesser(m, n) == IF m <= n THEN m ELSE n

Image    == [before : Goods, after : Goods]

\* The null of the code is no image.
ASSUME ImageAssumption == None \notin Image

Request  == [kind : {"none", "deposit", "items", "withdrawal"},
             goods : Goods, wid : Wid \cup {None}]
NoRequest == [kind |-> "none", goods |-> Nothing, wid |-> None]
NoPlan    == [req |-> NoRequest, img |-> None]

Phases   == {"none", "intent", "applying", "applied", "complete",
             "rejected", "empty", "cancelled"}
ItemStates == {"local", "listed", "available", "claiming", "delivered", "outside"}
Statuses == {"none", "prepared", "writing", "committed", "cancelled"}
Calls    == {"prepare", "status", "cancel", "authorize", "commit"}
Replies  == {"none", "prepared", "writing", "committed", "cancelled",
             "empty", "refused", "absent"}
\* Steps of the agent that run inside save_access.
Gated    == {"write", "mark", "release"}
Steps    == {"idle", "start", "plan", "check", "apply", "unlink", "finish"}
            \cup Calls \cup Gated

IsDeposit(t) == req[t].kind = "deposit"
Open(t)      == status[t] \in {"prepared", "writing"}

\* The game is closed; or it runs without a live window (in the menu, or before
\* the stash has been opened in this game): away; or its window says that the page
\* is not loaded: parked; or the page is loaded, after Permit has been asked: open,
\* or without asking it: native.
Games  == {"closed", "away", "parked", "open", "native"}
Loaded == game \in {"open", "native"}

\* Mutant: a game that runs without a window is written under as well.
Unloaded == ~Loaded

\* save_access: the game is closed, or its live window excludes this page.
Accessible == game \in {"closed", "parked"}

\* Mutant: the page is held for a journal that has nothing authorized yet only.
PendingBlocksIntent == pointer # None /\ phase[pointer] = "intent"

\* LiveCustody::Window::Pending: the journal still needs the page unloaded.
PendingBlocksPage ==
    pointer # None /\ ~(safe /\ phase[pointer] \in {"applied", "complete"})

----------------------------------------------------------------------------
TypeOK ==
    /\ page \in Goods
    /\ pointer \in Txn \cup {None}
    /\ safe \in BOOLEAN
    /\ phase \in [Txn -> Phases]
    /\ req \in [Txn -> Request]
    /\ img \in [Txn -> Image \cup {None}]
    /\ pc \in Steps
    /\ reply \in Replies
    /\ plan \in [req : Request, img : Image \cup {None}]
    /\ faults \in 0..MaxFaults
    /\ late \subseteq Calls \X Txn
    /\ game \in Games
    /\ mem \in Goods
    /\ carried \in Goods
    /\ status \in [Txn -> Statuses]
    /\ parcel \in [Txn -> Goods]
    /\ proof \in [Txn -> Image \cup {None}]
    /\ state \in [Item -> ItemStates]
    /\ requested \subseteq Item
    /\ balance \in Nat
    /\ wd \in [Wid -> {"none", "queued", "delivering", "completed", "cancelled"}]
    /\ remaining \in [Wid -> Nat]
    /\ otherGold \in Nat
    /\ foreign \subseteq Item
    /\ writes \in [Txn -> Nat]

Init ==
    \E mine \in SUBSET Item :
        /\ page = [items |-> mine, gold |-> StartGold]
        /\ state = [i \in Item |-> IF i \in mine THEN "local" ELSE "outside"]
        /\ pointer = None /\ safe = FALSE
        /\ phase = [t \in Txn |-> "none"]
        /\ req = [t \in Txn |-> NoRequest]
        /\ img = [t \in Txn |-> None]
        /\ pc = "idle" /\ reply = "none" /\ plan = NoPlan
        /\ faults = 0 /\ late = {}
        /\ game = "closed" /\ mem = Nothing /\ carried = Nothing
        /\ status = [t \in Txn |-> "none"]
        /\ parcel = [t \in Txn |-> Nothing]
        /\ proof = [t \in Txn |-> None]
        /\ requested = {} /\ balance = 0
        /\ wd = [w \in Wid |-> "none"]
        /\ remaining = [w \in Wid |-> 0]
        /\ otherGold = OtherGold /\ foreign = {}
        /\ writes = [t \in Txn |-> 0]

----------------------------------------------------------------------------
(***************************************************************************)
(* The save agent.                                                         *)
(***************************************************************************)
Goto(step) == pc' = step /\ reply' = "none"

\* deposit, fund_agreed_trade: read the page under access, plan the removal of
\* some of its goods.  The gate is released before the journal is written.
PlanDeposit ==
    /\ pc = "idle" /\ pointer = None /\ Accessible
    /\ \E items \in SUBSET page.items, gold \in 0..page.gold :
        LET goods == [items |-> items, gold |-> gold] IN
        /\ goods # Nothing
        /\ plan' = [req |-> [kind |-> "deposit", goods |-> goods, wid |-> None],
                    img |-> [before |-> page, after |-> Minus(page, goods)]]
    /\ Goto("start")
    /\ UNCHANGED <<diskVars, faults, late, gameVars, serviceVars>>

\* requestedDeliveries: the queue the agent polls before it claims.
DeliveryQueue == {i \in requested : state[i] = "available"}

\* claim(item_ids): ask for items of the delivery queue.
PlanItemClaim ==
    /\ pc = "idle" /\ pointer = None /\ Accessible
    /\ \E wanted \in SUBSET DeliveryQueue :
        /\ wanted # {}
        /\ plan' = [req |-> [kind |-> "items", wid |-> None,
                             goods |-> [items |-> wanted, gold |-> 0]],
                    img |-> None]
    /\ Goto("start")
    /\ UNCHANGED <<diskVars, faults, late, gameVars, serviceVars>>

\* claim(withdrawal_id): ask for a queued withdrawal, up to the room on the page.
PlanWithdrawalClaim ==
    /\ pc = "idle" /\ pointer = None /\ Accessible
    /\ page.gold < GoldCap
    /\ \E w \in Wid :
        /\ wd[w] = "queued"
        /\ plan' = [req |-> [kind |-> "withdrawal", wid |-> w,
                             goods |-> [items |-> {}, gold |-> GoldCap - page.gold]],
                    img |-> None]
    /\ Goto("start")
    /\ UNCHANGED <<diskVars, faults, late, gameVars, serviceVars>>

\* start: under access, the record first and the pending pointer second.  A crash
\* between the two leaves a record that no pointer names.
Journal(t) ==
    /\ pc = "start" /\ Accessible /\ phase[t] = "none"
    /\ phase' = [phase EXCEPT ![t] = "intent"]
    /\ req' = [req EXCEPT ![t] = plan.req]
    /\ img' = [img EXCEPT ![t] = plan.img]
    /\ \/ pointer' = t /\ UNCHANGED faults
       \/ pointer' = None /\ faults < MaxFaults /\ faults' = faults + 1
    /\ safe' = FALSE
    /\ plan' = NoPlan
    /\ Goto("idle")
    /\ UNCHANGED <<page, writes, late, gameVars, serviceVars>>

\* start: the live window closed in between (BlockingIOError).
JournalBlocked ==
    /\ pc = "start" /\ ~Accessible
    /\ plan' = NoPlan
    /\ Goto("idle")
    /\ UNCHANGED <<diskVars, faults, late, gameVars, serviceVars>>

\* Mutant: an applied page is written again.
ResumeUnwritten(p) == IF p = "complete" THEN "finish" ELSE "prepare"

\* recover: dispatch on the durable phase.
Resume(p) == CASE p = "complete" -> "finish"
               [] p = "applied"  -> "commit"
               [] OTHER          -> "prepare"

\* Mutant: reload_safe is published by the first attempt only.
RecoverSilently ==
    /\ pc = "idle" /\ pointer # None
    /\ Goto(Resume(phase[pointer]))
    /\ UNCHANGED <<diskVars, plan, faults, late, gameVars, serviceVars>>

Recover ==
    /\ pc = "idle" /\ pointer # None
    /\ Goto(Resume(phase[pointer]))
    /\ safe' = (safe \/ phase[pointer] = "applied")
    /\ UNCHANGED <<page, pointer, phase, req, img, writes,
                   plan, faults, late, gameVars, serviceVars>>

\* The journal leaves the pending state: the phase is persisted, then the
\* pointer is removed by the step Unlink.
Close(t, outcome) ==
    /\ phase' = [phase EXCEPT ![t] = outcome]
    /\ Goto("unlink")

\* A refused prepare of a transaction that cannot have written anything is
\* confirmed with a status call; any other refusal is raised.
MayReject(t) == phase[t] = "intent" /\ (IsDeposit(t) \/ img[t] = None)

OnPrepare ==
    /\ pc = "prepare" /\ reply # "none"
    /\ \/ /\ reply = "empty" /\ img[pointer] = None
          /\ Close(pointer, "empty")
       \/ /\ reply = "cancelled"
          /\ Close(pointer, "cancelled")
       \/ /\ reply = "refused" /\ MayReject(pointer)
          /\ Goto("status") /\ UNCHANGED phase
       \/ /\ reply \in {"refused", "empty", "absent"}
          /\ ~(reply = "empty" /\ img[pointer] = None)
          /\ ~(reply = "refused" /\ MayReject(pointer))
          /\ Goto("idle") /\ UNCHANGED phase
       \/ /\ reply \in {"prepared", "writing", "committed"}
          /\ Goto(IF ~IsDeposit(pointer) /\ img[pointer] = None
                  THEN "plan" ELSE "check")
          /\ UNCHANGED phase
    /\ UNCHANGED <<page, pointer, safe, req, img, writes,
                   plan, faults, late, gameVars, serviceVars>>

\* The refusal stands when the service has no ticket (404) and, for a deposit,
\* the page still has its original image.
OnStatus ==
    /\ pc = "status" /\ reply # "none"
    /\ IF reply = "absent" /\ (IsDeposit(pointer) => page = img[pointer].before)
       THEN Close(pointer, "rejected")
       ELSE Goto("idle") /\ UNCHANGED phase
    /\ UNCHANGED <<page, pointer, safe, req, img, writes,
                   plan, faults, late, gameVars, serviceVars>>

\* recover: plan the placement of a claim on the page as it is now, or give the
\* reservation back when there is no room (or the helper fails).
PlanDelivery ==
    /\ pc = "plan"
    /\ \/ /\ ~Accessible
          /\ Goto("idle") /\ UNCHANGED img
       \/ /\ Accessible /\ Fits(Plus(page, parcel[pointer]))
          /\ img' = [img EXCEPT ![pointer] =
                 [before |-> page, after |-> Plus(page, parcel[pointer])]]
          /\ Goto("check")
       \/ /\ Accessible
          /\ Goto("cancel") /\ UNCHANGED img
    /\ UNCHANGED <<page, pointer, safe, phase, req, writes,
                   plan, faults, late, gameVars, serviceVars>>

OnCancel ==
    /\ pc = "cancel" /\ reply # "none"
    /\ IF reply = "cancelled"
       THEN Close(pointer, "cancelled")
       ELSE Goto("idle") /\ UNCHANGED phase
    /\ UNCHANGED <<page, pointer, safe, req, img, writes,
                   plan, faults, late, gameVars, serviceVars>>

\* Mutant: the page is not compared with the images.
AnyPage(t) == page \in Goods

PageMatches(t) == page \in {img[t].before, img[t].after}

\* recover: a page that differs from both images stops the transaction for
\* reconciliation; the journal stays pending.
CheckImages ==
    /\ pc = "check"
    /\ Goto(IF PageMatches(pointer) THEN "authorize" ELSE "idle")
    /\ UNCHANGED <<diskVars, plan, faults, late, gameVars, serviceVars>>

\* Mutant: a refused authorization is not noticed.
Answered(a) == a # "none"

Authorized(a) == a \in {"writing", "committed"}

OnAuthorize ==
    /\ pc = "authorize" /\ reply # "none"
    /\ IF Authorized(reply)
       THEN /\ phase' = [phase EXCEPT ![pointer] = "applying"]
            /\ Goto("apply")
       ELSE Goto("idle") /\ UNCHANGED phase
    /\ UNCHANGED <<page, pointer, safe, req, img, writes,
                   plan, faults, late, gameVars, serviceVars>>

\* save_access for the write; the page is not loaded from here to Release.
Acquire ==
    /\ pc = "apply"
    /\ Goto(IF Accessible THEN "write" ELSE "idle")
    /\ UNCHANGED <<diskVars, plan, faults, late, gameVars, serviceVars>>

\* recover: recheck both images, replace the page if it is still the before one.
WritePage ==
    /\ pc = "write"
    /\ IF PageMatches(pointer)
       THEN /\ page' = img[pointer].after
            /\ writes' = [writes EXCEPT ![pointer] =
                   IF page = img[pointer].before THEN @ + 1 ELSE @]
            /\ Goto("mark")
       ELSE Goto("idle") /\ UNCHANGED <<page, writes>>
    /\ UNCHANGED <<pointer, safe, phase, req, img,
                   plan, faults, late, gameVars, serviceVars>>

MarkApplied ==
    /\ pc = "mark"
    /\ phase' = [phase EXCEPT ![pointer] = "applied"]
    /\ Goto("release")
    /\ UNCHANGED <<page, pointer, safe, req, img, writes,
                   plan, faults, late, gameVars, serviceVars>>

\* Mutant: the pointer goes with the write, not with the commit.
ReleasePointer ==
    /\ pc = "release"
    /\ pointer' = None /\ safe' = FALSE
    /\ Goto("idle")
    /\ UNCHANGED <<page, phase, req, img, writes,
                   plan, faults, late, gameVars, serviceVars>>

\* recover: publish reload_safe, leave the gate, ask for the commit.
Release ==
    /\ pc = "release"
    /\ safe' = TRUE
    /\ Goto("commit")
    /\ UNCHANGED <<page, pointer, phase, req, img, writes,
                   plan, faults, late, gameVars, serviceVars>>

OnCommit ==
    /\ pc = "commit" /\ reply # "none"
    /\ IF reply = "committed"
       THEN /\ phase' = [phase EXCEPT ![pointer] = "complete"]
            /\ Goto("finish")
       ELSE Goto("idle") /\ UNCHANGED phase
    /\ UNCHANGED <<page, pointer, safe, req, img, writes,
                   plan, faults, late, gameVars, serviceVars>>

\* finish: receipts and lineage, and the pending pointer is removed last.
Finish ==
    /\ pc = "finish"
    /\ pointer' = None /\ safe' = FALSE
    /\ Goto("idle")
    /\ UNCHANGED <<page, phase, req, img, writes,
                   plan, faults, late, gameVars, serviceVars>>

\* finish: the drafts of deposited items are removed from the settings, which
\* needs access as well, to no page in particular: with the page loaded it depends
\* on whether a window is published.  Without it the receipts are tried again later.
FinishBlocked ==
    /\ pc = "finish" /\ ~Accessible
    /\ Goto("idle")
    /\ UNCHANGED <<diskVars, plan, faults, late, gameVars, serviceVars>>

Unlink ==
    /\ pc = "unlink"
    /\ pointer' = None /\ safe' = FALSE
    /\ Goto("idle")
    /\ UNCHANGED <<page, phase, req, img, writes,
                   plan, faults, late, gameVars, serviceVars>>

\* A crash, a timeout or an exception: the process loses its position, and the
\* request it was waiting for may or may not be in the network still.
Abort ==
    /\ pc # "idle" /\ faults < MaxFaults
    /\ faults' = faults + 1
    /\ Goto("idle")
    /\ plan' = NoPlan
    /\ late' = IF LateRequests /\ pc \in Calls /\ reply = "none"
               THEN late \cup {<<pc, pointer>>} ELSE late
    /\ UNCHANGED <<diskVars, gameVars, serviceVars>>

----------------------------------------------------------------------------
(***************************************************************************)
(* The service.  A request is handled when the agent waits for it, or late *)
(* when an earlier attempt was abandoned; the answer to a late request     *)
(* reaches nobody.                                                         *)
(***************************************************************************)
Awaited(op, t) == pc = op /\ pointer = t /\ reply = "none"
Arrives(op, t) == Awaited(op, t) \/ <<op, t>> \in late

Answer(op, t, a) ==
    /\ \/ Awaited(op, t) /\ reply' = a
       \/ <<op, t>> \in late /\ UNCHANGED reply
    /\ UNCHANGED <<diskVars, pc, plan, faults, late, gameVars>>

Refuse(op, t, a) == Answer(op, t, a) /\ UNCHANGED serviceVars

\* Mutant: goods that are being delivered are traded.
NotGone == {"listed", "available", "claiming"}

\* settleReady: goods are sold from "listed", payments made from "available".
Tradable == {"listed", "available"}

\* settleReady, at the end of the transaction that made it possible: the trades
\* that are agreed on and paid for.  Their net effect on this player is kept; the
\* offers that decide it are not, so any exchange both sides can afford happens.
\* What is bought is not for sale again, so gold never moves without an item.
\* An item an operator has sold still pays, but no listing of it settles.
Settle(held, asked, gold) ==
    \E out  \in SUBSET {i \in Item : held[i] \in Tradable},
       in   \in SUBSET {i \in Item : held[i] = "outside"},
       kept \in 0..(gold + otherGold) :
        /\ kept # gold => out \cup in # {}
        /\ \A i \in out \cap foreign : held[i] # "listed"
        /\ state' = [i \in Item |-> IF i \in out THEN "outside"
                                    ELSE IF i \in in THEN "available" ELSE held[i]]
        /\ requested' = (asked \cup in) \ out
        /\ foreign' = foreign \ out
        /\ balance' = kept
        /\ otherGold' = gold + otherGold - kept

\* deposit_prepare and claim_prepare repeat the ticket they made before.
PrepareAgain(t) ==
    /\ Arrives("prepare", t) /\ status[t] # "none"
    /\ Refuse("prepare", t, status[t])

\* Mutant: only an authorized ticket keeps the next one waiting.
NoWriting == \A u \in Txn : status[u] # "writing"

\* noPending: one unfinished ticket of this player at a time.
NoPending == \A u \in Txn : ~Open(u)

\* reserveIdentities, the lineage loop and depositPublication: the items are
\* this player's in the ledger and not in the Vault.
Admissible(goods) ==
    \A i \in goods.items : state[i] \in {"local", "delivered"} /\ i \notin foreign

\* proofs: "The custody save did not change."
Distinct(t) == img[t].before # img[t].after

Ready(t) == {i \in req[t].goods.items : state[i] = "available"}

\* reserveWalletClaim: what the delivery page has room for.
Payable(t) == Lesser(remaining[req[t].wid], req[t].goods.gold)

Accepts(t) ==
    /\ NoPending
    /\ CASE req[t].kind = "deposit"    -> Distinct(t) /\ Admissible(req[t].goods)
         [] req[t].kind = "items"      -> Ready(t) # {}
         [] req[t].kind = "withdrawal" -> wd[req[t].wid] = "queued" /\ Payable(t) > 0
         [] OTHER                      -> FALSE

PrepareRefused(t) ==
    /\ Arrives("prepare", t) /\ status[t] = "none" /\ ~Accepts(t)
    /\ Refuse("prepare", t,
              IF NoPending /\ req[t].kind = "items" THEN "empty" ELSE "refused")

AdmitDeposit(t) ==
    /\ Arrives("prepare", t) /\ status[t] = "none"
    /\ IsDeposit(t) /\ Accepts(t)
    /\ status' = [status EXCEPT ![t] = "prepared"]
    /\ parcel' = [parcel EXCEPT ![t] = req[t].goods]
    /\ proof' = [proof EXCEPT ![t] = img[t]]
    /\ Answer("prepare", t, "prepared")
    /\ UNCHANGED ledgerVars

ReserveItems(t) ==
    /\ Arrives("prepare", t) /\ status[t] = "none"
    /\ req[t].kind = "items" /\ Accepts(t)
    /\ status' = [status EXCEPT ![t] = "prepared"]
    /\ parcel' = [parcel EXCEPT ![t] = [items |-> Ready(t), gold |-> 0]]
    /\ state' = [i \in Item |-> IF i \in Ready(t) THEN "claiming" ELSE state[i]]
    /\ Answer("prepare", t, "prepared")
    /\ UNCHANGED <<proof, requested, balance, wd, remaining, otherGold, foreign>>

ReserveWithdrawal(t) ==
    /\ Arrives("prepare", t) /\ status[t] = "none"
    /\ req[t].kind = "withdrawal" /\ Accepts(t)
    /\ status' = [status EXCEPT ![t] = "prepared"]
    /\ parcel' = [parcel EXCEPT ![t] = [items |-> {}, gold |-> Payable(t)]]
    /\ wd' = [wd EXCEPT ![req[t].wid] = "delivering"]
    /\ Answer("prepare", t, "prepared")
    /\ UNCHANGED <<proof, state, requested, balance, remaining, otherGold, foreign>>

ServeStatus(t) ==
    /\ Arrives("status", t)
    /\ Refuse("status", t, IF status[t] = "none" THEN "absent" ELSE status[t])

\* cancel: only a prepared ticket; its reservation returns to the Vault.
Cancellable(t) == status[t] = "prepared"

ServeCancel(t) ==
    /\ Arrives("cancel", t) /\ Cancellable(t)
    /\ status' = [status EXCEPT ![t] = "cancelled"]
    /\ wd' = [w \in Wid |-> IF req[t].wid = w THEN "queued" ELSE wd[w]]
    /\ Settle([i \in Item |-> IF ~IsDeposit(t) /\ i \in parcel[t].items
                               THEN "available" ELSE state[i]],
              requested, balance)
    /\ Answer("cancel", t, "cancelled")
    /\ UNCHANGED <<parcel, proof, remaining>>

CancelRefused(t) ==
    /\ Arrives("cancel", t) /\ ~Cancellable(t)
    /\ Refuse("cancel", t, CASE status[t] = "none"      -> "absent"
                             [] status[t] = "cancelled" -> "cancelled"
                             [] OTHER                   -> "refused")

\* Mutant: an authorization cannot be repeated after a crash.
AuthorizableOnce(t) ==
    status[t] = "prepared" /\ Distinct(t) /\ (proof[t] # None => proof[t] = img[t])

\* write_authorize: pin the save images; from here on the ticket cannot cancel.
Authorizable(t) ==
    Open(t) /\ Distinct(t) /\ (proof[t] # None => proof[t] = img[t])

ServeAuthorize(t) ==
    /\ Arrives("authorize", t) /\ Authorizable(t)
    /\ status' = [status EXCEPT ![t] = "writing"]
    /\ proof' = [proof EXCEPT ![t] = img[t]]
    /\ Answer("authorize", t, "writing")
    /\ UNCHANGED <<parcel, ledgerVars>>

AuthorizeRefused(t) ==
    /\ Arrives("authorize", t) /\ ~Authorizable(t)
    /\ Refuse("authorize", t, CASE status[t] = "none"      -> "absent"
                                [] status[t] = "committed" -> "committed"
                                [] OTHER                   -> "refused")

\* commit: the ticket is being written with exactly these images; a deposit is
\* checked against the discovery ledger once more, where an item that returns to
\* the Vault is found only if it was published since.
Committable(t) ==
    /\ status[t] = "writing" /\ proof[t] = img[t]
    /\ IsDeposit(t) => \A i \in parcel[t].items :
                         state[i] = "delivered" \/ (state[i] = "local" /\ i \notin foreign)
Doubtful(t) == ~Committable(t) \/ (IsDeposit(t) /\ ~Admissible(parcel[t]))

\* activateDeposit: priced items are listed, payment for an agreed trade is
\* available.
CommitDeposit(t) ==
    /\ Arrives("commit", t) /\ IsDeposit(t) /\ Committable(t)
    /\ status' = [status EXCEPT ![t] = "committed"]
    /\ \E kept \in {"listed", "available"} :
        Settle([i \in Item |-> IF i \in parcel[t].items THEN kept ELSE state[i]],
               requested \ parcel[t].items, balance + parcel[t].gold)
    /\ Answer("commit", t, "committed")
    /\ UNCHANGED <<parcel, proof, wd, remaining>>

\* completeClaim, finishWalletClaim(commit): the reserved goods are delivered.
CommitClaim(t) ==
    /\ Arrives("commit", t) /\ ~IsDeposit(t) /\ Committable(t)
    /\ status' = [status EXCEPT ![t] = "committed"]
    /\ Settle([i \in Item |-> IF i \in parcel[t].items THEN "delivered" ELSE state[i]],
              requested \ parcel[t].items, balance)
    /\ remaining' = [w \in Wid |-> IF req[t].wid = w
                                   THEN remaining[w] - parcel[t].gold ELSE remaining[w]]
    /\ wd' = [w \in Wid |-> IF req[t].wid # w THEN wd[w]
                            ELSE IF remaining'[w] > 0 THEN "queued" ELSE "completed"]
    /\ Answer("commit", t, "committed")
    /\ UNCHANGED <<parcel, proof>>

CommitRefused(t) ==
    /\ Arrives("commit", t) /\ Doubtful(t)
    /\ Refuse("commit", t, CASE status[t] = "none"      -> "absent"
                             [] status[t] = "committed" -> "committed"
                             [] OTHER                   -> "refused")

----------------------------------------------------------------------------
(***************************************************************************)
(* The player's Vault commands and the trades that settle in the Vault.    *)
(***************************************************************************)
Aside == <<diskVars, agentVars, gameVars, ticketVars>>

\* Mutant: an item that was delivered can be changed as well.
Known(i) == state[i] \in {"available", "listed", "delivered"}

\* escrowCommand: "This item cannot be changed while delivering or after delivery."
Held(i) == state[i] \in {"available", "listed"}

\* escrow_price: list an item.
EscrowPrice(i) ==
    /\ Held(i)
    /\ Settle([state EXCEPT ![i] = "listed"], requested \ {i}, balance)
    /\ UNCHANGED <<Aside, wd, remaining>>

\* escrow_return: unlist it and queue its delivery.
EscrowReturn(i) ==
    /\ Held(i)
    /\ Settle([state EXCEPT ![i] = "available"], requested \cup {i}, balance)
    /\ UNCHANGED <<Aside, wd, remaining>>

\* wallet_withdraw: reserve spendable gold for delivery.
WalletWithdraw(w) ==
    /\ wd[w] = "none"
    /\ \E gold \in 1..balance :
        /\ balance' = balance - gold
        /\ remaining' = [remaining EXCEPT ![w] = gold]
    /\ wd' = [wd EXCEPT ![w] = "queued"]
    /\ UNCHANGED <<Aside, state, requested, otherGold, foreign>>

\* wallet_cancel: refund what a queued withdrawal still reserves.
WalletCancel(w) ==
    /\ wd[w] = "queued"
    /\ wd' = [wd EXCEPT ![w] = "cancelled"]
    /\ Settle(state, requested, balance + remaining[w])
    /\ UNCHANGED <<Aside, remaining>>

\* A command of any player, on an offer or a gift, that settles trades.
SettleTrades ==
    /\ Settle(state, requested, balance)
    /\ UNCHANGED <<Aside, wd, remaining>>

\* Market::sale: an operator records a sale of an item that is not in the Vault.
RecordSale(i) ==
    /\ OperatorSales
    /\ state[i] \in {"local", "delivered"}
    /\ foreign' = foreign \cup {i}
    /\ UNCHANGED <<Aside, state, requested, balance, wd, remaining, otherGold>>

----------------------------------------------------------------------------
(***************************************************************************)
(* The game.  It loads the page into memory, lets the player move goods    *)
(* between the page and the rest of the inventory, and writes the page     *)
(* back when it is unloaded or when the game is left.                      *)
(***************************************************************************)
OutsideGame == <<pointer, safe, phase, req, img, writes, agentVars, serviceVars>>

Launch ==
    /\ game = "closed" /\ pc \notin Gated
    /\ game' = "away"
    /\ UNCHANGED <<page, mem, carried, OutsideGame>>

\* OpenGrant: the stash has been opened and another page is loaded; the window is
\* published and the lease is given to the agent.
OpenGrant ==
    /\ game = "away"
    /\ game' = "parked"
    /\ UNCHANGED <<page, mem, carried, OutsideGame>>

\* Revoke, under the lease: a change to a page of no concern here, or the menu.
Revoke ==
    /\ game = "parked" /\ pc \notin Gated
    /\ game' = "away"
    /\ UNCHANGED <<page, mem, carried, OutsideGame>>

\* The page named when a game is joined is loaded by the game itself; Permit lets
\* every page pass while the window is not enabled.
LoadNatively ==
    /\ game = "away"
    /\ game' = "native" /\ mem' = page
    /\ UNCHANGED <<page, carried, OutsideGame>>

\* Permit and the page-change handshake: the lease is free and no pending journal
\* needs the page.  Nothing protects a plan that is not journaled yet.
LoadPage ==
    /\ game = "parked" /\ pc \notin Gated /\ ~PendingBlocksPage
    /\ game' = "open" /\ mem' = page
    /\ UNCHANGED <<page, carried, OutsideGame>>

\* The player moves goods into or out of the loaded page.
MoveGoods ==
    /\ Loaded
    /\ \/ \E items \in SUBSET mem.items, gold \in 0..mem.gold :
            LET goods == [items |-> items, gold |-> gold] IN
            mem' = Minus(mem, goods) /\ carried' = Plus(carried, goods)
       \/ \E items \in SUBSET carried.items, gold \in 0..carried.gold :
            LET goods == [items |-> items, gold |-> gold] IN
            /\ Fits(Plus(mem, goods))
            /\ mem' = Plus(mem, goods) /\ carried' = Minus(carried, goods)
    /\ UNCHANGED <<page, game, OutsideGame>>

\* GAME_SaveClients, then the shared stash is freed: by a page switch or by exit.
UnloadPage ==
    /\ Loaded
    /\ page' = mem /\ mem' = Nothing
    /\ game' \in {"away", "closed"}
    /\ UNCHANGED <<carried, OutsideGame>>

Quit ==
    /\ game \in {"away", "parked"}
    /\ game' = "closed"
    /\ UNCHANGED <<page, mem, carried, OutsideGame>>

----------------------------------------------------------------------------
\* Everything the agent does of its own accord.
AgentStep ==
    \/ \E t \in Txn : Journal(t)
    \/ JournalBlocked \/ Recover
    \/ OnPrepare \/ OnStatus \/ PlanDelivery \/ OnCancel \/ CheckImages
    \/ OnAuthorize \/ Acquire \/ WritePage \/ MarkApplied \/ Release
    \/ OnCommit \/ Finish \/ FinishBlocked \/ Unlink

PlanStep == PlanDeposit \/ PlanItemClaim \/ PlanWithdrawalClaim

Serve(t) ==
    \/ PrepareAgain(t) \/ PrepareRefused(t)
    \/ AdmitDeposit(t) \/ ReserveItems(t) \/ ReserveWithdrawal(t)
    \/ ServeStatus(t)
    \/ ServeCancel(t) \/ CancelRefused(t)
    \/ ServeAuthorize(t) \/ AuthorizeRefused(t)
    \/ CommitDeposit(t) \/ CommitClaim(t) \/ CommitRefused(t)

VaultStep ==
    \/ \E i \in Item : EscrowPrice(i) \/ EscrowReturn(i) \/ RecordSale(i)
    \/ SettleTrades
    \/ \E w \in Wid : WalletWithdraw(w) \/ WalletCancel(w)

GameStep ==
    \/ Launch \/ OpenGrant \/ Revoke \/ LoadNatively \/ LoadPage
    \/ MoveGoods \/ UnloadPage \/ Quit

Next ==
    \/ AgentStep \/ PlanStep \/ Abort
    \/ \E t \in Txn : Serve(t)
    \/ VaultStep \/ GameStep

Spec == Init /\ [][Next]_vars

----------------------------------------------------------------------------
(***************************************************************************)
(* What the agent cannot tell apart.  It knows its own write by the bytes  *)
(* of the page.  A player who edits the page under a journal stops the     *)
(* transaction, which is safe; but an edit that leaves exactly the planned *)
(* page before the write, or exactly the old page after it, is taken for   *)
(* the agent's work, or for its absence.  The page can be edited under a   *)
(* journal only if it was loaded without asking Permit, and under a plan   *)
(* only before the plan is journaled.                                      *)
(***************************************************************************)
Misleading(t) ==
    /\ img[t] # None /\ phase[t] \notin {"applied", "complete"}
    /\ mem = (IF writes[t] = 0 THEN img[t].after ELSE img[t].before)

Coincidence ==
    /\ Loaded /\ page' # page
    /\ \/ game = "native" /\ pointer # None /\ Misleading(pointer)
       \/ pc = "start" /\ plan.img # None /\ mem = plan.img.after

\* The steps and behaviours in which no edit is mistaken for the agent's work.
UnmistakenNext ==
    \/ AgentStep \/ PlanStep \/ Abort
    \/ \E t \in Txn : Serve(t)
    \/ VaultStep
    \/ Launch \/ OpenGrant \/ Revoke \/ LoadNatively \/ LoadPage
    \/ MoveGoods \/ Quit
    \/ UnloadPage /\ ~Coincidence

UnmistakenSpec == Init /\ [][UnmistakenNext]_vars

----------------------------------------------------------------------------
\* The answer to the call the agent is waiting for.
Respond == pc \in Calls /\ reply = "none" /\ Serve(pointer) /\ reply' # "none"

\* The watch loop of run() retries for ever, whether the service answers or not.
OfflineSpec == UnmistakenSpec /\ WF_vars(AgentStep)

\* The service answers as well; aborts are bounded by MaxFaults.
ServiceAnswers == WF_vars(Respond)

FairSpec == OfflineSpec /\ ServiceAnswers
=============================================================================
