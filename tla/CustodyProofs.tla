---------------------------- MODULE CustodyProofs ----------------------------
(***************************************************************************)
(* Proofs about custody, for any sets of transactions, items and           *)
(* withdrawals, in four parts: what holds of every behaviour, what holds   *)
(* of pages and items when no edit is mistaken for the agent's work, gold, *)
(* and the refinement.                                                     *)
(***************************************************************************)
EXTENDS CustodyRefinement, Functions, FiniteSetTheorems, WellFoundedInduction, TLAPS

USE ConstantsAssumption, ImageAssumption
USE DEF diskVars, agentVars, gameVars, ticketVars, ledgerVars, serviceVars,
        OutsideGame, Aside, Goto

(***************************************************************************)
(* Structure and Position are inductive: wherever the page is loaded, with *)
(* late requests and operator sales, custody has one open ticket at a      *)
(* time, tickets only move forward, and only authorized writes change the  *)
(* page while it is not loaded.                                            *)
(***************************************************************************)
(***************************************************************************)
(* Goods.                                                                  *)
(***************************************************************************)
LEMMA PlusGoods ==
    ASSUME NEW g \in Goods, NEW h \in Goods PROVE Plus(g, h) \in Goods
  BY DEF Plus, Goods

LEMMA MinusGoods ==
    ASSUME NEW g \in Goods, NEW items, NEW gold \in 0..g.gold
    PROVE  Minus(g, [items |-> items, gold |-> gold]) \in Goods
  BY DEF Minus, Goods

LEMMA PartOfGoods ==
    ASSUME NEW g \in Goods, NEW items \in SUBSET g.items, NEW gold \in 0..g.gold
    PROVE  [items |-> items, gold |-> gold] \in Goods
  BY DEF Goods

\* Taking something changes a page.
LEMMA MinusDiffers ==
    ASSUME NEW g \in Goods, NEW items \in SUBSET g.items, NEW gold \in 0..g.gold,
           [items |-> items, gold |-> gold] # Nothing
    PROVE  Minus(g, [items |-> items, gold |-> gold]) # g
<1>1. items # {} \/ gold # 0
  BY DEF Nothing
<1>2. CASE items # {}
  <2>1. g.items \ items # g.items
    BY <1>2
  <2> QED
    BY <2>1 DEF Minus
<1>3. CASE gold # 0
  <2>1. g.gold - gold # g.gold
    BY <1>3 DEF Goods
  <2> QED
    BY <2>1 DEF Minus
<1> QED
  BY <1>1, <1>2, <1>3

LEMMA NoPlanType == NoPlan \in [req : Request, img : Image \cup {None}]
  BY DEF NoPlan, NoRequest, Request, Goods, Nothing

(***************************************************************************)
(* Settlement: whatever is traded, the ledger of the player stays typed.   *)
(***************************************************************************)
LedgerTypes ==
    /\ state \in [Item -> ItemStates] /\ requested \in SUBSET Item
    /\ balance \in Nat /\ otherGold \in Nat /\ foreign \in SUBSET Item

LEMMA SettleTypes ==
    ASSUME NEW held \in [Item -> ItemStates], NEW asked \in SUBSET Item,
           NEW gold \in Nat, otherGold \in Nat, foreign \in SUBSET Item,
           Settle(held, asked, gold)
    PROVE  LedgerTypes'
<1>1. PICK out \in SUBSET Item, in \in SUBSET Item, kept \in 0..(gold + otherGold) :
          /\ state' = [i \in Item |-> IF i \in out THEN "outside"
                                      ELSE IF i \in in THEN "available" ELSE held[i]]
          /\ requested' = (asked \cup in) \ out
          /\ foreign' = foreign \ out
          /\ balance' = kept
          /\ otherGold' = gold + otherGold - kept
  BY DEF Settle
<1>2. state' \in [Item -> ItemStates]
  BY <1>1 DEF ItemStates
<1>3. balance' \in Nat /\ otherGold' \in Nat
  BY <1>1
<1> QED
  BY <1>1, <1>2, <1>3 DEF LedgerTypes

(***************************************************************************)
(* Frames: who changes what.                                               *)
(***************************************************************************)
LEMMA AgentFrame ==
    AgentStep \/ PlanStep \/ Abort => UNCHANGED <<gameVars, serviceVars>>
  BY DEF AgentStep, PlanStep, Abort, PlanDeposit, PlanItemClaim,
     PlanWithdrawalClaim, Journal, JournalBlocked, Recover, OnPrepare, OnStatus,
     PlanDelivery, OnCancel, CheckImages, OnAuthorize, Acquire, WritePage,
     MarkApplied, Release, OnCommit, Finish, FinishBlocked,
     Unlink

LEMMA ServiceFrame ==
    ASSUME NEW t \in Txn, Serve(t)
    PROVE  UNCHANGED <<diskVars, pc, plan, faults, late, gameVars>>
  BY DEF Serve, Answer, Refuse, PrepareAgain, PrepareRefused, AdmitDeposit,
     ReserveItems, ReserveWithdrawal, ServeStatus, ServeCancel, CancelRefused,
     ServeAuthorize, AuthorizeRefused, CommitDeposit, CommitClaim, CommitRefused

LEMMA VaultFrame == VaultStep => UNCHANGED Aside
  BY DEF VaultStep, EscrowPrice, EscrowReturn, RecordSale, SettleTrades,
     WalletWithdraw, WalletCancel

LEMMA GameFrame == GameStep => UNCHANGED OutsideGame
  BY DEF GameStep, Launch, OpenGrant, Revoke, LoadNatively, LoadPage, MoveGoods,
     UnloadPage, Quit

\* Requests are fixed when a transfer is journaled.
LEMMA RequestFrame ==
    AgentStep \/ PlanStep \/ Abort =>
        (\E t \in Txn : Journal(t)) \/ UNCHANGED req
  BY DEF AgentStep, PlanStep, Abort, PlanDeposit, PlanItemClaim,
     PlanWithdrawalClaim, JournalBlocked, Recover, OnPrepare, OnStatus,
     PlanDelivery, OnCancel, CheckImages, OnAuthorize, Acquire, WritePage,
     MarkApplied, Release, OnCommit, Finish, FinishBlocked,
     Unlink

----------------------------------------------------------------------------
(***************************************************************************)
(* Structure: TypeOK, AgentFollows, Fresh, Requests, OneOpenTicket and     *)
(* Reservations.                                                           *)
(***************************************************************************)
LEMMA InitStructure == Init => Structure
<1> SUFFICES ASSUME Init PROVE Structure
  OBVIOUS
<1>1. TypeOK
  <2>1. Nothing \in Goods /\ NoRequest \in Request
    BY DEF Nothing, Goods, NoRequest, Request
  <2>2. page \in Goods
    BY DEF Init, Goods
  <2>3. state \in [Item -> ItemStates]
    BY DEF Init, ItemStates
  <2>4. StartGold \in Nat /\ OtherGold \in Nat /\ 0 \in 0..MaxFaults
    OBVIOUS
  <2>5. /\ phase \in [Txn -> Phases] /\ req \in [Txn -> Request]
        /\ img \in [Txn -> Image \cup {None}] /\ writes \in [Txn -> Nat]
    BY <2>1 DEF Init, Phases
  <2>6. /\ status \in [Txn -> Statuses] /\ parcel \in [Txn -> Goods]
        /\ proof \in [Txn -> Image \cup {None}]
        /\ wd \in [Wid -> {"none", "queued", "delivering", "completed", "cancelled"}]
        /\ remaining \in [Wid -> Nat]
    BY <2>1 DEF Init, Statuses
  <2>7. /\ pointer = None /\ safe = FALSE /\ pc = "idle" /\ reply = "none"
        /\ plan = NoPlan /\ faults = 0 /\ late = {} /\ game = "closed"
        /\ mem = Nothing /\ carried = Nothing /\ requested = {}
        /\ balance = 0 /\ otherGold = OtherGold /\ foreign = {}
    BY DEF Init
  <2> QED
    BY <2>1, <2>2, <2>3, <2>4, <2>5, <2>6, <2>7, NoPlanType
       DEF TypeOK, Steps, Replies, Games
<1>2. AgentFollows /\ Fresh
  BY DEF Init, AgentFollows, Fresh
<1>3. Requests
  BY DEF Init, Requests, WellFormed, NoPlan, NoRequest
<1>4. OneOpenTicket /\ Reservations
  BY DEF Init, OneOpenTicket, Reservations, Open
<1> QED
  BY <1>1, <1>2, <1>3, <1>4 DEF Structure

\* Every step keeps the variables in their types.
LEMMA TypeStep == Structure /\ [Next]_vars => TypeOK'
<1> SUFFICES ASSUME Structure, [Next]_vars PROVE TypeOK'
  OBVIOUS
<1> USE DEF
      Structure, TypeOK, Phases, Statuses, Replies, Steps, Calls, Gated
<1>1. CASE PlanDeposit
  <2>1. PICK items \in SUBSET page.items, gold \in 0..page.gold :
            plan' = [req |-> [kind |-> "deposit", wid |-> None,
                              goods |-> [items |-> items, gold |-> gold]],
                     img |-> [before |-> page,
                              after |-> Minus(page, [items |-> items, gold |-> gold])]]
    BY <1>1 DEF PlanDeposit
  <2>2. plan' \in [req : Request, img : Image \cup {None}]
    BY <2>1, PartOfGoods, MinusGoods DEF Request, Image
  <2> QED
    BY <1>1, <2>2 DEF PlanDeposit
<1>2. CASE PlanItemClaim
  <2>1. PICK wanted \in SUBSET DeliveryQueue :
            plan' = [req |-> [kind |-> "items", wid |-> None,
                              goods |-> [items |-> wanted, gold |-> 0]],
                     img |-> None]
    BY <1>2 DEF PlanItemClaim
  <2>2. plan' \in [req : Request, img : Image \cup {None}]
    BY <2>1 DEF Request, Goods, DeliveryQueue
  <2> QED
    BY <1>2, <2>2 DEF PlanItemClaim
<1>3. CASE PlanWithdrawalClaim
  <2>1. PICK w \in Wid :
            plan' = [req |-> [kind |-> "withdrawal", wid |-> w,
                              goods |-> [items |-> {}, gold |-> GoldCap - page.gold]],
                     img |-> None]
    BY <1>3 DEF PlanWithdrawalClaim
  <2>2. GoldCap - page.gold \in Nat
    BY <1>3 DEF PlanWithdrawalClaim, Goods
  <2>3. plan' \in [req : Request, img : Image \cup {None}]
    BY <2>1, <2>2 DEF Request, Goods
  <2> QED
    BY <1>3, <2>3 DEF PlanWithdrawalClaim
<1>4. ASSUME NEW t \in Txn, Journal(t) PROVE TypeOK'
  <2>1. req' \in [Txn -> Request] /\ img' \in [Txn -> Image \cup {None}]
    BY <1>4 DEF Journal
  <2>2. faults' \in 0..MaxFaults
    BY <1>4 DEF Journal
  <2>3. phase' \in [Txn -> Phases] /\ pointer' \in Txn \cup {None}
    BY <1>4 DEF Journal
  <2> QED
    BY <1>4, <2>1, <2>2, <2>3, NoPlanType DEF Journal
<1>5. CASE JournalBlocked
  BY <1>5, NoPlanType DEF JournalBlocked
<1>6. CASE Recover
  BY <1>6 DEF
     Recover, Resume
<1>7. CASE OnPrepare
  BY <1>7 DEF
     OnPrepare, Close, IsDeposit
<1>8. CASE OnStatus
  BY <1>8 DEF
     OnStatus, IsDeposit, Close
<1>9. CASE PlanDelivery
  <2>1. pointer \in Txn
    BY <1>9 DEF PlanDelivery, AgentFollows
  <2>2. [before |-> page, after |-> Plus(page, parcel[pointer])] \in Image
    BY <2>1, PlusGoods DEF Image
  <2>3. img' \in [Txn -> Image \cup {None}]
    BY <1>9, <2>1, <2>2 DEF PlanDelivery
  <2> QED
    BY <1>9, <2>3 DEF PlanDelivery
<1>10. CASE OnCancel
  BY <1>10 DEF
     OnCancel, Close
<1>11. CASE CheckImages
  BY <1>11 DEF
     CheckImages
<1>12. CASE OnAuthorize
  BY <1>12 DEF
     OnAuthorize, Authorized
<1>13. CASE Acquire
  BY <1>13 DEF
     Acquire
<1>14. CASE WritePage
  <2>1. pointer \in Txn /\ img[pointer] \in Image
    BY <1>14 DEF WritePage, AgentFollows
  <2>2. page' \in Goods
    BY <1>14, <2>1 DEF WritePage, Image
  <2>3. writes' \in [Txn -> Nat]
    BY <1>14, <2>1 DEF WritePage
  <2> QED
    BY <1>14, <2>2, <2>3 DEF WritePage
<1>15. CASE MarkApplied
  BY <1>15 DEF
     MarkApplied
<1>16. CASE Release
  BY <1>16 DEF
     Release
<1>17. CASE OnCommit
  BY <1>17 DEF
     OnCommit
<1>18. CASE Finish
  BY <1>18 DEF
     Finish
<1>19. CASE FinishBlocked
  BY <1>19 DEF
     FinishBlocked
<1>20. CASE Unlink
  BY <1>20 DEF
     Unlink
<1>21. CASE Abort
  <2>1. late' \subseteq Calls \X Txn
    BY <1>21 DEF Abort, AgentFollows
  <2> QED
    BY <1>21, <2>1, NoPlanType DEF Abort
<1>22. ASSUME NEW t \in Txn, PrepareAgain(t) PROVE TypeOK'
  BY <1>22 DEF
     PrepareAgain, Arrives, Refuse, Awaited, Answer
<1>23. ASSUME NEW t \in Txn, PrepareRefused(t) PROVE TypeOK'
  BY <1>23 DEF
     PrepareRefused, Arrives, Refuse, Awaited, Answer
<1>24. ASSUME NEW t \in Txn, AdmitDeposit(t) PROVE TypeOK'
  <2>1. parcel' \in [Txn -> Goods]
    BY <1>24 DEF AdmitDeposit, Request
  <2> QED
    BY <1>24, <2>1 DEF AdmitDeposit, Answer
<1>25. ASSUME NEW t \in Txn, ReserveItems(t) PROVE TypeOK'
  <2>1. [items |-> Ready(t), gold |-> 0] \in Goods
    BY DEF Ready, Request, Goods
  <2>2. parcel' \in [Txn -> Goods]
    BY <1>25, <2>1 DEF ReserveItems
  <2>3. state' \in [Item -> ItemStates]
    BY <1>25 DEF ReserveItems, ItemStates
  <2> QED
    BY <1>25, <2>2, <2>3 DEF ReserveItems, Answer
<1>26. ASSUME NEW t \in Txn, ReserveWithdrawal(t) PROVE TypeOK'
  <2>1. req[t].wid \in Wid /\ req[t].goods \in Goods
    BY <1>26 DEF ReserveWithdrawal, Requests, WellFormed, Request
  <2>2. [items |-> {}, gold |-> Payable(t)] \in Goods
    BY <2>1 DEF Payable, Lesser, Goods
  <2>3. parcel' \in [Txn -> Goods]
    BY <1>26, <2>2 DEF ReserveWithdrawal
  <2>4. wd' \in [Wid -> {"none", "queued", "delivering", "completed", "cancelled"}]
    BY <1>26 DEF ReserveWithdrawal
  <2>5. status' \in [Txn -> Statuses]
    BY <1>26 DEF ReserveWithdrawal
  <2> QED
    BY <1>26, <2>3, <2>4, <2>5 DEF ReserveWithdrawal, Answer
<1>27. ASSUME NEW t \in Txn, ServeStatus(t) PROVE TypeOK'
  BY <1>27 DEF
     ServeStatus, Arrives, Refuse, Awaited, Answer
<1>28. ASSUME NEW t \in Txn, ServeCancel(t) PROVE TypeOK'
  <2>1. [i \in Item |-> IF ~IsDeposit(t) /\ i \in parcel[t].items
                         THEN "available" ELSE state[i]] \in [Item -> ItemStates]
    BY DEF ItemStates
  <2>2. LedgerTypes'
    BY <1>28, <2>1, SettleTypes DEF ServeCancel
  <2> QED
    BY <1>28, <2>2 DEF ServeCancel, Answer, LedgerTypes
<1>29. ASSUME NEW t \in Txn, CancelRefused(t) PROVE TypeOK'
  BY <1>29 DEF
     CancelRefused, Arrives, Cancellable, Refuse, Awaited, Answer
<1>30. ASSUME NEW t \in Txn, ServeAuthorize(t) PROVE TypeOK'
  BY <1>30 DEF
     ServeAuthorize, Arrives, Answer, Awaited
<1>31. ASSUME NEW t \in Txn, AuthorizeRefused(t) PROVE TypeOK'
  BY <1>31 DEF
     AuthorizeRefused, Arrives, Refuse, Awaited, Answer
<1>32. ASSUME NEW t \in Txn, CommitDeposit(t) PROVE TypeOK'
  <2>1. PICK kept \in {"listed", "available"} :
            Settle([i \in Item |-> IF i \in parcel[t].items THEN kept ELSE state[i]],
                   requested \ parcel[t].items, balance + parcel[t].gold)
    BY <1>32 DEF CommitDeposit
  <2>2. [i \in Item |-> IF i \in parcel[t].items THEN kept ELSE state[i]]
            \in [Item -> ItemStates]
    BY DEF ItemStates
  <2>3. balance + parcel[t].gold \in Nat
    BY DEF Goods
  <2>4. requested \ parcel[t].items \in SUBSET Item
    OBVIOUS
  <2>5. LedgerTypes'
    BY <2>1, <2>2, <2>3, <2>4, SettleTypes
  <2> QED
    BY <1>32, <2>5 DEF CommitDeposit, Answer, LedgerTypes
<1>33. ASSUME NEW t \in Txn, CommitClaim(t) PROVE TypeOK'
  <2>1. ASSUME NEW w \in Wid, req[t].wid = w
        PROVE  remaining[w] - parcel[t].gold \in Nat
    BY <1>33, <2>1 DEF CommitClaim, Committable, Open, Requests, WellFormed,
       Reservations, Goods
  <2>2. remaining' \in [Wid -> Nat]
    BY <1>33, <2>1 DEF CommitClaim
  <2>3. wd' \in [Wid -> {"none", "queued", "delivering", "completed", "cancelled"}]
    BY <1>33 DEF CommitClaim
  <2>4. Settle([i \in Item |-> IF i \in parcel[t].items THEN "delivered" ELSE state[i]],
               requested \ parcel[t].items, balance)
    BY <1>33 DEF CommitClaim
  <2>5. [i \in Item |-> IF i \in parcel[t].items THEN "delivered" ELSE state[i]]
            \in [Item -> ItemStates]
    BY DEF ItemStates
  <2>6. requested \ parcel[t].items \in SUBSET Item
    OBVIOUS
  <2>7. LedgerTypes'
    BY <2>4, <2>5, <2>6, SettleTypes
  <2> QED
    BY <1>33, <2>2, <2>3, <2>7 DEF CommitClaim, Answer, LedgerTypes
<1>34. ASSUME NEW t \in Txn, CommitRefused(t) PROVE TypeOK'
  BY <1>34 DEF
     CommitRefused, Arrives, Refuse, Awaited, Answer
<1>35. ASSUME NEW i \in Item, EscrowPrice(i) PROVE TypeOK'
  <2>1. [state EXCEPT ![i] = "listed"] \in [Item -> ItemStates]
    BY DEF ItemStates
  <2>2. requested \ {i} \in SUBSET Item
    OBVIOUS
  <2>3. LedgerTypes'
    BY <1>35, <2>1, <2>2, SettleTypes DEF EscrowPrice
  <2> QED
    BY <1>35, <2>3 DEF EscrowPrice, LedgerTypes
<1>36. ASSUME NEW i \in Item, EscrowReturn(i) PROVE TypeOK'
  <2>1. [state EXCEPT ![i] = "available"] \in [Item -> ItemStates]
    BY DEF ItemStates
  <2>2. requested \cup {i} \in SUBSET Item
    OBVIOUS
  <2>3. LedgerTypes'
    BY <1>36, <2>1, <2>2, SettleTypes DEF EscrowReturn
  <2> QED
    BY <1>36, <2>3 DEF EscrowReturn, LedgerTypes
<1>37. ASSUME NEW i \in Item, RecordSale(i) PROVE TypeOK'
  BY <1>37 DEF
     RecordSale
<1>38. CASE SettleTrades
  <2>1. LedgerTypes'
    BY <1>38, SettleTypes DEF SettleTrades
  <2> QED
    BY <1>38, <2>1 DEF SettleTrades, LedgerTypes
<1>39. ASSUME NEW w \in Wid, WalletWithdraw(w) PROVE TypeOK'
  BY <1>39 DEF
     WalletWithdraw
<1>40. ASSUME NEW w \in Wid, WalletCancel(w) PROVE TypeOK'
  <2>1. balance + remaining[w] \in Nat
    OBVIOUS
  <2>2. LedgerTypes'
    BY <1>40, <2>1, SettleTypes DEF WalletCancel
  <2> QED
    BY <1>40, <2>2 DEF WalletCancel, LedgerTypes
<1>41. CASE Launch \/ OpenGrant \/ Revoke
  BY <1>41 DEF Launch, OpenGrant, Revoke, Games
<1>42. CASE LoadNatively \/ LoadPage
  BY <1>42 DEF LoadNatively, LoadPage, Games
<1>43. CASE MoveGoods
  <2>1. mem' \in Goods /\ carried' \in Goods
    <3>1. ASSUME NEW items \in SUBSET mem.items, NEW gold \in 0..mem.gold,
                 mem' = Minus(mem, [items |-> items, gold |-> gold]),
                 carried' = Plus(carried, [items |-> items, gold |-> gold])
          PROVE  mem' \in Goods /\ carried' \in Goods
      BY <3>1, PartOfGoods, PlusGoods, MinusGoods
    <3>2. ASSUME NEW items \in SUBSET carried.items, NEW gold \in 0..carried.gold,
                 mem' = Plus(mem, [items |-> items, gold |-> gold]),
                 carried' = Minus(carried, [items |-> items, gold |-> gold])
          PROVE  mem' \in Goods /\ carried' \in Goods
      BY <3>2, PartOfGoods, PlusGoods, MinusGoods
    <3> QED
      BY <1>43, <3>1, <3>2 DEF MoveGoods
  <2> QED
    BY <1>43, <2>1 DEF MoveGoods
<1>44. CASE UnloadPage
  <2>1. Nothing \in Goods
    BY DEF Nothing, Goods
  <2> QED
    BY <1>44, <2>1 DEF UnloadPage, Games
<1>45. CASE Quit
  BY <1>45 DEF
     Quit, Games
<1>46. CASE UNCHANGED vars
  BY <1>46 DEF vars
<1> QED
  BY <1>1, <1>2, <1>3, <1>4, <1>5, <1>6, <1>7, <1>8, <1>9, <1>10, <1>11,
     <1>12, <1>13, <1>14, <1>15, <1>16, <1>17, <1>18, <1>19, <1>20, <1>21,
     <1>22, <1>23, <1>24, <1>25, <1>26, <1>27, <1>28, <1>29, <1>30, <1>31,
     <1>32, <1>33, <1>34, <1>35, <1>36, <1>37, <1>38, <1>39, <1>40, <1>41,
     <1>42, <1>43, <1>44, <1>45, <1>46
     DEF Next, AgentStep, PlanStep, Serve, VaultStep, GameStep

\* The agent works on the transfer its pointer names.
LEMMA FollowsStep == Structure /\ [Next]_vars => AgentFollows'
<1> SUFFICES ASSUME Structure, [Next]_vars PROVE AgentFollows'
  OBVIOUS
<1> USE DEF
      Structure, TypeOK, AgentFollows, Requests, WellFormed, IsDeposit, Calls
<1>1. CASE PlanDeposit
  BY <1>1 DEF PlanDeposit
<1>2. CASE PlanItemClaim
  BY <1>2 DEF PlanItemClaim
<1>3. CASE PlanWithdrawalClaim
  BY <1>3 DEF PlanWithdrawalClaim
<1>4. ASSUME NEW t \in Txn, Journal(t) PROVE AgentFollows'
  BY <1>4 DEF Journal
<1>5. CASE JournalBlocked
  BY <1>5 DEF JournalBlocked
<1>6. CASE Recover
  BY <1>6 DEF Recover, Resume
<1>7. CASE OnPrepare
  BY <1>7 DEF OnPrepare, Close
<1>8. CASE OnStatus
  BY <1>8 DEF OnStatus, Close
<1>9. CASE PlanDelivery
  <2>1. pointer \in Txn
    BY <1>9 DEF PlanDelivery, AgentFollows
  <2>2. [before |-> page, after |-> Plus(page, parcel[pointer])] \in Image
    BY <2>1, PlusGoods DEF Image
  <2>3. pc' = "check" => img'[pointer] \in Image
    BY <1>9, <2>1, <2>2 DEF PlanDelivery
  <2> QED
    BY <1>9, <2>1, <2>3 DEF PlanDelivery, AgentFollows
<1>10. CASE OnCancel
  BY <1>10 DEF OnCancel, Close
<1>11. CASE CheckImages
  BY <1>11 DEF CheckImages
<1>12. CASE OnAuthorize
  BY <1>12 DEF OnAuthorize, Authorized
<1>13. CASE Acquire
  BY <1>13 DEF Acquire
<1>14. CASE WritePage
  BY <1>14 DEF WritePage
<1>15. CASE MarkApplied
  BY <1>15 DEF MarkApplied
<1>16. CASE Release
  BY <1>16 DEF Release
<1>17. CASE OnCommit
  BY <1>17 DEF OnCommit
<1>18. CASE Finish
  BY <1>18 DEF Finish
<1>19. CASE FinishBlocked
  BY <1>19 DEF FinishBlocked
<1>20. CASE Unlink
  BY <1>20 DEF Unlink
<1>21. CASE Abort
  BY <1>21 DEF Abort
<1>22. CASE (\E t \in Txn : Serve(t)) \/ VaultStep \/ GameStep \/ UNCHANGED vars
  <2>1. UNCHANGED <<pc, pointer, img>>
    BY <1>22, ServiceFrame, VaultFrame, GameFrame DEF vars
  <2> QED
    BY <2>1
<1> QED
  BY <1>1, <1>2, <1>3, <1>4, <1>5, <1>6, <1>7, <1>8, <1>9, <1>10, <1>11,
     <1>12, <1>13, <1>14, <1>15, <1>16, <1>17, <1>18, <1>19, <1>20, <1>21,
     <1>22
     DEF Next, AgentStep, PlanStep

\* A transaction identity is unused until its journal is written.
LEMMA FreshStep == Structure /\ [Next]_vars => Fresh'
<1> SUFFICES ASSUME Structure, [Next]_vars PROVE Fresh'
  OBVIOUS
<1> USE DEF
      Structure, TypeOK, Fresh
<1>1. CASE PlanDeposit
  BY <1>1 DEF PlanDeposit
<1>2. CASE PlanItemClaim
  BY <1>2 DEF PlanItemClaim
<1>3. CASE PlanWithdrawalClaim
  BY <1>3 DEF PlanWithdrawalClaim
<1>4. ASSUME NEW t \in Txn, Journal(t) PROVE Fresh'
  <2>1. /\ phase'[t] = "intent"
        /\ \A u \in Txn : u # t =>
               phase'[u] = phase[u] /\ img'[u] = img[u] /\ req'[u] = req[u]
        /\ pointer' \in {t, None}
        /\ UNCHANGED <<late, status, writes>>
    BY <1>4 DEF Journal
  <2> QED
    BY <2>1 DEF Fresh
<1>5. CASE JournalBlocked
  BY <1>5 DEF JournalBlocked
<1>6. CASE Recover
  BY <1>6 DEF Recover, Resume
<1>7. CASE OnPrepare
  BY <1>7 DEF OnPrepare, Close, IsDeposit
<1>8. CASE OnStatus
  BY <1>8 DEF OnStatus, IsDeposit, Close
<1>9. CASE PlanDelivery
  BY <1>9 DEF PlanDelivery
<1>10. CASE OnCancel
  BY <1>10 DEF OnCancel, Close
<1>11. CASE CheckImages
  BY <1>11 DEF CheckImages
<1>12. CASE OnAuthorize
  BY <1>12 DEF OnAuthorize, Authorized
<1>13. CASE Acquire
  BY <1>13 DEF Acquire
<1>14. CASE WritePage
  BY <1>14 DEF WritePage
<1>15. CASE MarkApplied
  BY <1>15 DEF MarkApplied
<1>16. CASE Release
  BY <1>16 DEF Release
<1>17. CASE OnCommit
  BY <1>17 DEF OnCommit
<1>18. CASE Finish
  BY <1>18 DEF Finish
<1>19. CASE FinishBlocked
  BY <1>19 DEF FinishBlocked
<1>20. CASE Unlink
  BY <1>20 DEF Unlink
<1>21. CASE Abort
  BY <1>21 DEF Abort, AgentFollows, Calls
<1>22. ASSUME NEW t \in Txn, PrepareAgain(t) PROVE Fresh'
  BY <1>22 DEF PrepareAgain, Arrives, Refuse, Awaited, Answer
<1>23. ASSUME NEW t \in Txn, PrepareRefused(t) PROVE Fresh'
  BY <1>23 DEF PrepareRefused, Arrives, Refuse, Awaited, Answer
<1>24. ASSUME NEW t \in Txn, AdmitDeposit(t) PROVE Fresh'
  BY <1>24 DEF AdmitDeposit, Arrives, IsDeposit, Answer, Awaited
<1>25. ASSUME NEW t \in Txn, ReserveItems(t) PROVE Fresh'
  BY <1>25 DEF ReserveItems, Arrives, Answer, Awaited
<1>26. ASSUME NEW t \in Txn, ReserveWithdrawal(t) PROVE Fresh'
  BY <1>26 DEF ReserveWithdrawal, Arrives, Answer, Awaited
<1>27. ASSUME NEW t \in Txn, ServeStatus(t) PROVE Fresh'
  BY <1>27 DEF ServeStatus, Arrives, Refuse, Awaited, Answer
<1>28. ASSUME NEW t \in Txn, ServeCancel(t) PROVE Fresh'
  BY <1>28 DEF ServeCancel, Arrives, IsDeposit, Answer, Awaited
<1>29. ASSUME NEW t \in Txn, CancelRefused(t) PROVE Fresh'
  BY <1>29 DEF CancelRefused, Arrives, Refuse, Awaited, Answer
<1>30. ASSUME NEW t \in Txn, ServeAuthorize(t) PROVE Fresh'
  BY <1>30 DEF ServeAuthorize, Arrives, Answer, Awaited
<1>31. ASSUME NEW t \in Txn, AuthorizeRefused(t) PROVE Fresh'
  BY <1>31 DEF AuthorizeRefused, Arrives, Refuse, Awaited, Answer
<1>32. ASSUME NEW t \in Txn, CommitDeposit(t) PROVE Fresh'
  BY <1>32 DEF CommitDeposit, Arrives, IsDeposit, Answer, Awaited
<1>33. ASSUME NEW t \in Txn, CommitClaim(t) PROVE Fresh'
  BY <1>33 DEF CommitClaim, Arrives, IsDeposit, Answer, Awaited
<1>34. ASSUME NEW t \in Txn, CommitRefused(t) PROVE Fresh'
  BY <1>34 DEF CommitRefused, Arrives, Refuse, Awaited, Answer
<1>35. CASE VaultStep \/ GameStep \/ UNCHANGED vars
  <2>1. UNCHANGED <<phase, pointer, status, writes, img, req, late>>
    BY <1>35, VaultFrame, GameFrame DEF vars
  <2> QED
    BY <2>1
<1> QED
  BY <1>1, <1>2, <1>3, <1>4, <1>5, <1>6, <1>7, <1>8, <1>9, <1>10, <1>11,
     <1>12, <1>13, <1>14, <1>15, <1>16, <1>17, <1>18, <1>19, <1>20, <1>21,
     <1>22, <1>23, <1>24, <1>25, <1>26, <1>27, <1>28, <1>29, <1>30, <1>31,
     <1>32, <1>33, <1>34, <1>35
     DEF Next, AgentStep, PlanStep, Serve

\* Requests stay well formed: their images exist when they must.
LEMMA RequestsStep == Structure /\ [Next]_vars => Requests'
<1> SUFFICES ASSUME Structure, [Next]_vars PROVE Requests'
  OBVIOUS
<1> USE DEF
      Structure, TypeOK, AgentFollows, Fresh, Requests, WellFormed
<1>1. CASE PlanDeposit
  <2>1. /\ plan'.req.kind = "deposit" /\ plan'.req.wid = None
        /\ \E g, h \in Goods : plan'.img = [before |-> g, after |-> h]
    BY <1>1, MinusGoods DEF PlanDeposit
  <2>2. plan'.img # None
    BY <2>1 DEF Image
  <2>3. UNCHANGED <<req, img>>
    BY <1>1 DEF PlanDeposit
  <2> QED
    BY <2>1, <2>2, <2>3 DEF Requests, WellFormed
<1>2. CASE PlanItemClaim
  BY <1>2 DEF PlanItemClaim
<1>3. CASE PlanWithdrawalClaim
  BY <1>3 DEF PlanWithdrawalClaim
<1>4. ASSUME NEW t \in Txn, Journal(t) PROVE Requests'
  <2>1. /\ req'[t] = plan.req /\ img'[t] = plan.img
        /\ \A u \in Txn : u # t => img'[u] = img[u] /\ req'[u] = req[u]
        /\ plan' = NoPlan
    BY <1>4 DEF Journal
  <2>2. WellFormed(plan'.req, plan'.img)
    BY <2>1 DEF NoPlan, NoRequest, WellFormed
  <2> QED
    BY <2>1, <2>2 DEF Requests, WellFormed
<1>5. CASE JournalBlocked
  BY <1>5 DEF JournalBlocked, NoPlan, NoRequest, Requests, WellFormed
<1>6. CASE Recover
  BY <1>6 DEF Recover, Resume
<1>7. CASE OnPrepare
  BY <1>7 DEF OnPrepare, Close, IsDeposit
<1>8. CASE OnStatus
  BY <1>8 DEF OnStatus, IsDeposit, Close
<1>9. CASE PlanDelivery
  <2>1. pointer \in Txn /\ UNCHANGED <<req, plan>>
    BY <1>9 DEF PlanDelivery, AgentFollows
  <2>2. [before |-> page, after |-> Plus(page, parcel[pointer])] \in Image
    BY <2>1, PlusGoods DEF Image
  <2>3. \A t \in Txn : img[t] # None => img'[t] # None
    BY <1>9, <2>1, <2>2 DEF PlanDelivery
  <2> QED
    BY <2>1, <2>3 DEF Requests, WellFormed
<1>10. CASE OnCancel
  BY <1>10 DEF OnCancel, Close
<1>11. CASE CheckImages
  BY <1>11 DEF CheckImages
<1>12. CASE OnAuthorize
  BY <1>12 DEF OnAuthorize, Authorized
<1>13. CASE Acquire
  BY <1>13 DEF Acquire
<1>14. CASE WritePage
  BY <1>14 DEF WritePage
<1>15. CASE MarkApplied
  BY <1>15 DEF MarkApplied
<1>16. CASE Release
  BY <1>16 DEF Release
<1>17. CASE OnCommit
  BY <1>17 DEF OnCommit
<1>18. CASE Finish
  BY <1>18 DEF Finish
<1>19. CASE FinishBlocked
  BY <1>19 DEF FinishBlocked
<1>20. CASE Unlink
  BY <1>20 DEF Unlink
<1>21. CASE Abort
  BY <1>21 DEF Abort, NoPlan, NoRequest, Requests, WellFormed
<1>22. CASE (\E t \in Txn : Serve(t)) \/ VaultStep \/ GameStep \/ UNCHANGED vars
  <2>1. UNCHANGED <<req, img, plan>>
    BY <1>22, ServiceFrame, VaultFrame, GameFrame DEF vars
  <2> QED
    BY <2>1
<1> QED
  BY <1>1, <1>2, <1>3, <1>4, <1>5, <1>6, <1>7, <1>8, <1>9, <1>10, <1>11,
     <1>12, <1>13, <1>14, <1>15, <1>16, <1>17, <1>18, <1>19, <1>20, <1>21,
     <1>22
     DEF Next, AgentStep, PlanStep

\* noPending keeps tickets apart, and a withdrawal under delivery is neither
\* cancelled nor reserved twice.
LEMMA TicketsStep == Structure /\ [Next]_vars => (OneOpenTicket /\ Reservations)'
<1> SUFFICES ASSUME Structure, [Next]_vars PROVE (OneOpenTicket /\ Reservations)'
  OBVIOUS
<1> USE DEF
      Structure, TypeOK, AgentFollows, Fresh, Requests, WellFormed,
      OneOpenTicket, Reservations, Open
<1>1. ASSUME NEW t \in Txn, Journal(t) PROVE (OneOpenTicket /\ Reservations)'
  <2>1. /\ status[t] = "none" /\ \A u \in Txn : u # t => req'[u] = req[u]
        /\ UNCHANGED serviceVars
    BY <1>1 DEF Journal, Fresh
  <2> QED
    BY <2>1 DEF OneOpenTicket, Reservations, Open
<1>2. ASSUME NEW t \in Txn, PrepareAgain(t) PROVE (OneOpenTicket /\ Reservations)'
  BY <1>2 DEF PrepareAgain, Arrives, Refuse, Awaited, Answer
<1>3. ASSUME NEW t \in Txn, PrepareRefused(t) PROVE (OneOpenTicket /\ Reservations)'
  BY <1>3 DEF PrepareRefused, Arrives, Refuse, Awaited, Answer
<1>4. ASSUME NEW t \in Txn, AdmitDeposit(t) PROVE (OneOpenTicket /\ Reservations)'
  <2>1. /\ \A u \in Txn : ~Open(u)
        /\ req[t].kind = "deposit"
        /\ \A u \in Txn : u # t => status'[u] = status[u]
        /\ UNCHANGED <<req, wd, remaining>>
    BY <1>4 DEF AdmitDeposit, Answer, Accepts, NoPending, IsDeposit
  <2> QED
    BY <2>1 DEF OneOpenTicket, Reservations, Open
<1>5. ASSUME NEW t \in Txn, ReserveItems(t) PROVE (OneOpenTicket /\ Reservations)'
  <2>1. /\ \A u \in Txn : ~Open(u)
        /\ req[t].kind = "items"
        /\ \A u \in Txn : u # t => status'[u] = status[u]
        /\ UNCHANGED <<req, wd, remaining>>
    BY <1>5 DEF ReserveItems, Answer, Accepts, NoPending
  <2> QED
    BY <2>1 DEF OneOpenTicket, Reservations, Open
<1>6. ASSUME NEW t \in Txn, ReserveWithdrawal(t) PROVE (OneOpenTicket /\ Reservations)'
  <2>1. /\ \A u \in Txn : ~Open(u)
        /\ \A u \in Txn : u # t => status'[u] = status[u]
        /\ UNCHANGED <<req, remaining>>
    BY <1>6 DEF ReserveWithdrawal, Answer, Accepts, NoPending
  <2>2. req[t].wid \in Wid /\ req[t].goods \in Goods
    BY <1>6 DEF ReserveWithdrawal, Requests, WellFormed, Request
  <2>3. wd'[req[t].wid] = "delivering" /\ parcel'[t].gold = Payable(t)
    BY <1>6, <2>2 DEF ReserveWithdrawal
  <2>4. Payable(t) <= remaining[req[t].wid]
    BY <2>2 DEF Payable, Lesser, Goods
  <2>5. \A u \in Txn : u # t => ~(Open(u))'
    BY <2>1 DEF Open
  <2> QED
    BY <2>1, <2>3, <2>4, <2>5 DEF OneOpenTicket, Reservations
<1>7. ASSUME NEW t \in Txn, ServeStatus(t) PROVE (OneOpenTicket /\ Reservations)'
  BY <1>7 DEF ServeStatus, Arrives, Refuse, Awaited, Answer
<1>8. ASSUME NEW t \in Txn, ServeCancel(t) PROVE (OneOpenTicket /\ Reservations)'
  <2>1. /\ Open(t) /\ ~(Open(t))'
        /\ \A u \in Txn : u # t => status'[u] = status[u]
    BY <1>8 DEF ServeCancel, Answer, Cancellable, Open
  <2>2. \A u \in Txn : ~(Open(u))'
    BY <2>1 DEF OneOpenTicket, Open
  <2> QED
    BY <2>2 DEF OneOpenTicket, Reservations
<1>9. ASSUME NEW t \in Txn, CancelRefused(t) PROVE (OneOpenTicket /\ Reservations)'
  BY <1>9 DEF CancelRefused, Arrives, Refuse, Awaited, Answer
<1>10. ASSUME NEW t \in Txn, ServeAuthorize(t) PROVE (OneOpenTicket /\ Reservations)'
  <2>1. /\ Open(t)
        /\ \A u \in Txn : u # t => status'[u] = status[u]
        /\ UNCHANGED <<req, wd, remaining, parcel>>
    BY <1>10 DEF ServeAuthorize, Answer, Authorizable
  <2>2. \A u \in Txn : (Open(u))' => Open(u)
    BY <2>1 DEF Open
  <2> QED
    BY <2>1, <2>2 DEF OneOpenTicket, Reservations
<1>11. ASSUME NEW t \in Txn, AuthorizeRefused(t) PROVE (OneOpenTicket /\ Reservations)'
  BY <1>11 DEF AuthorizeRefused, Arrives, Refuse, Awaited, Answer
<1>12. ASSUME NEW t \in Txn, CommitDeposit(t) PROVE (OneOpenTicket /\ Reservations)'
  <2>1. /\ Open(t) /\ ~(Open(t))'
        /\ \A u \in Txn : u # t => status'[u] = status[u]
    BY <1>12 DEF CommitDeposit, Answer, Committable, Open
  <2>2. \A u \in Txn : ~(Open(u))'
    BY <2>1 DEF OneOpenTicket, Open
  <2> QED
    BY <2>2 DEF OneOpenTicket, Reservations
<1>13. ASSUME NEW t \in Txn, CommitClaim(t) PROVE (OneOpenTicket /\ Reservations)'
  <2>1. /\ Open(t) /\ ~(Open(t))'
        /\ \A u \in Txn : u # t => status'[u] = status[u]
    BY <1>13 DEF CommitClaim, Answer, Committable, Open
  <2>2. \A u \in Txn : ~(Open(u))'
    BY <2>1 DEF OneOpenTicket, Open
  <2> QED
    BY <2>2 DEF OneOpenTicket, Reservations
<1>14. ASSUME NEW t \in Txn, CommitRefused(t) PROVE (OneOpenTicket /\ Reservations)'
  BY <1>14 DEF CommitRefused, Arrives, Refuse, Awaited, Answer
<1>15. ASSUME NEW i \in Item, EscrowPrice(i) PROVE (OneOpenTicket /\ Reservations)'
  BY <1>15 DEF EscrowPrice
<1>16. ASSUME NEW i \in Item, EscrowReturn(i) PROVE (OneOpenTicket /\ Reservations)'
  BY <1>16 DEF EscrowReturn
<1>17. ASSUME NEW i \in Item, RecordSale(i) PROVE (OneOpenTicket /\ Reservations)'
  BY <1>17 DEF RecordSale
<1>18. CASE SettleTrades
  BY <1>18 DEF SettleTrades
<1>19. ASSUME NEW w \in Wid, WalletWithdraw(w) PROVE (OneOpenTicket /\ Reservations)'
  BY <1>19 DEF WalletWithdraw
<1>20. ASSUME NEW w \in Wid, WalletCancel(w) PROVE (OneOpenTicket /\ Reservations)'
  BY <1>20 DEF WalletCancel
<1>21. CASE ((AgentStep \/ PlanStep \/ Abort) /\ UNCHANGED req) \/ GameStep \/ UNCHANGED vars
  <2>1. UNCHANGED <<status, req, wd, parcel, remaining>>
    BY <1>21, AgentFrame, GameFrame DEF vars
  <2> QED
    BY <2>1
<1> QED
  BY <1>1, <1>2, <1>3, <1>4, <1>5, <1>6, <1>7, <1>8, <1>9, <1>10, <1>11,
     <1>12, <1>13, <1>14, <1>15, <1>16, <1>17, <1>18, <1>19, <1>20, <1>21,
     RequestFrame
     DEF Next, Serve, VaultStep

LEMMA StructureStep == Structure /\ [Next]_vars => Structure'
  BY TypeStep, FollowsStep, FreshStep, RequestsStep, TicketsStep DEF Structure

LEMMA StructureAlways == Spec => []Structure
  BY InitStructure, StructureStep, PTL DEF Spec

\* Every variable keeps its type: the files of the agent and of the game, the
\* process states, and the rows of the service.
THEOREM CustodyTypes == Spec => []TypeOK
<1>1. Structure => TypeOK
  BY DEF Structure
<1> QED
  BY <1>1, StructureAlways, PTL

\* noPending (Escrow.php) works: whatever requests are repeated, delayed or
\* abandoned, a player has at most one ticket that may still change a save.
THEOREM OneTicketAtATime == Spec => []OneOpenTicket
<1>1. Structure => OneOpenTicket
  BY DEF Structure
<1> QED
  BY <1>1, StructureAlways, PTL

----------------------------------------------------------------------------
(***************************************************************************)
(* Position: Journaled, Truthful, Tickets and LateCalls.                   *)
(***************************************************************************)
LEMMA InitPosition == Init => Journaled /\ Truthful /\ Tickets /\ LateCalls
  BY DEF Init, Journaled, Unwritten, Truthful, Tickets, LateCalls, Settled

\* The durable phase follows the position of the agent, whatever the page is.
LEMMA JournaledStep == Position /\ [Next]_vars => Journaled'
<1> SUFFICES ASSUME Position, [Next]_vars PROVE Journaled'
  OBVIOUS
<1> USE DEF
      Position, Structure, TypeOK, AgentFollows, Journaled, MayReject,
      IsDeposit, Settled, Unwritten, Calls, Gated, Phases
<1>1. CASE PlanDeposit
  BY <1>1 DEF PlanDeposit
<1>2. CASE PlanItemClaim
  BY <1>2 DEF PlanItemClaim
<1>3. CASE PlanWithdrawalClaim
  BY <1>3 DEF PlanWithdrawalClaim
<1>4. ASSUME NEW t \in Txn, Journal(t) PROVE Journaled'
  BY <1>4 DEF Journal
<1>5. CASE JournalBlocked
  BY <1>5 DEF JournalBlocked
<1>6. CASE Recover
  BY <1>6 DEF Recover, Resume
<1>7. CASE OnPrepare
  BY <1>7 DEF OnPrepare, Close
<1>8. CASE OnStatus
  BY <1>8 DEF OnStatus, Close
<1>9. CASE PlanDelivery
  BY <1>9 DEF PlanDelivery
<1>10. CASE OnCancel
  BY <1>10 DEF OnCancel, Close
<1>11. CASE CheckImages
  BY <1>11 DEF CheckImages
<1>12. CASE OnAuthorize
  BY <1>12 DEF OnAuthorize, Authorized
<1>13. CASE Acquire
  BY <1>13 DEF Acquire
<1>14. CASE WritePage
  BY <1>14 DEF WritePage
<1>15. CASE MarkApplied
  BY <1>15 DEF MarkApplied
<1>16. CASE Release
  BY <1>16 DEF Release
<1>17. CASE OnCommit
  BY <1>17 DEF OnCommit
<1>18. CASE Finish
  BY <1>18 DEF Finish
<1>19. CASE FinishBlocked
  BY <1>19 DEF FinishBlocked
<1>20. CASE Unlink
  BY <1>20 DEF Unlink
<1>21. CASE Abort
  BY <1>21 DEF Abort
<1>22. CASE (\E t \in Txn : Serve(t)) \/ VaultStep \/ GameStep \/ UNCHANGED vars
  <2>1. UNCHANGED <<pc, phase, pointer, img, req>>
    BY <1>22, ServiceFrame, VaultFrame, GameFrame DEF vars
  <2> QED
    BY <2>1
<1> QED
  BY <1>1, <1>2, <1>3, <1>4, <1>5, <1>6, <1>7, <1>8, <1>9, <1>10, <1>11,
     <1>12, <1>13, <1>14, <1>15, <1>16, <1>17, <1>18, <1>19, <1>20, <1>21,
     <1>22
     DEF Next, AgentStep, PlanStep

\* Late requests may change a ticket between the answer and its use: never back.
LEMMA TruthfulStep == Position /\ [Next]_vars => Truthful'
<1> SUFFICES ASSUME Position, [Next]_vars PROVE Truthful'
  OBVIOUS
<1> USE DEF
      Position, Structure, TypeOK, AgentFollows, Truthful, Calls
<1>1. CASE PlanDeposit
  BY <1>1 DEF PlanDeposit
<1>2. CASE PlanItemClaim
  BY <1>2 DEF PlanItemClaim
<1>3. CASE PlanWithdrawalClaim
  BY <1>3 DEF PlanWithdrawalClaim
<1>4. ASSUME NEW t \in Txn, Journal(t) PROVE Truthful'
  BY <1>4 DEF Journal
<1>5. CASE JournalBlocked
  BY <1>5 DEF JournalBlocked
<1>6. CASE Recover
  BY <1>6 DEF Recover, Resume
<1>7. CASE OnPrepare
  BY <1>7 DEF OnPrepare, Close, IsDeposit
<1>8. CASE OnStatus
  BY <1>8 DEF OnStatus, IsDeposit, Close
<1>9. CASE PlanDelivery
  BY <1>9 DEF PlanDelivery
<1>10. CASE OnCancel
  BY <1>10 DEF OnCancel, Close
<1>11. CASE CheckImages
  BY <1>11 DEF CheckImages
<1>12. CASE OnAuthorize
  BY <1>12 DEF OnAuthorize, Authorized
<1>13. CASE Acquire
  BY <1>13 DEF Acquire
<1>14. CASE WritePage
  BY <1>14 DEF WritePage
<1>15. CASE MarkApplied
  BY <1>15 DEF MarkApplied
<1>16. CASE Release
  BY <1>16 DEF Release
<1>17. CASE OnCommit
  BY <1>17 DEF OnCommit
<1>18. CASE Finish
  BY <1>18 DEF Finish
<1>19. CASE FinishBlocked
  BY <1>19 DEF FinishBlocked
<1>20. CASE Unlink
  BY <1>20 DEF Unlink
<1>21. CASE Abort
  BY <1>21 DEF Abort
<1>22. ASSUME NEW t \in Txn, PrepareAgain(t) PROVE Truthful'
  BY <1>22 DEF PrepareAgain, Arrives, Refuse, Awaited, Answer
<1>23. ASSUME NEW t \in Txn, PrepareRefused(t) PROVE Truthful'
  BY <1>23 DEF PrepareRefused, Arrives, Refuse, Awaited, Answer
<1>24. ASSUME NEW t \in Txn, AdmitDeposit(t) PROVE Truthful'
  BY <1>24 DEF AdmitDeposit, Arrives, IsDeposit, Answer, Awaited
<1>25. ASSUME NEW t \in Txn, ReserveItems(t) PROVE Truthful'
  BY <1>25 DEF ReserveItems, Arrives, Answer, Awaited
<1>26. ASSUME NEW t \in Txn, ReserveWithdrawal(t) PROVE Truthful'
  BY <1>26 DEF ReserveWithdrawal, Arrives, Answer, Awaited
<1>27. ASSUME NEW t \in Txn, ServeStatus(t) PROVE Truthful'
  BY <1>27 DEF ServeStatus, Arrives, Refuse, Awaited, Answer
<1>28. ASSUME NEW t \in Txn, ServeCancel(t) PROVE Truthful'
  <2>1. /\ status[t] = "prepared" /\ status'[t] = "cancelled"
        /\ \A u \in Txn : u # t => status'[u] = status[u]
        /\ UNCHANGED <<pc, pointer>>
        /\ \/ pc = "cancel" /\ pointer = t /\ reply' = "cancelled"
           \/ UNCHANGED reply
    BY <1>28 DEF ServeCancel, Cancellable, Answer, Awaited
  <2> QED
    BY <2>1
<1>29. ASSUME NEW t \in Txn, CancelRefused(t) PROVE Truthful'
  BY <1>29 DEF CancelRefused, Arrives, Refuse, Awaited, Answer
<1>30. ASSUME NEW t \in Txn, ServeAuthorize(t) PROVE Truthful'
  <2>1. /\ status[t] \in {"prepared", "writing"} /\ status'[t] = "writing"
        /\ \A u \in Txn : u # t => status'[u] = status[u]
        /\ UNCHANGED <<pc, pointer>>
        /\ \/ pc = "authorize" /\ pointer = t /\ reply' = "writing"
           \/ UNCHANGED reply
    BY <1>30 DEF ServeAuthorize, Authorizable, Open, Answer, Awaited
  <2> QED
    BY <2>1
<1>31. ASSUME NEW t \in Txn, AuthorizeRefused(t) PROVE Truthful'
  BY <1>31 DEF AuthorizeRefused, Arrives, Refuse, Awaited, Answer
<1>32. ASSUME NEW t \in Txn, CommitDeposit(t) PROVE Truthful'
  <2>1. /\ status[t] = "writing" /\ status'[t] = "committed"
        /\ \A u \in Txn : u # t => status'[u] = status[u]
        /\ UNCHANGED <<pc, pointer>>
        /\ \/ pc = "commit" /\ pointer = t /\ reply' = "committed"
           \/ UNCHANGED reply
    BY <1>32 DEF CommitDeposit, Committable, Answer, Awaited
  <2> QED
    BY <2>1
<1>33. ASSUME NEW t \in Txn, CommitClaim(t) PROVE Truthful'
  <2>1. /\ status[t] = "writing" /\ status'[t] = "committed"
        /\ \A u \in Txn : u # t => status'[u] = status[u]
        /\ UNCHANGED <<pc, pointer>>
        /\ \/ pc = "commit" /\ pointer = t /\ reply' = "committed"
           \/ UNCHANGED reply
    BY <1>33 DEF CommitClaim, Committable, Answer, Awaited
  <2> QED
    BY <2>1
<1>34. ASSUME NEW t \in Txn, CommitRefused(t) PROVE Truthful'
  BY <1>34 DEF CommitRefused, Arrives, Refuse, Awaited, Answer
<1>35. CASE VaultStep \/ GameStep \/ UNCHANGED vars
  <2>1. UNCHANGED <<pc, reply, pointer, status>>
    BY <1>35, VaultFrame, GameFrame DEF vars
  <2> QED
    BY <2>1
<1> QED
  BY <1>1, <1>2, <1>3, <1>4, <1>5, <1>6, <1>7, <1>8, <1>9, <1>10, <1>11,
     <1>12, <1>13, <1>14, <1>15, <1>16, <1>17, <1>18, <1>19, <1>20, <1>21,
     <1>22, <1>23, <1>24, <1>25, <1>26, <1>27, <1>28, <1>29, <1>30, <1>31,
     <1>32, <1>33, <1>34, <1>35
     DEF Next, AgentStep, PlanStep, Serve

\* The service commits only what the journal says is written.
LEMMA TicketStep == Position /\ [Next]_vars => Tickets'
<1> SUFFICES ASSUME Position, [Next]_vars PROVE Tickets'
  OBVIOUS
<1> USE DEF
      Position, Structure, TypeOK, AgentFollows, Tickets, Distinct,
      Journaled, Settled, Unwritten, Truthful, Fresh, LateCalls
<1>1. CASE PlanDeposit
  BY <1>1 DEF PlanDeposit
<1>2. CASE PlanItemClaim
  BY <1>2 DEF PlanItemClaim
<1>3. CASE PlanWithdrawalClaim
  BY <1>3 DEF PlanWithdrawalClaim
<1>4. ASSUME NEW t \in Txn, Journal(t) PROVE Tickets'
  BY <1>4 DEF Journal
<1>5. CASE JournalBlocked
  BY <1>5 DEF JournalBlocked
<1>6. CASE Recover
  BY <1>6 DEF Recover, Resume
<1>7. CASE OnPrepare
  BY <1>7 DEF OnPrepare, Close, IsDeposit
<1>8. CASE OnStatus
  BY <1>8 DEF OnStatus, IsDeposit, Close
<1>9. CASE PlanDelivery
  BY <1>9 DEF PlanDelivery
<1>10. CASE OnCancel
  BY <1>10 DEF OnCancel, Close
<1>11. CASE CheckImages
  BY <1>11 DEF CheckImages
<1>12. CASE OnAuthorize
  BY <1>12 DEF OnAuthorize, Authorized
<1>13. CASE Acquire
  BY <1>13 DEF Acquire
<1>14. CASE WritePage
  BY <1>14 DEF WritePage
<1>15. CASE MarkApplied
  BY <1>15 DEF MarkApplied
<1>16. CASE Release
  BY <1>16 DEF Release
<1>17. CASE OnCommit
  BY <1>17 DEF OnCommit
<1>18. CASE Finish
  BY <1>18 DEF Finish
<1>19. CASE FinishBlocked
  BY <1>19 DEF FinishBlocked
<1>20. CASE Unlink
  BY <1>20 DEF Unlink
<1>21. CASE Abort
  BY <1>21 DEF Abort, Calls
<1>22. ASSUME NEW t \in Txn, PrepareAgain(t) PROVE Tickets'
  BY <1>22 DEF PrepareAgain, Refuse, Answer
<1>23. ASSUME NEW t \in Txn, PrepareRefused(t) PROVE Tickets'
  BY <1>23 DEF PrepareRefused, Refuse, Answer
<1>24. ASSUME NEW t \in Txn, AdmitDeposit(t) PROVE Tickets'
  BY <1>24 DEF AdmitDeposit, Arrives, IsDeposit, Answer, Awaited
<1>25. ASSUME NEW t \in Txn, ReserveItems(t) PROVE Tickets'
  BY <1>25 DEF ReserveItems, Arrives, Answer, Awaited
<1>26. ASSUME NEW t \in Txn, ReserveWithdrawal(t) PROVE Tickets'
  BY <1>26 DEF ReserveWithdrawal, Arrives, Answer, Awaited
<1>27. ASSUME NEW t \in Txn, ServeStatus(t) PROVE Tickets'
  BY <1>27 DEF ServeStatus, Refuse, Answer
<1>28. ASSUME NEW t \in Txn, ServeCancel(t) PROVE Tickets'
  <2>1. /\ status[t] = "prepared" /\ status'[t] = "cancelled"
        /\ \A u \in Txn : u # t => status'[u] = status[u]
        /\ UNCHANGED <<proof, img, req, phase>>
    BY <1>28 DEF ServeCancel, Cancellable, Answer
  <2> QED
    BY <2>1
<1>29. ASSUME NEW t \in Txn, CancelRefused(t) PROVE Tickets'
  BY <1>29 DEF CancelRefused, Refuse, Answer
<1>30. ASSUME NEW t \in Txn, ServeAuthorize(t) PROVE Tickets'
  <2>1. img[t] # None
    BY <1>30 DEF ServeAuthorize, Arrives, Awaited
  <2>2. /\ Open(t) /\ Distinct(t)
        /\ status'[t] = "writing" /\ proof'[t] = img[t]
        /\ \A u \in Txn : u # t => status'[u] = status[u] /\ proof'[u] = proof[u]
        /\ UNCHANGED <<img, phase>>
    BY <1>30 DEF ServeAuthorize, Authorizable, Open, Answer
  <2> QED
    BY <2>1, <2>2 DEF Open
<1>31. ASSUME NEW t \in Txn, AuthorizeRefused(t) PROVE Tickets'
  BY <1>31 DEF AuthorizeRefused, Refuse, Answer
<1>32. ASSUME NEW t \in Txn, CommitDeposit(t) PROVE Tickets'
  <2>1. phase[t] \in Settled
    BY <1>32 DEF CommitDeposit, Arrives, Awaited
  <2>2. /\ status[t] = "writing" /\ status'[t] = "committed"
        /\ \A u \in Txn : u # t => status'[u] = status[u]
        /\ UNCHANGED <<proof, img, phase>>
    BY <1>32 DEF CommitDeposit, Committable, Answer
  <2> QED
    BY <2>1, <2>2
<1>33. ASSUME NEW t \in Txn, CommitClaim(t) PROVE Tickets'
  <2>1. phase[t] \in Settled
    BY <1>33 DEF CommitClaim, Arrives, Awaited
  <2>2. /\ status[t] = "writing" /\ status'[t] = "committed"
        /\ \A u \in Txn : u # t => status'[u] = status[u]
        /\ UNCHANGED <<proof, img, phase>>
    BY <1>33 DEF CommitClaim, Committable, Answer
  <2> QED
    BY <2>1, <2>2
<1>34. ASSUME NEW t \in Txn, CommitRefused(t) PROVE Tickets'
  BY <1>34 DEF CommitRefused, Refuse, Answer
<1>35. CASE VaultStep \/ GameStep \/ UNCHANGED vars
  <2>1. UNCHANGED <<status, img, proof, phase>>
    BY <1>35, VaultFrame, GameFrame DEF vars
  <2> QED
    BY <2>1
<1> QED
  BY <1>1, <1>2, <1>3, <1>4, <1>5, <1>6, <1>7, <1>8, <1>9, <1>10, <1>11,
     <1>12, <1>13, <1>14, <1>15, <1>16, <1>17, <1>18, <1>19, <1>20, <1>21,
     <1>22, <1>23, <1>24, <1>25, <1>26, <1>27, <1>28, <1>29, <1>30, <1>31,
     <1>32, <1>33, <1>34, <1>35
     DEF Next, AgentStep, PlanStep, Serve

\* An abandoned request is as justified when it arrives as when it was sent.
LEMMA LateCallsStep == Position /\ [Next]_vars => LateCalls'
<1> SUFFICES ASSUME Position, [Next]_vars PROVE LateCalls'
  OBVIOUS
<1> USE DEF
      Position, Structure, TypeOK, AgentFollows, LateCalls, Journaled,
      Settled, Unwritten, Fresh, Calls
<1>1. CASE PlanDeposit
  BY <1>1 DEF PlanDeposit
<1>2. CASE PlanItemClaim
  BY <1>2 DEF PlanItemClaim
<1>3. CASE PlanWithdrawalClaim
  BY <1>3 DEF PlanWithdrawalClaim
<1>4. ASSUME NEW t \in Txn, Journal(t) PROVE LateCalls'
  BY <1>4 DEF Journal
<1>5. CASE JournalBlocked
  BY <1>5 DEF JournalBlocked
<1>6. CASE Recover
  BY <1>6 DEF Recover, Resume
<1>7. CASE OnPrepare
  BY <1>7 DEF OnPrepare, Close, IsDeposit
<1>8. CASE OnStatus
  BY <1>8 DEF OnStatus, IsDeposit, Close
<1>9. CASE PlanDelivery
  BY <1>9 DEF PlanDelivery
<1>10. CASE OnCancel
  BY <1>10 DEF OnCancel, Close
<1>11. CASE CheckImages
  BY <1>11 DEF CheckImages
<1>12. CASE OnAuthorize
  BY <1>12 DEF OnAuthorize, Authorized
<1>13. CASE Acquire
  BY <1>13 DEF Acquire
<1>14. CASE WritePage
  BY <1>14 DEF WritePage
<1>15. CASE MarkApplied
  BY <1>15 DEF MarkApplied
<1>16. CASE Release
  BY <1>16 DEF Release
<1>17. CASE OnCommit
  BY <1>17 DEF OnCommit
<1>18. CASE Finish
  BY <1>18 DEF Finish
<1>19. CASE FinishBlocked
  BY <1>19 DEF FinishBlocked
<1>20. CASE Unlink
  BY <1>20 DEF Unlink
<1>21. CASE Abort
  BY <1>21 DEF Abort
<1>22. CASE (\E t \in Txn : Serve(t)) \/ VaultStep \/ GameStep \/ UNCHANGED vars
  <2>1. UNCHANGED <<late, img, phase>>
    BY <1>22, ServiceFrame, VaultFrame, GameFrame DEF vars
  <2> QED
    BY <2>1
<1> QED
  BY <1>1, <1>2, <1>3, <1>4, <1>5, <1>6, <1>7, <1>8, <1>9, <1>10, <1>11,
     <1>12, <1>13, <1>14, <1>15, <1>16, <1>17, <1>18, <1>19, <1>20, <1>21,
     <1>22
     DEF Next, AgentStep, PlanStep

\* No handler reopens a ticket, and an authorized one can only commit.
LEMMA ProgressStep == TypeOK /\ [Next]_vars => Progress
<1> SUFFICES ASSUME TypeOK, [Next]_vars PROVE Progress
  OBVIOUS
<1> USE DEF
      TypeOK, Progress
<1>1. ASSUME NEW t \in Txn, PrepareAgain(t) PROVE Progress
  BY <1>1 DEF PrepareAgain, Refuse
<1>2. ASSUME NEW t \in Txn, PrepareRefused(t) PROVE Progress
  BY <1>2 DEF PrepareRefused, Refuse
<1>3. ASSUME NEW t \in Txn, AdmitDeposit(t) PROVE Progress
  <2>1. \A u \in Txn : u # t => status'[u] = status[u]
    BY <1>3 DEF AdmitDeposit
  <2>2. /\ status[t] \notin {"committed", "cancelled"}
        /\ status[t] = "writing" => status'[t] \in {"writing", "committed"}
    BY <1>3 DEF AdmitDeposit
  <2> QED
    BY <2>1, <2>2 DEF Progress
<1>4. ASSUME NEW t \in Txn, ReserveItems(t) PROVE Progress
  <2>1. \A u \in Txn : u # t => status'[u] = status[u]
    BY <1>4 DEF ReserveItems
  <2>2. /\ status[t] \notin {"committed", "cancelled"}
        /\ status[t] = "writing" => status'[t] \in {"writing", "committed"}
    BY <1>4 DEF ReserveItems
  <2> QED
    BY <2>1, <2>2 DEF Progress
<1>5. ASSUME NEW t \in Txn, ReserveWithdrawal(t) PROVE Progress
  <2>1. \A u \in Txn : u # t => status'[u] = status[u]
    BY <1>5 DEF ReserveWithdrawal
  <2>2. /\ status[t] \notin {"committed", "cancelled"}
        /\ status[t] = "writing" => status'[t] \in {"writing", "committed"}
    BY <1>5 DEF ReserveWithdrawal
  <2> QED
    BY <2>1, <2>2 DEF Progress
<1>6. ASSUME NEW t \in Txn, ServeStatus(t) PROVE Progress
  BY <1>6 DEF ServeStatus, Refuse
<1>7. ASSUME NEW t \in Txn, ServeCancel(t) PROVE Progress
  <2>1. \A u \in Txn : u # t => status'[u] = status[u]
    BY <1>7 DEF ServeCancel
  <2>2. /\ status[t] \notin {"committed", "cancelled"}
        /\ status[t] = "writing" => status'[t] \in {"writing", "committed"}
    BY <1>7 DEF ServeCancel, Cancellable
  <2> QED
    BY <2>1, <2>2 DEF Progress
<1>8. ASSUME NEW t \in Txn, CancelRefused(t) PROVE Progress
  BY <1>8 DEF CancelRefused, Refuse
<1>9. ASSUME NEW t \in Txn, ServeAuthorize(t) PROVE Progress
  <2>1. \A u \in Txn : u # t => status'[u] = status[u]
    BY <1>9 DEF ServeAuthorize
  <2>2. /\ status[t] \notin {"committed", "cancelled"}
        /\ status[t] = "writing" => status'[t] \in {"writing", "committed"}
    BY <1>9 DEF ServeAuthorize, Authorizable, Open
  <2> QED
    BY <2>1, <2>2 DEF Progress
<1>10. ASSUME NEW t \in Txn, AuthorizeRefused(t) PROVE Progress
  BY <1>10 DEF AuthorizeRefused, Refuse
<1>11. ASSUME NEW t \in Txn, CommitDeposit(t) PROVE Progress
  <2>1. \A u \in Txn : u # t => status'[u] = status[u]
    BY <1>11 DEF CommitDeposit
  <2>2. /\ status[t] \notin {"committed", "cancelled"}
        /\ status[t] = "writing" => status'[t] \in {"writing", "committed"}
    BY <1>11 DEF CommitDeposit, Committable
  <2> QED
    BY <2>1, <2>2 DEF Progress
<1>12. ASSUME NEW t \in Txn, CommitClaim(t) PROVE Progress
  <2>1. \A u \in Txn : u # t => status'[u] = status[u]
    BY <1>12 DEF CommitClaim
  <2>2. /\ status[t] \notin {"committed", "cancelled"}
        /\ status[t] = "writing" => status'[t] \in {"writing", "committed"}
    BY <1>12 DEF CommitClaim, Committable
  <2> QED
    BY <2>1, <2>2 DEF Progress
<1>13. ASSUME NEW t \in Txn, CommitRefused(t) PROVE Progress
  BY <1>13 DEF CommitRefused, Refuse
<1>14. CASE (AgentStep \/ PlanStep \/ Abort) \/ VaultStep \/ GameStep \/ UNCHANGED vars
  <2>1. UNCHANGED <<status>>
    BY <1>14, AgentFrame, VaultFrame, GameFrame DEF vars
  <2> QED
    BY <2>1
<1> QED
  BY <1>1, <1>2, <1>3, <1>4, <1>5, <1>6, <1>7, <1>8, <1>9, <1>10, <1>11,
     <1>12, <1>13, <1>14
     DEF Next, Serve

LEMMA PositionStep == Position /\ [Next]_vars => Position'
<1> SUFFICES ASSUME Position, [Next]_vars PROVE Position'
  OBVIOUS
<1>1. Structure'
  BY StructureStep DEF Position
<1> QED
  BY <1>1, JournaledStep, TruthfulStep, TicketStep, LateCallsStep DEF Position

\* Wherever and whenever the page is loaded, where the agent is, its journal and the tickets of
\* the service agree: authorized images are the journal's, a receipt never comes
\* before the authorization, a commit never before the receipt.
THEOREM PositionAlways == Spec => []Position
<1>1. Init => Position
  BY InitStructure, InitPosition DEF Position
<1> QED
  BY <1>1, PositionStep, PTL DEF Spec

\* A ticket is never reopened, and once the service has authorized the write it
\* can only commit: cancel (Escrow.php) cannot race the replacement of the page.
THEOREM TicketsMoveForward == Spec => TicketOrder
<1>1. Structure /\ [Next]_vars => [Progress]_vars
  BY ProgressStep DEF Structure
<1> QED
  BY <1>1, StructureAlways, PTL DEF Spec, TicketOrder

\* Only the agent's write and the game's save touch the page.
LEMMA AgentPage == AgentStep => WritePage \/ UNCHANGED page
  BY DEF AgentStep, Journal, JournalBlocked, Recover, OnPrepare, OnStatus,
     PlanDelivery, OnCancel, CheckImages, OnAuthorize, Acquire, MarkApplied,
     Release, OnCommit, Finish, FinishBlocked, Unlink

LEMMA PageFrame == [Next]_vars => WritePage \/ UnloadPage \/ UNCHANGED page
<1>1. PlanStep \/ Abort => UNCHANGED page
  BY DEF PlanStep, PlanDeposit, PlanItemClaim, PlanWithdrawalClaim, Abort
<1>2. AgentStep => WritePage \/ UNCHANGED page
  BY AgentPage
<1>3. GameStep => UnloadPage \/ UNCHANGED page
  BY DEF GameStep, Launch, OpenGrant, Revoke, LoadNatively, LoadPage, MoveGoods, Quit
<1> QED
  BY <1>1, <1>2, <1>3, ServiceFrame, VaultFrame DEF Next, vars

LEMMA WriteIsAuthorized == Position /\ [Next]_vars => AuthorizedWrite
<1> SUFFICES ASSUME Position, [Next]_vars, page' # page, ~Loaded
             PROVE  \E t \in Txn : /\ status[t] = "writing" /\ proof[t] = img[t]
                                   /\ page = img[t].before /\ page' = img[t].after
  BY DEF AuthorizedWrite
<1>1. WritePage
  BY PageFrame DEF UnloadPage
<1>2. /\ pointer \in Txn /\ phase[pointer] = "applying"
      /\ page \in {img[pointer].before, img[pointer].after}
      /\ page' = img[pointer].after
  BY <1>1 DEF WritePage, PageMatches, Position, Structure, TypeOK, AgentFollows,
     Journaled
<1>3. status[pointer] = "writing" /\ proof[pointer] = img[pointer]
  BY <1>2 DEF Position, Tickets, Settled
<1> QED
  BY <1>2, <1>3

\* Whatever the game loads without asking, and whatever the player does to the
\* page between two steps of the agent, an edit is never overwritten and nothing
\* is written without an authorization.
THEOREM WritesAreAuthorized == Spec => OnlyAuthorizedWrites
<1>1. Position /\ [Next]_vars => [AuthorizedWrite]_vars
  BY WriteIsAuthorized
<1> QED
  BY <1>1, PositionAlways, PTL DEF Spec, OnlyAuthorizedWrites

----------------------------------------------------------------------------
(***************************************************************************)
(* The agent forgets no ticket.  When an abandoned request cannot reach    *)
(* the service any more, every ticket that may still change a save is the  *)
(* one that pending.json names, wherever the page is loaded.               *)
(***************************************************************************)
\* An answer that there is no ticket is true until the agent has read it, and the
\* pointer of an unfinished ticket is never removed.
Remembered ==
    /\ late = {}
    /\ reply \in {"absent", "empty"} => status[pointer] = "none"
    /\ pc = "unlink" => ~Open(pointer)
    /\ OpenTicketIsPending

LEMMA RememberedStep ==
    ASSUME LateRequests = FALSE
    PROVE  Position /\ Remembered /\ [Next]_vars => Remembered'
<1> SUFFICES ASSUME Position, Remembered, [Next]_vars PROVE Remembered'
  OBVIOUS
<1> USE DEF
      Position, Structure, TypeOK, AgentFollows, Truthful, Remembered,
      OpenTicketIsPending, Open
<1>1. ASSUME NEW t \in Txn, Journal(t) PROVE Remembered'
  <2>1. /\ pointer = None /\ reply' = "none" /\ pc' = "idle"
        /\ UNCHANGED <<status, late>>
    BY <1>1 DEF Journal
  <2> QED
    BY <2>1
<1>2. CASE PlanStep
  BY <1>2 DEF PlanStep, PlanDeposit, PlanItemClaim, PlanWithdrawalClaim
<1>3. CASE OnPrepare \/ OnStatus \/ OnCancel
  <2>1. /\ UNCHANGED <<pointer, status, late>> /\ reply' = "none"
    BY <1>3 DEF OnPrepare, OnStatus, OnCancel, Close
  <2>2. pc' = "unlink" => reply \in {"empty", "cancelled", "absent"}
    BY <1>3 DEF OnPrepare, OnStatus, OnCancel, Close
  <2>3. reply = "cancelled" => status[pointer] = "cancelled"
    OBVIOUS
  <2> QED
    BY <2>1, <2>2, <2>3
<1>4. CASE Finish
  <2>1. pointer \in Txn /\ status[pointer] = "committed"
    BY <1>4 DEF Finish, Journaled, Tickets, Calls
  <2>2. \A t \in Txn : ~Open(t)
    BY <2>1
  <2>3. pointer' = None /\ reply' = "none" /\ pc' = "idle" /\ UNCHANGED <<status, late>>
    BY <1>4 DEF Finish
  <2> QED
    BY <2>2, <2>3
<1>5. CASE Unlink
  <2>1. \A t \in Txn : ~Open(t)
    BY <1>5 DEF Unlink
  <2>2. pointer' = None /\ reply' = "none" /\ pc' = "idle" /\ UNCHANGED <<status, late>>
    BY <1>5 DEF Unlink
  <2> QED
    BY <2>1, <2>2
<1>6. CASE \/ JournalBlocked \/ Recover \/ PlanDelivery \/ CheckImages \/ OnAuthorize
           \/ Acquire \/ WritePage \/ MarkApplied \/ Release \/ OnCommit
           \/ FinishBlocked \/ Abort
  <2>1. UNCHANGED <<pointer, status, late>> /\ reply' = "none" /\ pc' # "unlink"
    BY <1>6 DEF JournalBlocked, Recover, Resume, PlanDelivery, CheckImages,
       OnAuthorize, Acquire, WritePage, MarkApplied, Release, OnCommit,
       FinishBlocked, Abort
  <2> QED
    BY <2>1
<1>7. ASSUME NEW t \in Txn, Serve(t) PROVE Remembered'
  <2>1. UNCHANGED <<pc, pointer, late>>
    BY <1>7, ServiceFrame
  <2>2. pointer = t /\ reply = "none" /\ pc \in Calls
    BY <1>7 DEF Serve, Answer, Refuse, Arrives, Awaited, PrepareAgain, PrepareRefused,
       AdmitDeposit, ReserveItems, ReserveWithdrawal, ServeStatus, ServeCancel,
       CancelRefused, ServeAuthorize, AuthorizeRefused, CommitDeposit, CommitClaim,
       CommitRefused, Calls
  <2>3. \A u \in Txn : u # t => status'[u] = status[u]
    BY <1>7 DEF Serve, Refuse, PrepareAgain, PrepareRefused,
       AdmitDeposit, ReserveItems, ReserveWithdrawal, ServeStatus, ServeCancel,
       CancelRefused, ServeAuthorize, AuthorizeRefused, CommitDeposit, CommitClaim,
       CommitRefused
  <2>4. \A u \in Txn : Open(u)' => u = pointer'
    BY <2>1, <2>2, <2>3
  <2>5. pc' # "unlink"
    BY <2>1, <2>2 DEF Calls
  <2>6. reply' \in {"absent", "empty"} => status'[t] = "none"
    <3>1. CASE PrepareAgain(t)
      BY <2>2, <3>1 DEF PrepareAgain, Refuse, Answer, Statuses
    <3>2. CASE AdmitDeposit(t) \/ ReserveItems(t) \/ ReserveWithdrawal(t)
               \/ ServeCancel(t) \/ ServeAuthorize(t) \/ CommitDeposit(t) \/ CommitClaim(t)
      BY <2>2, <3>2 DEF AdmitDeposit, ReserveItems, ReserveWithdrawal, ServeCancel,
         ServeAuthorize, CommitDeposit, CommitClaim, Answer
    <3>3. CASE PrepareRefused(t)
      BY <2>2, <3>3 DEF PrepareRefused, Refuse, Answer
    <3>4. CASE ServeStatus(t)
      BY <2>2, <3>4 DEF ServeStatus, Refuse, Answer, Statuses
    <3>5. CASE CancelRefused(t)
      BY <2>2, <3>5 DEF CancelRefused, Refuse, Answer
    <3>6. CASE AuthorizeRefused(t)
      BY <2>2, <3>6 DEF AuthorizeRefused, Refuse, Answer
    <3>7. CASE CommitRefused(t)
      BY <2>2, <3>7 DEF CommitRefused, Refuse, Answer
    <3> QED
      BY <1>7, <3>1, <3>2, <3>3, <3>4, <3>5, <3>6, <3>7 DEF Serve
  <2> QED
    BY <2>1, <2>2, <2>4, <2>5, <2>6
<1>8. CASE VaultStep \/ GameStep \/ UNCHANGED vars
  <2>1. UNCHANGED <<pc, reply, pointer, status, late>>
    BY <1>8, VaultFrame, GameFrame DEF vars
  <2> QED
    BY <2>1
<1> QED
  BY <1>1, <1>2, <1>3, <1>4, <1>5, <1>6, <1>7, <1>8 DEF Next, AgentStep

\* Nothing but the transfer of pending.json can block the owner's other transfers
\* or change a save, unless a request of an abandoned call is still on its way.
THEOREM OpenTicketsArePending ==
    ASSUME LateRequests = FALSE
    PROVE  Spec => []OpenTicketIsPending
<1>1. Init => Remembered
  BY DEF Init, Remembered, OpenTicketIsPending, Open
<1>2. Position /\ Remembered /\ [Next]_vars => Remembered'
  BY RememberedStep
<1>3. Spec => []Position
  BY PositionAlways
<1>4. Remembered => OpenTicketIsPending
  BY DEF Remembered
<1> QED
  BY <1>1, <1>2, <1>3, <1>4, PTL DEF Spec

----------------------------------------------------------------------------
(***************************************************************************)
(* When no edit is mistaken for the agent's work, first Exclusion and then *)
(* Whereabouts is inductive: every committed ticket has changed the page   *)
(* exactly once, the ledger and the page agree on every item through every *)
(* crash, late request and load that nobody permitted, and each item is in *)
(* exactly one place.  Every other edit is covered: the agent finds a page *)
(* that is neither image, and stops.                                       *)
(***************************************************************************)

(***************************************************************************)
(* The page is replaced under exclusion.                                   *)
(***************************************************************************)
LEMMA InitExclusion == Init => PageHeld /\ Planned /\ OnImages /\ Receipts
  BY DEF Init, PageHeld, Planned, OnImages, Receipts, Settled, Gated

\* The game cannot load the page while the agent is inside save_access.
LEMMA PageHeldStep ==
    Exclusion /\ [Next]_vars => PageHeld'
<1> SUFFICES ASSUME Exclusion, [Next]_vars PROVE PageHeld'
  OBVIOUS
<1> USE DEF
      Exclusion, Position, Structure, TypeOK, AgentFollows, PageHeld,
      Journaled, Settled, Unwritten, Gated, Calls, Accessible
<1>1. CASE PlanDeposit
  BY <1>1 DEF PlanDeposit, Accessible
<1>2. CASE PlanItemClaim
  BY <1>2 DEF PlanItemClaim, Accessible
<1>3. CASE PlanWithdrawalClaim
  BY <1>3 DEF PlanWithdrawalClaim, Accessible
<1>4. ASSUME NEW t \in Txn, Journal(t) PROVE PageHeld'
  BY <1>4 DEF Journal, Accessible
<1>5. CASE JournalBlocked
  BY <1>5 DEF JournalBlocked, Accessible
<1>6. CASE Recover
  BY <1>6 DEF Recover, Resume
<1>7. CASE OnPrepare
  BY <1>7 DEF OnPrepare, Close, IsDeposit
<1>8. CASE OnStatus
  BY <1>8 DEF OnStatus, IsDeposit, Close
<1>9. CASE PlanDelivery
  BY <1>9 DEF PlanDelivery, Accessible
<1>10. CASE OnCancel
  BY <1>10 DEF OnCancel, Close
<1>11. CASE CheckImages
  BY <1>11 DEF CheckImages
<1>12. CASE OnAuthorize
  BY <1>12 DEF OnAuthorize, Authorized
<1>13. CASE Acquire
  BY <1>13 DEF Acquire, Accessible
<1>14. CASE WritePage
  BY <1>14 DEF WritePage
<1>15. CASE MarkApplied
  BY <1>15 DEF MarkApplied
<1>16. CASE Release
  BY <1>16 DEF Release
<1>17. CASE OnCommit
  BY <1>17 DEF OnCommit
<1>18. CASE Finish
  BY <1>18 DEF Finish
<1>19. CASE FinishBlocked
  BY <1>19 DEF FinishBlocked
<1>20. CASE Unlink
  BY <1>20 DEF Unlink
<1>21. CASE Abort
  BY <1>21 DEF Abort
<1>22. CASE Launch \/ OpenGrant \/ Revoke \/ LoadNatively
  BY <1>22 DEF Launch, OpenGrant, Revoke, LoadNatively
<1>23. CASE LoadPage
  BY <1>23 DEF LoadPage, PendingBlocksPage
<1>24. CASE MoveGoods
  BY <1>24 DEF MoveGoods
<1>25. CASE UnloadPage
  BY <1>25 DEF UnloadPage, Loaded
<1>26. CASE Quit
  BY <1>26 DEF Quit
<1>27. CASE (\E t \in Txn : Serve(t)) \/ VaultStep \/ UNCHANGED vars
  <2>1. UNCHANGED <<game, pc, pointer, safe, phase>>
    BY <1>27, ServiceFrame, VaultFrame DEF vars
  <2> QED
    BY <2>1
<1> QED
  BY <1>1, <1>2, <1>3, <1>4, <1>5, <1>6, <1>7, <1>8, <1>9, <1>10, <1>11,
     <1>12, <1>13, <1>14, <1>15, <1>16, <1>17, <1>18, <1>19, <1>20, <1>21,
     <1>22, <1>23, <1>24, <1>25, <1>26, <1>27
     DEF Next, AgentStep, PlanStep, GameStep

\* An edit under a plan never leaves the page that was planned.
LEMMA PlannedStep ==
    Exclusion /\ [Next]_vars /\ ~Coincidence => Planned'
<1> SUFFICES ASSUME Exclusion, [Next]_vars, ~Coincidence PROVE Planned'
  OBVIOUS
<1> USE DEF
      Exclusion, Position, Structure, TypeOK, AgentFollows, Planned,
      PageHeld, Calls, Gated
<1>1. CASE PlanDeposit
  <2>1. PICK items \in SUBSET page.items, gold \in 0..page.gold :
            /\ [items |-> items, gold |-> gold] # Nothing
            /\ plan' = [req |-> [kind |-> "deposit", wid |-> None,
                                 goods |-> [items |-> items, gold |-> gold]],
                        img |-> [before |-> page,
                                 after |-> Minus(page, [items |-> items, gold |-> gold])]]
    BY <1>1 DEF PlanDeposit
  <2>2. Minus(page, [items |-> items, gold |-> gold]) # page
    BY <2>1, MinusDiffers
  <2> QED
    BY <1>1, <2>1, <2>2 DEF PlanDeposit
<1>2. CASE PlanItemClaim
  BY <1>2 DEF PlanItemClaim
<1>3. CASE PlanWithdrawalClaim
  BY <1>3 DEF PlanWithdrawalClaim
<1>4. ASSUME NEW t \in Txn, Journal(t) PROVE Planned'
  BY <1>4 DEF Journal
<1>5. CASE JournalBlocked
  BY <1>5 DEF JournalBlocked
<1>6. CASE Recover
  BY <1>6 DEF Recover, Resume
<1>7. CASE OnPrepare
  BY <1>7 DEF OnPrepare, Close, IsDeposit
<1>8. CASE OnStatus
  BY <1>8 DEF OnStatus, IsDeposit, Close
<1>9. CASE PlanDelivery
  BY <1>9 DEF PlanDelivery
<1>10. CASE OnCancel
  BY <1>10 DEF OnCancel, Close
<1>11. CASE CheckImages
  BY <1>11 DEF CheckImages
<1>12. CASE OnAuthorize
  BY <1>12 DEF OnAuthorize, Authorized
<1>13. CASE Acquire
  BY <1>13 DEF Acquire
<1>14. CASE WritePage
  BY <1>14 DEF WritePage
<1>15. CASE MarkApplied
  BY <1>15 DEF MarkApplied
<1>16. CASE Release
  BY <1>16 DEF Release
<1>17. CASE OnCommit
  BY <1>17 DEF OnCommit
<1>18. CASE Finish
  BY <1>18 DEF Finish
<1>19. CASE FinishBlocked
  BY <1>19 DEF FinishBlocked
<1>20. CASE Unlink
  BY <1>20 DEF Unlink
<1>21. CASE Abort
  BY <1>21 DEF Abort
<1>22. CASE Launch \/ OpenGrant \/ Revoke
  BY <1>22 DEF Launch, OpenGrant, Revoke
<1>23. CASE LoadNatively \/ LoadPage
  BY <1>23 DEF LoadNatively, LoadPage
<1>24. CASE MoveGoods
  BY <1>24 DEF MoveGoods
<1>25. CASE UnloadPage
  BY <1>25 DEF UnloadPage, Coincidence
<1>26. CASE Quit
  BY <1>26 DEF Quit
<1>27. CASE (\E t \in Txn : Serve(t)) \/ VaultStep \/ UNCHANGED vars
  <2>1. UNCHANGED <<pc, plan, page>>
    BY <1>27, ServiceFrame, VaultFrame DEF vars
  <2> QED
    BY <2>1
<1> QED
  BY <1>1, <1>2, <1>3, <1>4, <1>5, <1>6, <1>7, <1>8, <1>9, <1>10, <1>11,
     <1>12, <1>13, <1>14, <1>15, <1>16, <1>17, <1>18, <1>19, <1>20, <1>21,
     <1>22, <1>23, <1>24, <1>25, <1>26, <1>27
     DEF Next, AgentStep, PlanStep, GameStep

\* Until the receipt the image on the page tells whether it has been written.
LEMMA OnImagesStep ==
    Exclusion /\ [Next]_vars /\ ~Coincidence => OnImages'
<1> SUFFICES ASSUME Exclusion, [Next]_vars, ~Coincidence PROVE OnImages'
  OBVIOUS
<1> USE DEF
      Exclusion, Position, Structure, TypeOK, AgentFollows, OnImages,
      PageHeld, Journaled, Settled, Unwritten, Calls, Gated, Distinct
<1>1. CASE PlanDeposit
  BY <1>1 DEF PlanDeposit
<1>2. CASE PlanItemClaim
  BY <1>2 DEF PlanItemClaim
<1>3. CASE PlanWithdrawalClaim
  BY <1>3 DEF PlanWithdrawalClaim
<1>4. ASSUME NEW t \in Txn, Journal(t) PROVE OnImages'
  <2>1. /\ pc = "start" /\ phase[t] = "none" /\ img'[t] = plan.img
        /\ pointer' \in {t, None}
        /\ UNCHANGED <<page, writes>>
    BY <1>4 DEF Journal
  <2>2. plan.img # None => page # plan.img.after
    BY <2>1 DEF Planned
  <2>3. writes[t] = 0
    BY <2>1 DEF Fresh
  <2> QED
    BY <2>1, <2>2, <2>3
<1>5. CASE JournalBlocked
  BY <1>5 DEF JournalBlocked
<1>6. CASE Recover
  BY <1>6 DEF Recover, Resume
<1>7. CASE OnPrepare
  BY <1>7, AgentFrame DEF OnPrepare, Close, Tickets, Truthful, MayReject, AgentStep
<1>8. CASE OnStatus
  BY <1>8, AgentFrame DEF OnStatus, Close, MayReject, AgentStep
<1>9. CASE PlanDelivery
  <2>1. /\ pointer \in Txn /\ img[pointer] = None
        /\ writes[pointer] = 0
    BY <1>9 DEF PlanDelivery, Receipts
  <2>2. /\ img' = img \/ img'[pointer].before = page
        /\ UNCHANGED <<page, pointer, phase, writes, status>>
    BY <1>9, <2>1, AgentFrame DEF PlanDelivery, AgentStep
  <2> QED
    BY <2>1, <2>2
<1>10. CASE OnCancel
  BY <1>10, AgentFrame DEF OnCancel, Close, Tickets, Truthful, AgentStep
<1>11. CASE CheckImages
  BY <1>11 DEF CheckImages
<1>12. CASE OnAuthorize
  BY <1>12, AgentFrame DEF OnAuthorize, AgentStep
<1>13. CASE Acquire
  BY <1>13 DEF Acquire
<1>14. CASE WritePage
  <2>1. /\ pointer \in Txn /\ img[pointer] # None
        /\ status[pointer] = "writing" /\ Distinct(pointer)
    BY <1>14 DEF WritePage, Tickets
  <2>2. /\ UNCHANGED <<pointer, img, phase, status>>
        /\ \/ UNCHANGED <<page, writes>>
           \/ page = img[pointer].before /\ page' = img[pointer].after
              /\ writes'[pointer] = writes[pointer] + 1
           \/ page' = page /\ UNCHANGED writes
    BY <1>14, <2>1, AgentFrame DEF WritePage, AgentStep, PageMatches
  <2> QED
    BY <1>14, <2>1, <2>2 DEF WritePage, Distinct
<1>15. CASE MarkApplied
  BY <1>15 DEF MarkApplied
<1>16. CASE Release
  BY <1>16 DEF Release
<1>17. CASE OnCommit
  BY <1>17 DEF OnCommit
<1>18. CASE Finish
  BY <1>18 DEF Finish
<1>19. CASE FinishBlocked
  BY <1>19 DEF FinishBlocked
<1>20. CASE Unlink
  BY <1>20 DEF Unlink
<1>21. CASE Abort
  BY <1>21 DEF Abort
<1>22. CASE Launch \/ OpenGrant \/ Revoke
  BY <1>22 DEF Launch, OpenGrant, Revoke
<1>23. CASE LoadNatively \/ LoadPage
  BY <1>23 DEF LoadNatively, LoadPage
<1>24. CASE MoveGoods
  BY <1>24 DEF MoveGoods
<1>25. CASE UnloadPage
  <2>1. page' = mem /\ Loaded /\ UNCHANGED <<pointer, img, phase, writes>>
    BY <1>25 DEF UnloadPage
  <2> SUFFICES ASSUME pointer \in Txn, img[pointer] # None,
                      phase[pointer] \notin Settled
               PROVE  /\ page' = img[pointer].before => writes[pointer] = 0
                      /\ page' = img[pointer].after /\ Distinct(pointer) => writes[pointer] = 1
    BY <2>1 DEF Distinct
  <2>2. CASE UNCHANGED page
    BY <2>2
  <2>3. CASE page' # page
    <3>1. game = "native"
      BY <2>1 DEF Loaded
    <3>2. ~Misleading(pointer)
      BY <2>1, <2>3, <3>1 DEF Coincidence
    <3>3. mem # (IF writes[pointer] = 0 THEN img[pointer].after ELSE img[pointer].before)
      BY <3>2 DEF Misleading
    <3>4. writes[pointer] \in {0, 1}
      BY DEF Receipts
    <3> QED
      BY <2>1, <3>3, <3>4
  <2> QED
    BY <2>2, <2>3
<1>26. CASE Quit
  BY <1>26 DEF Quit
<1>27. CASE (\E t \in Txn : Serve(t)) \/ VaultStep \/ UNCHANGED vars
  <2>1. UNCHANGED <<pointer, img, phase, page, writes>>
    BY <1>27, ServiceFrame, VaultFrame DEF vars
  <2>2. Tickets'
    BY TicketStep
  <2>3. Progress
    BY ProgressStep
  <2> QED
    BY <2>1, <2>2, <2>3 DEF Tickets, Progress
<1> QED
  BY <1>1, <1>2, <1>3, <1>4, <1>5, <1>6, <1>7, <1>8, <1>9, <1>10, <1>11,
     <1>12, <1>13, <1>14, <1>15, <1>16, <1>17, <1>18, <1>19, <1>20, <1>21,
     <1>22, <1>23, <1>24, <1>25, <1>26, <1>27
     DEF Next, AgentStep, PlanStep, GameStep

\* A receipt stands for exactly one replacement of the page.
LEMMA ReceiptsStep ==
    Exclusion /\ [Next]_vars => Receipts'
<1> SUFFICES ASSUME Exclusion, [Next]_vars PROVE Receipts'
  OBVIOUS
<1> USE DEF
      Exclusion, Position, Structure, TypeOK, AgentFollows, Receipts,
      Journaled, Settled, Calls
<1>1. CASE PlanDeposit
  BY <1>1 DEF PlanDeposit
<1>2. CASE PlanItemClaim
  BY <1>2 DEF PlanItemClaim
<1>3. CASE PlanWithdrawalClaim
  BY <1>3 DEF PlanWithdrawalClaim
<1>4. ASSUME NEW t \in Txn, Journal(t) PROVE Receipts'
  <2>1. /\ pc = "start" /\ phase[t] = "none" /\ phase'[t] = "intent" /\ pc' = "idle"
        /\ \A u \in Txn : u # t => phase'[u] = phase[u] /\ img'[u] = img[u]
        /\ UNCHANGED writes
    BY <1>4 DEF Journal
  <2>2. writes[t] = 0
    BY <2>1 DEF Fresh
  <2>3. \A u \in Txn : phase[u] \notin Settled => writes[u] = 0
    BY <2>1 DEF Receipts
  <2> QED
    BY <2>1, <2>2, <2>3 DEF Receipts, Settled
<1>5. CASE JournalBlocked
  BY <1>5 DEF JournalBlocked
<1>6. CASE Recover
  BY <1>6 DEF Recover, Resume
<1>7. CASE OnPrepare
  <2>1. /\ pointer \in Txn /\ pc' # "mark"
        /\ UNCHANGED <<writes, img, pointer>>
        /\ \A u \in Txn : u # pointer => phase'[u] = phase[u]
    BY <1>7 DEF OnPrepare, Close
  <2>2. phase[pointer] \notin Settled /\ phase'[pointer] \notin Settled
    BY <1>7, <2>1 DEF OnPrepare, Close, Journaled, Unwritten, Settled
  <2>3. writes[pointer] # 0 => phase'[pointer] = "applying"
    BY <1>7, <2>1, <2>2 DEF OnPrepare, Close, Receipts, Truthful, Tickets
  <2> QED
    BY <2>1, <2>2, <2>3 DEF Receipts
<1>8. CASE OnStatus
  <2>1. /\ pointer \in Txn /\ pc' # "mark"
        /\ UNCHANGED <<writes, img, pointer>>
        /\ \A u \in Txn : u # pointer => phase'[u] = phase[u]
    BY <1>8 DEF OnStatus, Close
  <2>2. phase[pointer] \notin Settled /\ phase'[pointer] \notin Settled
    BY <1>8, <2>1 DEF OnStatus, Close, Journaled, Unwritten, Settled
  <2>3. writes[pointer] # 0 => phase'[pointer] = "applying"
    BY <1>8, <2>1, <2>2 DEF OnStatus, Close, Receipts, Journaled, MayReject
  <2> QED
    BY <2>1, <2>2, <2>3 DEF Receipts
<1>9. CASE PlanDelivery
  BY <1>9 DEF PlanDelivery
<1>10. CASE OnCancel
  <2>1. /\ pointer \in Txn /\ pc' # "mark"
        /\ UNCHANGED <<writes, img, pointer>>
        /\ \A u \in Txn : u # pointer => phase'[u] = phase[u]
    BY <1>10 DEF OnCancel, Close
  <2>2. phase[pointer] \notin Settled /\ phase'[pointer] \notin Settled
    BY <1>10, <2>1 DEF OnCancel, Close, Journaled, Unwritten, Settled
  <2>3. writes[pointer] # 0 => phase'[pointer] = "applying"
    BY <1>10, <2>1, <2>2 DEF OnCancel, Close, Receipts, Truthful, Tickets
  <2> QED
    BY <2>1, <2>2, <2>3 DEF Receipts
<1>11. CASE CheckImages
  BY <1>11 DEF CheckImages
<1>12. CASE OnAuthorize
  <2>1. /\ pointer \in Txn /\ pc' # "mark"
        /\ UNCHANGED <<writes, img, pointer>>
        /\ \A u \in Txn : u # pointer => phase'[u] = phase[u]
    BY <1>12 DEF OnAuthorize
  <2>2. phase[pointer] \notin Settled /\ phase'[pointer] \notin Settled
    BY <1>12, <2>1 DEF OnAuthorize, Journaled, Unwritten, Settled
  <2>3. writes[pointer] # 0 => phase'[pointer] = "applying"
    BY <1>12, <2>1, <2>2 DEF OnAuthorize, Receipts
  <2> QED
    BY <2>1, <2>2, <2>3 DEF Receipts
<1>13. CASE Acquire
  BY <1>13 DEF Acquire
<1>14. CASE WritePage
  <2>1. /\ pointer \in Txn /\ phase[pointer] = "applying" /\ img[pointer] # None
        /\ Distinct(pointer)
    BY <1>14 DEF WritePage, Journaled, Tickets
  <2>2. /\ page = img[pointer].before => writes[pointer] = 0
        /\ page = img[pointer].after => writes[pointer] = 1
    BY <2>1 DEF OnImages, Settled
  <2>3. /\ UNCHANGED <<img, phase, pointer>>
        /\ \A u \in Txn : u # pointer => writes'[u] = writes[u]
        /\ writes'[pointer] = 1 \/ (UNCHANGED writes /\ pc' # "mark")
    BY <1>14, <2>1, <2>2 DEF WritePage, PageMatches, Distinct
  <2> QED
    BY <2>1, <2>3 DEF Receipts, Settled
<1>15. CASE MarkApplied
  BY <1>15 DEF MarkApplied
<1>16. CASE Release
  BY <1>16 DEF Release
<1>17. CASE OnCommit
  <2>1. /\ pointer \in Txn /\ pc' # "mark"
        /\ UNCHANGED <<writes, img, pointer>>
        /\ phase[pointer] = "applied" /\ phase'[pointer] \in Settled
        /\ \A u \in Txn : u # pointer => phase'[u] = phase[u]
    BY <1>17 DEF OnCommit, Journaled, Settled
  <2> QED
    BY <2>1 DEF Receipts, Settled
<1>18. CASE Finish
  BY <1>18 DEF Finish
<1>19. CASE FinishBlocked
  BY <1>19 DEF FinishBlocked
<1>20. CASE Unlink
  BY <1>20 DEF Unlink
<1>21. CASE Abort
  BY <1>21 DEF Abort
<1>22. CASE (\E t \in Txn : Serve(t)) \/ VaultStep \/ GameStep \/ UNCHANGED vars
  <2>1. UNCHANGED <<phase, writes, pointer, img, pc>>
    BY <1>22, ServiceFrame, VaultFrame, GameFrame DEF vars
  <2> QED
    BY <2>1
<1> QED
  BY <1>1, <1>2, <1>3, <1>4, <1>5, <1>6, <1>7, <1>8, <1>9, <1>10, <1>11,
     <1>12, <1>13, <1>14, <1>15, <1>16, <1>17, <1>18, <1>19, <1>20, <1>21,
     <1>22
     DEF Next, AgentStep, PlanStep

LEMMA ExclusionStep == Exclusion /\ [Next]_vars /\ ~Coincidence => Exclusion'
<1> SUFFICES ASSUME Exclusion, [Next]_vars, ~Coincidence PROVE Exclusion'
  OBVIOUS
<1>1. Position'
  BY PositionStep DEF Exclusion
<1> QED
  BY <1>1, PageHeldStep, PlannedStep, OnImagesStep, ReceiptsStep DEF Exclusion

\* While the agent is inside save_access no page is loaded, so a step that
\* UnmistakenNext allows is a step of the system that is no coincidence.
LEMMA UnmistakenIsNext == [UnmistakenNext]_vars => [Next]_vars
  BY DEF UnmistakenNext, Next, GameStep

LEMMA UnmistakenStep ==
    Exclusion /\ [UnmistakenNext]_vars => [Next]_vars /\ ~Coincidence
<1> SUFFICES ASSUME Exclusion, UnmistakenNext PROVE Next /\ ~Coincidence
  BY DEF Coincidence, vars, diskVars
<1>1. Next
  BY DEF UnmistakenNext, Next, GameStep
<1>2. CASE UnloadPage /\ ~Coincidence
  BY <1>1, <1>2
<1>3. CASE AgentStep
  <2>1. ~Loaded \/ UNCHANGED page
    BY <1>3, AgentPage
       DEF WritePage, Exclusion, PageHeld, Gated, Accessible, Loaded
  <2> QED
    BY <1>1, <2>1 DEF Coincidence
<1>4. CASE PlanStep \/ Abort
  BY <1>1, <1>4
     DEF PlanStep, PlanDeposit, PlanItemClaim, PlanWithdrawalClaim, Abort, Coincidence
<1>5. CASE (\E t \in Txn : Serve(t)) \/ VaultStep
  BY <1>1, <1>5, ServiceFrame, VaultFrame DEF Coincidence
<1>6. CASE Launch \/ OpenGrant \/ Revoke \/ LoadNatively \/ LoadPage \/ MoveGoods \/ Quit
  BY <1>1, <1>6
     DEF Launch, OpenGrant, Revoke, LoadNatively, LoadPage, MoveGoods, Quit, Coincidence
<1> QED
  BY <1>2, <1>3, <1>4, <1>5, <1>6 DEF UnmistakenNext

LEMMA UnmistakenIsSpec == UnmistakenSpec => Spec
<1> QED
  BY UnmistakenIsNext, PTL DEF UnmistakenSpec, Spec

LEMMA ExclusionAlways == UnmistakenSpec => []Exclusion
<1>1. Init => Exclusion
  BY InitStructure, InitPosition, InitExclusion DEF Exclusion, Position
<1>2. Exclusion /\ [UnmistakenNext]_vars => Exclusion'
  BY ExclusionStep, UnmistakenStep
<1> QED
  BY <1>1, <1>2, PTL DEF UnmistakenSpec

\* The page is replaced exactly once for a committed ticket, at most once under
\* an authorization, and never for a missing, prepared or cancelled ticket.
LEMMA OncePerTicket == Exclusion => WrittenOnce
<1> SUFFICES ASSUME Exclusion, NEW t \in Txn
             PROVE  /\ status[t] = "committed" => writes[t] = 1
                    /\ status[t] = "writing"   => writes[t] <= 1
                    /\ status[t] \in {"none", "prepared", "cancelled"} => writes[t] = 0
  BY DEF WrittenOnce
<1>1. status[t] = "committed" => writes[t] = 1
  BY DEF Exclusion, Position, Tickets, Receipts
<1>2. status[t] = "writing" => writes[t] <= 1
  BY DEF Exclusion, Receipts
<1>3. status[t] \in {"none", "prepared", "cancelled"} => writes[t] = 0
  BY DEF Exclusion, Position, Tickets, Receipts, Settled
<1> QED
  BY <1>1, <1>2, <1>3

\* Exactly once, when no edit is mistaken for the agent's work: crashes, repeated and late requests included.
THEOREM PagesAreWrittenOnce == UnmistakenSpec => []WrittenOnce
<1>1. UnmistakenSpec => []Exclusion
  BY ExclusionAlways
<1> QED
  BY <1>1, OncePerTicket, PTL

\* A journal that says applied or complete tells the truth about the page and
\* about the service, when no edit is mistaken for the agent's work.
THEOREM ReceiptsCanBeTrusted == UnmistakenSpec => []ReceiptsAreTrue
<1>1. UnmistakenSpec => []Exclusion
  BY ExclusionAlways
<1>2. Exclusion => ReceiptsAreTrue
  BY DEF Exclusion, Position, Tickets, Receipts, Settled, ReceiptsAreTrue
<1> QED
  BY <1>1, <1>2, PTL

(***************************************************************************)
(* Settlement moves no item into or out of the player's hands, and none    *)
(* that is being delivered.                                                *)
(***************************************************************************)
LEMMA SettleStates ==
    ASSUME NEW held \in [Item -> ItemStates], NEW asked, NEW gold,
           Settle(held, asked, gold), NEW i \in Item
    PROVE  /\ state'[i] \in {"local", "delivered"} <=> held[i] \in {"local", "delivered"}
           /\ state'[i] = "claiming" <=> held[i] = "claiming"
<1>1. PICK out \in SUBSET {j \in Item : held[j] \in Tradable},
           in \in SUBSET {j \in Item : held[j] = "outside"} :
          state' = [j \in Item |-> IF j \in out THEN "outside"
                                   ELSE IF j \in in THEN "available" ELSE held[j]]
  BY DEF Settle
<1>2. i \in out => held[i] \in {"listed", "available"}
  BY DEF Tradable
<1>3. i \in in => held[i] = "outside"
  OBVIOUS
<1> QED
  BY <1>1, <1>2, <1>3

\* Goods are on their way under an authorization only, so at most for one ticket.
LEMMA WrittenIsOpen ==
    ASSUME Exclusion, NEW t \in Txn, writes[t] > 0, status[t] # "committed"
    PROVE  status[t] = "writing" /\ \A u \in Txn : Open(u) => u = t
<1>1. status[t] = "writing"
  BY OncePerTicket DEF WrittenOnce, Exclusion, Position, Structure, TypeOK, Statuses
<1> QED
  BY <1>1 DEF Exclusion, Position, Structure, OneOpenTicket, Open

LEMMA NothingInTransit ==
    ASSUME Exclusion, NEW u \in Txn, \A t \in Txn : Open(t) => t = u,
           writes[u] = 0 \/ ~Open(u), NEW t \in Txn
    PROVE  ~DepositInTransit(t) /\ ~ClaimPlaced(t)
<1> SUFFICES ASSUME writes[t] > 0, status[t] # "committed" PROVE FALSE
  BY DEF DepositInTransit, ClaimPlaced
<1>1. status[t] = "writing"
  BY WrittenIsOpen
<1> QED
  BY <1>1 DEF Open

\* Only the journal fixes a request, only a write changes the page or its count.
LEMMA DiskFrame ==
    AgentStep \/ PlanStep \/ Abort =>
        (\E t \in Txn : Journal(t)) \/ WritePage \/ UNCHANGED <<page, writes, req>>
  BY DEF AgentStep, PlanStep, Abort, PlanDeposit, PlanItemClaim,
     PlanWithdrawalClaim, JournalBlocked, Recover, OnPrepare, OnStatus,
     PlanDelivery, OnCancel, CheckImages, OnAuthorize, Acquire,
     MarkApplied, Release, OnCommit, Finish, FinishBlocked, Unlink

\* Only the journal and the plan of a delivery make an image.
LEMMA ImageFrame ==
    AgentStep \/ PlanStep \/ Abort =>
        (\E t \in Txn : Journal(t)) \/ PlanDelivery \/ UNCHANGED <<img, req>>
  BY DEF AgentStep, PlanStep, Abort, PlanDeposit, PlanItemClaim,
     PlanWithdrawalClaim, JournalBlocked, Recover, OnPrepare, OnStatus,
     OnCancel, CheckImages, OnAuthorize, Acquire, WritePage,
     MarkApplied, Release, OnCommit, Finish, FinishBlocked, Unlink

\* A plan is made whole, and dropped whole.
LEMMA PlanFrame ==
    AgentStep \/ PlanStep \/ Abort =>
        PlanStep \/ plan' = NoPlan \/ UNCHANGED plan
  BY DEF AgentStep, Abort, Journal, JournalBlocked, Recover, OnPrepare, OnStatus,
     PlanDelivery, OnCancel, CheckImages, OnAuthorize, Acquire, WritePage,
     MarkApplied, Release, OnCommit, Finish, FinishBlocked, Unlink

\* The ledger changes a parcel when it makes the ticket, and never unmakes one.
LEMMA ParcelFrame ==
    ASSUME TypeOK, [Next]_vars, NEW t \in Txn, status[t] # "none"
    PROVE  status'[t] # "none" /\ parcel'[t] = parcel[t]
<1> USE DEF TypeOK
<1>1. ASSUME NEW u \in Txn, Serve(u) PROVE status'[t] # "none" /\ parcel'[t] = parcel[t]
  BY <1>1 DEF Serve, Answer, Refuse, PrepareAgain, PrepareRefused, AdmitDeposit,
     ReserveItems, ReserveWithdrawal, ServeStatus, ServeCancel, CancelRefused,
     ServeAuthorize, AuthorizeRefused, CommitDeposit, CommitClaim, CommitRefused
<1>2. CASE AgentStep \/ PlanStep \/ Abort \/ VaultStep \/ GameStep \/ UNCHANGED vars
  BY <1>2, AgentFrame, VaultFrame, GameFrame DEF vars
<1> QED
  BY <1>1, <1>2 DEF Next

----------------------------------------------------------------------------
LEMMA InitWhereabouts == Init => Images /\ Parcels /\ \A i \in Item : Located(i)
<1> SUFFICES ASSUME Init PROVE Images /\ Parcels /\ \A i \in Item : Located(i)
  OBVIOUS
<1>1. Images
  BY DEF Init, Images, Taken, Placed, NoPlan, NoRequest, IsDeposit
<1>2. Parcels
  BY DEF Init, Parcels, IsDeposit, NoRequest, Open
<1>3. ASSUME NEW i \in Item PROVE Located(i)
  <2>1. ~Leaving(i) /\ ~Delivering(i)
    BY DEF Init, Leaving, Delivering, DepositInTransit, ClaimPlaced
  <2>2. Visible.items = page.items /\ carried.items = {}
    BY DEF Init, Visible, Loaded, Nothing
  <2>3. state[i] \in {"local", "delivered"} <=> i \in page.items
    BY DEF Init
  <2>4. state[i] # "claiming"
    BY DEF Init
  <2> QED
    BY <2>1, <2>2, <2>3, <2>4 DEF Located, WithPlayer
<1> QED
  BY <1>1, <1>2, <1>3

\* The answer "prepared" is given for a ticket that exists.
LEMMA PreparedStep ==
    Whereabouts /\ [Next]_vars =>
        (pc' = "plan" \/ reply' = "prepared" => status'[pointer'] # "none")
<1> SUFFICES ASSUME Whereabouts, [Next]_vars,
                    pc' = "plan" \/ reply' = "prepared"
             PROVE  status'[pointer'] # "none"
  OBVIOUS
<1> USE DEF
      Whereabouts, Exclusion, Position, Structure, TypeOK, AgentFollows, Truthful,
      Images
<1>1. ASSUME NEW t \in Txn, Serve(t) PROVE status'[pointer'] # "none"
  <2>1. UNCHANGED <<pc, pointer>>
    BY <1>1, ServiceFrame
  <2>2. CASE pc = "plan" \/ reply = "prepared"
    <3>1. pointer \in Txn /\ status[pointer] # "none"
      BY <2>2 DEF Calls
    <3> QED
      BY <2>1, <3>1, ParcelFrame
  <2>3. CASE reply' = "prepared" /\ reply # "prepared"
    <3>1. pointer = t
      BY <1>1, <2>3
         DEF Serve, Answer, Refuse, Awaited, PrepareAgain, PrepareRefused,
         AdmitDeposit, ReserveItems, ReserveWithdrawal, ServeStatus, ServeCancel,
         CancelRefused, ServeAuthorize, AuthorizeRefused, CommitDeposit,
         CommitClaim, CommitRefused
    <3>2. CASE PrepareAgain(t)
      BY <2>1, <3>1, <3>2 DEF PrepareAgain, Refuse
    <3>3. CASE AdmitDeposit(t) \/ ReserveItems(t) \/ ReserveWithdrawal(t)
      BY <2>1, <3>1, <3>3 DEF AdmitDeposit, ReserveItems, ReserveWithdrawal
    <3>4. CASE ServeStatus(t)
      BY <2>1, <2>3, <3>1, <3>4 DEF ServeStatus, Refuse, Answer
    <3>5. CASE PrepareRefused(t)
      BY <2>3, <3>5 DEF PrepareRefused, Refuse, Answer
    <3>6. CASE ServeCancel(t) \/ ServeAuthorize(t) \/ CommitDeposit(t) \/ CommitClaim(t)
      BY <2>3, <3>6 DEF ServeCancel, ServeAuthorize, CommitDeposit, CommitClaim, Answer
    <3>7. CASE CancelRefused(t)
      BY <2>3, <3>7 DEF CancelRefused, Refuse, Answer
    <3>8. CASE AuthorizeRefused(t)
      BY <2>3, <3>8 DEF AuthorizeRefused, Refuse, Answer
    <3>9. CASE CommitRefused(t)
      BY <2>3, <3>9 DEF CommitRefused, Refuse, Answer
    <3> QED
      BY <1>1, <3>2, <3>3, <3>4, <3>5, <3>6, <3>7, <3>8, <3>9 DEF Serve
  <2> QED
    BY <2>1, <2>2, <2>3
<1>2. CASE OnPrepare
  <2>1. UNCHANGED <<pointer, status>> /\ reply' = "none"
    BY <1>2, AgentFrame DEF OnPrepare, Close, AgentStep
  <2>2. pointer \in Txn /\ reply \in {"prepared", "writing", "committed"}
    BY <1>2, <2>1 DEF OnPrepare, Close
  <2> QED
    BY <2>1, <2>2
<1>3. CASE (AgentStep \/ PlanStep \/ Abort) /\ ~OnPrepare
  <2>1. reply' = "none" /\ pc' # "plan"
    BY <1>3 DEF AgentStep, PlanStep, Abort, PlanDeposit, PlanItemClaim,
       PlanWithdrawalClaim, Journal, JournalBlocked, Recover, Resume, OnStatus,
       PlanDelivery, OnCancel, Close, CheckImages, OnAuthorize, Acquire,
       WritePage, MarkApplied, Release, OnCommit, Finish, FinishBlocked, Unlink
  <2> QED
    BY <2>1
<1>4. CASE VaultStep \/ GameStep \/ UNCHANGED vars
  BY <1>4, VaultFrame, GameFrame DEF vars
<1> QED
  BY <1>1, <1>2, <1>3, <1>4 DEF Next

\* What a plan and a journal say about the items of their images stays true.
LEMMA ImagesStep ==
    Whereabouts /\ [Next]_vars => Images'
<1> SUFFICES ASSUME Whereabouts, [Next]_vars PROVE Images'
  OBVIOUS
<1> USE DEF Whereabouts, Exclusion, Position, Structure, TypeOK, AgentFollows
<1>1. (Taken(plan.req, plan.img) /\ (plan.req.kind # "deposit" => plan.img = None))'
  <2>1. CASE PlanDeposit
    BY <2>1 DEF PlanDeposit, Taken, Minus
  <2>2. CASE PlanItemClaim \/ PlanWithdrawalClaim
    BY <2>2 DEF PlanItemClaim, PlanWithdrawalClaim, Taken
  <2>3. CASE plan' = NoPlan
    BY <2>3 DEF NoPlan, NoRequest, Taken
  <2>4. CASE UNCHANGED plan
    BY <2>4 DEF Images, Taken
  <2>5. ASSUME NEW t \in Txn, Serve(t) PROVE UNCHANGED plan
    BY <2>5, ServiceFrame
  <2> QED
    BY <2>1, <2>2, <2>3, <2>4, <2>5, PlanFrame, VaultFrame, GameFrame
       DEF Next, PlanStep, vars
<1>2. ASSUME NEW t \in Txn PROVE (Taken(req[t], img[t]) /\ Placed(t))'
  <2>1. CASE req'[t] = req[t] /\ img'[t] = img[t]
    <3>1. Taken(req[t], img[t])'
      BY <2>1 DEF Images, Taken
    <3>2. Placed(t)'
      BY <2>1, ParcelFrame DEF Images, Placed, IsDeposit
    <3> QED
      BY <3>1, <3>2
  <2>2. ASSUME NEW u \in Txn, Journal(u), u = t
        PROVE  (Taken(req[t], img[t]) /\ Placed(t))'
    <3>1. req'[t] = plan.req /\ img'[t] = plan.img
      BY <2>2 DEF Journal
    <3> QED
      BY <3>1 DEF Images, Taken, Placed, IsDeposit
  <2>3. CASE PlanDelivery /\ pointer = t /\ img'[t] # img[t]
    <3>1. /\ req'[t] = req[t] /\ UNCHANGED <<status, parcel>>
          /\ img'[t] = [before |-> page, after |-> Plus(page, parcel[t])]
      BY <2>3, AgentFrame DEF PlanDelivery, AgentStep
    <3>2. pc = "plan" /\ status[t] # "none" /\ img[t] = None
      BY <2>3 DEF PlanDelivery, Images, Journaled
    <3>3. req[t].kind # "deposit"
      BY <3>2 DEF Requests, WellFormed
    <3> QED
      BY <3>1, <3>2, <3>3 DEF Taken, Placed, IsDeposit, Plus
  <2>4. ASSUME NEW u \in Txn, Journal(u), u # t
        PROVE req'[t] = req[t] /\ img'[t] = img[t]
    BY <2>4 DEF Journal
  <2>5. CASE PlanDelivery /\ pointer # t
    <3>1. req'[t] = req[t] /\ img'[t] = img[t]
      BY <2>5 DEF PlanDelivery
    <3> QED
      BY <2>1, <3>1
  <2>6. CASE PlanDelivery /\ img'[t] = img[t]
    <3>1. req'[t] = req[t]
      BY <2>6 DEF PlanDelivery
    <3> QED
      BY <2>1, <2>6, <3>1
  <2>7. ASSUME NEW u \in Txn, Serve(u) PROVE UNCHANGED <<req, img>>
    BY <2>7, ServiceFrame
  <2> QED
    BY <2>1, <2>2, <2>3, <2>4, <2>5, <2>6, <2>7, ImageFrame, VaultFrame, GameFrame
       DEF Next, vars
<1>3. (pc = "plan" \/ reply = "prepared" => status[pointer] # "none")'
  BY PreparedStep
<1> QED
  BY <1>1, <1>2, <1>3 DEF Images

----------------------------------------------------------------------------
\* A ticket carries what the agent asked for, and keeps its reservation.
LEMMA ParcelsStep == Whereabouts /\ [Next]_vars => Parcels'
<1> SUFFICES ASSUME Whereabouts, [Next]_vars, NEW t \in Txn
             PROVE  (/\ IsDeposit(t) /\ status[t] # "none"
                            => parcel[t].items = req[t].goods.items
                     /\ ~IsDeposit(t) /\ Open(t)
                            => \A i \in parcel[t].items : state[i] = "claiming")'
  BY DEF Parcels
<1> DEFINE Carries == /\ IsDeposit(t) /\ status[t] # "none"
                            => parcel[t].items = req[t].goods.items
                      /\ ~IsDeposit(t) /\ Open(t)
                            => \A i \in parcel[t].items : state[i] = "claiming"
<1> USE DEF Whereabouts, Exclusion, Position, Structure, TypeOK
<1>0. Carries
  BY DEF Parcels
<1>1. ASSUME NEW u \in Txn, Journal(u) PROVE Carries'
  <2>1. UNCHANGED serviceVars
    BY <1>1, AgentFrame DEF AgentStep
  <2>2. u = t => status[t] = "none"
    BY <1>1 DEF Journal, Fresh
  <2>3. u # t => req'[t] = req[t]
    BY <1>1 DEF Journal
  <2> QED
    BY <1>0, <2>1, <2>2, <2>3 DEF IsDeposit, Open
<1>2. ASSUME NEW u \in Txn, AdmitDeposit(u) PROVE Carries'
  <2>1. /\ UNCHANGED <<req, state>> /\ IsDeposit(u)
        /\ parcel'[u] = req[u].goods
        /\ u # t => parcel'[t] = parcel[t] /\ status'[t] = status[t]
    BY <1>2 DEF AdmitDeposit, Answer
  <2> QED
    BY <1>0, <2>1 DEF IsDeposit, Open
<1>3. ASSUME NEW u \in Txn, ReserveItems(u) PROVE Carries'
  <2>1. /\ UNCHANGED <<req>> /\ ~IsDeposit(u)
        /\ parcel'[u].items = Ready(u)
        /\ u # t => parcel'[t] = parcel[t] /\ status'[t] = status[t] /\ ~Open(t)
    BY <1>3 DEF ReserveItems, Answer, IsDeposit, Accepts, NoPending
  <2>2. \A i \in Ready(u) : i \in Item => state'[i] = "claiming"
    BY <1>3 DEF ReserveItems
  <2>3. Ready(u) \subseteq Item
    BY DEF Ready, Request, Goods
  <2> QED
    BY <1>0, <2>1, <2>2, <2>3 DEF IsDeposit, Open
<1>4. ASSUME NEW u \in Txn, ReserveWithdrawal(u) PROVE Carries'
  <2>1. /\ UNCHANGED <<req, state>> /\ ~IsDeposit(u)
        /\ parcel'[u].items = {}
        /\ u # t => parcel'[t] = parcel[t] /\ status'[t] = status[t]
    BY <1>4 DEF ReserveWithdrawal, Answer, IsDeposit
  <2> QED
    BY <1>0, <2>1 DEF IsDeposit, Open
<1>5. ASSUME NEW u \in Txn, ServeCancel(u) \/ CommitDeposit(u) \/ CommitClaim(u)
      PROVE Carries'
  <2>1. /\ UNCHANGED <<req, parcel>> /\ Open(u) /\ ~(Open(u))'
        /\ u # t => status'[t] = status[t]
    BY <1>5 DEF ServeCancel, CommitDeposit, CommitClaim, Answer, Cancellable,
       Committable, Open
  <2>2. ~(Open(t))'
    BY <2>1 DEF Open, OneOpenTicket
  <2>3. (status[t] # "none")' => status[t] # "none"
    BY <2>1 DEF Open
  <2> QED
    BY <1>0, <2>1, <2>2, <2>3 DEF IsDeposit
<1>6. ASSUME NEW u \in Txn, ServeAuthorize(u) PROVE Carries'
  <2>1. /\ UNCHANGED <<req, parcel, state>> /\ Open(u)
        /\ u # t => status'[t] = status[t]
    BY <1>6 DEF ServeAuthorize, Answer, Authorizable
  <2> QED
    BY <1>0, <2>1 DEF IsDeposit, Open
<1>7. ASSUME NEW u \in Txn, PrepareAgain(u) \/ PrepareRefused(u) \/ ServeStatus(u)
                \/ CancelRefused(u) \/ AuthorizeRefused(u) \/ CommitRefused(u)
      PROVE Carries'
  <2>1. UNCHANGED <<req, serviceVars>>
    BY <1>7 DEF PrepareAgain, PrepareRefused, ServeStatus, CancelRefused,
       AuthorizeRefused, CommitRefused, Refuse, Answer
  <2> QED
    BY <1>0, <2>1 DEF IsDeposit, Open
<1>8. CASE VaultStep
  <2>1. UNCHANGED <<req, status, parcel>>
    BY <1>8, VaultFrame
  <2>2. ASSUME NEW i \in Item, state[i] = "claiming" PROVE state'[i] = "claiming"
    <3>1. ASSUME NEW j \in Item, EscrowPrice(j) PROVE state'[i] = "claiming"
      <4>1. /\ Settle([state EXCEPT ![j] = "listed"], requested \ {j}, balance)
            /\ [state EXCEPT ![j] = "listed"] \in [Item -> ItemStates]
            /\ i # j
        BY <2>2, <3>1 DEF EscrowPrice, Held, ItemStates
      <4> QED
        BY <2>2, <4>1, SettleStates
    <3>2. ASSUME NEW j \in Item, EscrowReturn(j) PROVE state'[i] = "claiming"
      <4>1. /\ Settle([state EXCEPT ![j] = "available"], requested \cup {j}, balance)
            /\ [state EXCEPT ![j] = "available"] \in [Item -> ItemStates]
            /\ i # j
        BY <2>2, <3>2 DEF EscrowReturn, Held, ItemStates
      <4> QED
        BY <2>2, <4>1, SettleStates
    <3>3. ASSUME NEW gold, Settle(state, requested, gold) PROVE state'[i] = "claiming"
      BY <2>2, <3>3, SettleStates
    <3> QED
      BY <1>8, <2>2, <3>1, <3>2, <3>3
         DEF VaultStep, RecordSale, SettleTrades, WalletWithdraw, WalletCancel
  <2>3. parcel[t].items \subseteq Item
    BY DEF Goods
  <2> QED
    BY <1>0, <2>1, <2>2, <2>3 DEF IsDeposit, Open
<1>9. CASE ((AgentStep \/ PlanStep \/ Abort) /\ UNCHANGED req)
           \/ GameStep \/ UNCHANGED vars
  <2>1. UNCHANGED <<req, serviceVars>>
    BY <1>9, AgentFrame, GameFrame DEF vars
  <2> QED
    BY <1>0, <2>1 DEF IsDeposit, Open
<1> QED
  BY <1>1, <1>2, <1>3, <1>4, <1>5, <1>6, <1>7, <1>8, <1>9, RequestFrame
     DEF Next, Serve

----------------------------------------------------------------------------
(***************************************************************************)
(* The ledger and the page agree on an item.  Whereabouts is stable under  *)
(* every step that leaves the page, the game and what is on its way alone, *)
(* and keeps the item on its side of the ledger.                           *)
(***************************************************************************)
LEMMA LocatedStays ==
    ASSUME NEW i \in Item, Located(i),
           UNCHANGED <<page, game, mem, carried>>,
           Leaving(i)' <=> Leaving(i), WithPlayer(i)' <=> WithPlayer(i)
    PROVE  Located(i)'
  BY DEF Located, Visible, Loaded

\* What is on its way is told by requests, writes, tickets and parcels.
LEMMA InTransitStays ==
    ASSUME NEW i \in Item,
           \A t \in Txn : writes[t] > 0 \/ writes'[t] > 0 =>
               /\ req'[t] = req[t] /\ writes'[t] = writes[t]
               /\ status'[t] = "committed" <=> status[t] = "committed"
               /\ parcel'[t] = parcel[t]
    PROVE  (Leaving(i)' <=> Leaving(i)) /\ (Delivering(i)' <=> Delivering(i))
<1>1. ASSUME NEW t \in Txn
      PROVE  /\ (DepositInTransit(t) /\ i \in parcel[t].items)'
                    <=> DepositInTransit(t) /\ i \in parcel[t].items
             /\ (ClaimPlaced(t) /\ i \in parcel[t].items)'
                    <=> ClaimPlaced(t) /\ i \in parcel[t].items
  BY DEF DepositInTransit, ClaimPlaced, IsDeposit
<1> QED
  BY <1>1 DEF Leaving, Delivering

\* The agent replaces the page: a deposit leaves it, a claim arrives on it.
LEMMA LocatedWrite ==
    ASSUME Whereabouts, WritePage, NEW i \in Item
    PROVE  Located(i)'
<1> USE DEF Whereabouts, Exclusion, Position, Structure, TypeOK, AgentFollows
<1>1. /\ pointer \in Txn /\ img[pointer] # None
      /\ phase[pointer] = "applying" /\ status[pointer] = "writing"
      /\ Distinct(pointer) /\ ~Loaded
  BY DEF WritePage, Journaled, Tickets, Settled, PageHeld, Gated, Accessible, Loaded
<1>2. /\ UNCHANGED <<pointer, game, mem, carried, state, status, parcel, req>>
      /\ \A t \in Txn : t # pointer => writes'[t] = writes[t]
  BY AgentFrame DEF WritePage, AgentStep
<1>3. /\ Visible = page /\ Visible' = page'
  BY <1>1, <1>2 DEF Visible, Loaded
<1>4. CASE page = img[pointer].after \/ ~PageMatches(pointer)
  <2>1. UNCHANGED <<page, writes>>
    BY <1>1, <1>4 DEF WritePage, Distinct
  <2>2. (Leaving(i)' <=> Leaving(i)) /\ (Delivering(i)' <=> Delivering(i))
    BY <1>2, <2>1, InTransitStays
  <2> QED
    BY <1>2, <2>1, <2>2, LocatedStays DEF WithPlayer
<1>5. CASE page = img[pointer].before /\ PageMatches(pointer)
  <2>1. writes[pointer] = 0
    BY <1>1, <1>5 DEF OnImages, Settled, Distinct
  <2>2. page' = img[pointer].after /\ writes'[pointer] = 1
    BY <1>1, <1>5, <2>1 DEF WritePage
  <2>3. ASSUME NEW t \in Txn PROVE ~DepositInTransit(t) /\ ~ClaimPlaced(t)
    <3>1. \A u \in Txn : Open(u) => u = pointer
      BY <1>1 DEF OneOpenTicket, Open
    <3> QED
      BY <1>1, <2>1, <3>1, NothingInTransit
  <2>4. /\ ~Leaving(i) /\ ~Delivering(i)
    BY <2>3 DEF Leaving, Delivering
  <2>5. \A t \in Txn : t # pointer => ~DepositInTransit(t)' /\ ~ClaimPlaced(t)'
    BY <1>2, <2>3 DEF DepositInTransit, ClaimPlaced, IsDeposit
  <2>6. Located(i)
    OBVIOUS
  <2>7. CASE IsDeposit(pointer)
    <3>1. DepositInTransit(pointer)' /\ ~ClaimPlaced(pointer)'
      BY <1>1, <1>2, <2>2, <2>7 DEF DepositInTransit, ClaimPlaced, IsDeposit
    <3>2. (Leaving(i)' <=> i \in parcel[pointer].items) /\ ~Delivering(i)'
      BY <1>1, <1>2, <2>5, <3>1 DEF Leaving, Delivering
    <3>3. /\ parcel[pointer].items \subseteq page.items
          /\ page'.items = page.items \ parcel[pointer].items
      BY <1>1, <1>5, <2>2, <2>7 DEF Parcels, Images, Taken, IsDeposit
    <3>4. WithPlayer(i)' <=> WithPlayer(i)
      BY <1>2, <2>4, <3>2 DEF WithPlayer
    <3> QED
      BY <1>2, <1>3, <2>4, <2>6, <3>2, <3>3, <3>4 DEF Located
  <2>8. CASE ~IsDeposit(pointer)
    <3>1. ~DepositInTransit(pointer)' /\ ClaimPlaced(pointer)'
      BY <1>1, <1>2, <2>2, <2>8 DEF DepositInTransit, ClaimPlaced, IsDeposit
    <3>2. ~Leaving(i)' /\ (Delivering(i)' <=> i \in parcel[pointer].items)
      BY <1>1, <1>2, <2>5, <3>1 DEF Leaving, Delivering
    <3>3. page'.items = page.items \cup parcel[pointer].items
      BY <1>1, <1>5, <2>2, <2>8 DEF Images, Placed
    <3>4. i \in parcel[pointer].items => state[i] = "claiming"
      BY <1>1, <2>8 DEF Parcels, Open
    <3>5. i \in parcel[pointer].items => ~WithPlayer(i) /\ WithPlayer(i)'
      BY <1>2, <2>4, <3>2, <3>4 DEF WithPlayer
    <3>6. i \notin parcel[pointer].items => (WithPlayer(i)' <=> WithPlayer(i))
      BY <1>2, <2>4, <3>2 DEF WithPlayer
    <3> QED
      BY <1>2, <1>3, <2>4, <2>6, <3>2, <3>3, <3>5, <3>6 DEF Located
  <2> QED
    BY <2>7, <2>8
<1> QED
  BY <1>4, <1>5 DEF PageMatches

\* Launching, opening, loading, saving and leaving show the player the same page.
LEMMA SeenStays ==
    GameStep /\ ~MoveGoods => Visible' = Visible /\ carried' = carried
  BY DEF GameStep, Launch, OpenGrant, Revoke, LoadNatively, LoadPage, UnloadPage, Quit,
     Visible, Loaded

\* The player moves an item between the page and the rest of the inventory.
LEMMA LocatedGame ==
    ASSUME Whereabouts, GameStep, NEW i \in Item
    PROVE  Located(i)'
<1> USE DEF Whereabouts, Exclusion, Position, Structure, TypeOK
<1>1. UNCHANGED <<req, writes, serviceVars>>
  BY GameFrame
<1>2. /\ Leaving(i)' <=> Leaving(i)
      /\ WithPlayer(i)' <=> WithPlayer(i)
  BY <1>1, InTransitStays DEF WithPlayer
<1>3. Located(i)
  OBVIOUS
<1>4. CASE ~MoveGoods
  <2>1. Visible' = Visible /\ carried' = carried
    BY <1>4, SeenStays
  <2> QED
    BY <1>2, <1>3, <2>1 DEF Located
<1>5. CASE MoveGoods
  <2>1. \E items \in SUBSET Item :
            \/ /\ items \subseteq mem.items
               /\ mem'.items = mem.items \ items
               /\ carried'.items = carried.items \cup items
            \/ /\ items \subseteq carried.items
               /\ mem'.items = mem.items \cup items
               /\ carried'.items = carried.items \ items
    <3>1. mem.items \subseteq Item /\ carried.items \subseteq Item
      BY DEF Goods
    <3>2. ASSUME NEW items \in SUBSET mem.items, NEW gold,
                 mem' = Minus(mem, [items |-> items, gold |-> gold]),
                 carried' = Plus(carried, [items |-> items, gold |-> gold])
          PROVE  /\ mem'.items = mem.items \ items
                 /\ carried'.items = carried.items \cup items
      BY <3>2 DEF Plus, Minus
    <3>3. ASSUME NEW items \in SUBSET carried.items, NEW gold,
                 mem' = Plus(mem, [items |-> items, gold |-> gold]),
                 carried' = Minus(carried, [items |-> items, gold |-> gold])
          PROVE  /\ mem'.items = mem.items \cup items
                 /\ carried'.items = carried.items \ items
      BY <3>3 DEF Plus, Minus
    <3> QED
      BY <1>5, <3>1, <3>2, <3>3 DEF MoveGoods
  <2>2. Visible = mem /\ Visible' = mem'
    BY <1>5 DEF MoveGoods, Visible, Loaded
  <2> QED
    BY <1>2, <1>3, <2>1, <2>2 DEF Located
<1> QED
  BY <1>4, <1>5 DEF GameStep

\* The item is on the same side of the ledger when its row is, or what is on its
\* way is not concerned.
LEMMA LocatedLedger ==
    ASSUME Whereabouts, UNCHANGED <<page, game, mem, carried>>, NEW i \in Item,
           state'[i] \in {"local", "delivered"} <=> state[i] \in {"local", "delivered"},
           state'[i] = "claiming" <=> state[i] = "claiming",
           Leaving(i)' <=> Leaving(i), Delivering(i)' <=> Delivering(i)
    PROVE  Located(i)'
<1>1. WithPlayer(i)' <=> WithPlayer(i)
  BY DEF WithPlayer
<1> QED
  BY <1>1, LocatedStays DEF Whereabouts

\* The agent asks the service for a commit when the page is written only.
LEMMA CommitFollowsWrite ==
    ASSUME Exclusion, NEW t \in Txn, Arrives("commit", t)
    PROVE  writes[t] = 1
  BY DEF Arrives, Awaited, Exclusion, Position, Journaled, LateCalls, Receipts,
     Settled

\* A request of the agent: reservations, cancellations and commits.
LEMMA LocatedServe ==
    ASSUME Whereabouts, NEW t \in Txn, Serve(t), NEW i \in Item
    PROVE  Located(i)'
<1> USE DEF Whereabouts, Exclusion, Position, Structure, TypeOK
<1>1. UNCHANGED <<page, game, mem, carried, req, writes>>
  BY ServiceFrame
<1>2. Located(i) /\ OneOpenTicket
  OBVIOUS
<1>3. \A u \in Txn : status[u] = "none" => writes[u] = 0
  BY OncePerTicket DEF WrittenOnce
<1>4. CASE AdmitDeposit(t) \/ ReserveWithdrawal(t)
  <2>1. /\ UNCHANGED state /\ status[t] = "none" /\ status'[t] = "prepared"
        /\ \A u \in Txn : u # t => status'[u] = status[u] /\ parcel'[u] = parcel[u]
    BY <1>4 DEF AdmitDeposit, ReserveWithdrawal
  <2>2. /\ Leaving(i)' <=> Leaving(i)
        /\ Delivering(i)' <=> Delivering(i)
    BY <1>1, <1>3, <2>1, InTransitStays
  <2> QED
    BY <1>1, <2>1, <2>2, LocatedLedger
<1>5. CASE ReserveItems(t)
  <2>1. /\ status[t] = "none" /\ status'[t] = "prepared"
        /\ \A u \in Txn : u # t => status'[u] = status[u] /\ parcel'[u] = parcel[u]
        /\ \A u \in Txn : ~Open(u)
    BY <1>5 DEF ReserveItems, Accepts, NoPending
  <2>2. /\ Leaving(i)' <=> Leaving(i)
        /\ Delivering(i)' <=> Delivering(i)
    BY <1>1, <1>3, <2>1, InTransitStays
  <2>3. ~Delivering(i)
    BY <2>1, NothingInTransit DEF Delivering
  <2>4. state'[i] = state[i] \/ (state[i] = "available" /\ state'[i] = "claiming")
    BY <1>5 DEF ReserveItems, Ready
  <2>5. WithPlayer(i)' <=> WithPlayer(i)
    BY <2>2, <2>3, <2>4 DEF WithPlayer
  <2> QED
    BY <1>1, <2>2, <2>5, LocatedStays
<1>6. CASE ServeCancel(t)
  <2>1. /\ status[t] = "prepared" /\ status'[t] = "cancelled" /\ UNCHANGED parcel
        /\ \A u \in Txn : u # t => status'[u] = status[u]
    BY <1>6 DEF ServeCancel, Cancellable
  <2>2. writes[t] = 0 /\ \A u \in Txn : Open(u) => u = t
    BY <1>2, <2>1, OncePerTicket DEF WrittenOnce, OneOpenTicket, Open
  <2>3. /\ Leaving(i)' <=> Leaving(i)
        /\ Delivering(i)' <=> Delivering(i)
    BY <1>1, <2>1, <2>2, InTransitStays
  <2>4. ~Delivering(i)
    BY <2>2, NothingInTransit DEF Delivering
  <2> DEFINE held == [j \in Item |-> IF ~IsDeposit(t) /\ j \in parcel[t].items
                                     THEN "available" ELSE state[j]]
  <2>5. held \in [Item -> ItemStates] /\ Settle(held, requested, balance)
    BY <1>6 DEF ServeCancel, ItemStates
  <2>6. ~IsDeposit(t) /\ i \in parcel[t].items => state[i] = "claiming"
    BY <2>1 DEF Parcels, Open
  <2>7. state'[i] \in {"local", "delivered"} <=> held[i] \in {"local", "delivered"}
    BY <2>5, SettleStates
  <2>8. WithPlayer(i)' <=> WithPlayer(i)
    BY <2>3, <2>4, <2>6, <2>7 DEF WithPlayer
  <2> QED
    BY <1>1, <2>3, <2>8, LocatedStays
<1>7. CASE ServeAuthorize(t)
  <2>1. /\ UNCHANGED <<state, parcel>> /\ Open(t) /\ status'[t] = "writing"
        /\ \A u \in Txn : u # t => status'[u] = status[u]
    BY <1>7 DEF ServeAuthorize, Authorizable
  <2>2. /\ Leaving(i)' <=> Leaving(i)
        /\ Delivering(i)' <=> Delivering(i)
    BY <1>1, <2>1, InTransitStays DEF Open
  <2> QED
    BY <1>1, <2>1, <2>2, LocatedLedger
<1>8. CASE CommitDeposit(t) \/ CommitClaim(t)
  <2>1. /\ status[t] = "writing" /\ status'[t] = "committed" /\ UNCHANGED parcel
        /\ writes[t] = 1
        /\ \A u \in Txn : u # t => status'[u] = status[u]
    BY <1>8, CommitFollowsWrite DEF CommitDeposit, CommitClaim, Committable
  <2>2. \A u \in Txn : u # t => /\ ~DepositInTransit(u) /\ ~DepositInTransit(u)'
                                /\ ~ClaimPlaced(u) /\ ~ClaimPlaced(u)'
    <3>1. ASSUME NEW u \in Txn, u # t PROVE ~DepositInTransit(u) /\ ~ClaimPlaced(u)
      BY <2>1, <3>1, WrittenIsOpen DEF DepositInTransit, ClaimPlaced, Open
    <3> QED
      BY <1>1, <2>1, <3>1 DEF DepositInTransit, ClaimPlaced, IsDeposit
  <2>3. ~Leaving(i)' /\ ~Delivering(i)'
    <3>1. ~DepositInTransit(t)' /\ ~ClaimPlaced(t)'
      BY <2>1 DEF DepositInTransit, ClaimPlaced
    <3> QED
      BY <2>2, <3>1 DEF Leaving, Delivering
  <2>4. CASE CommitDeposit(t)
    <3>1. /\ Leaving(i) <=> i \in parcel[t].items
          /\ ~Delivering(i)
      BY <2>1, <2>2, <2>4
         DEF CommitDeposit, Leaving, Delivering, DepositInTransit, ClaimPlaced
    <3>2. PICK kept \in {"listed", "available"} :
              Settle([j \in Item |-> IF j \in parcel[t].items THEN kept ELSE state[j]],
                     requested \ parcel[t].items, balance + parcel[t].gold)
      BY <2>4 DEF CommitDeposit
    <3> DEFINE held == [j \in Item |-> IF j \in parcel[t].items THEN kept ELSE state[j]]
    <3>3. held \in [Item -> ItemStates]
      BY DEF ItemStates
    <3>4. state'[i] \in {"local", "delivered"} <=> held[i] \in {"local", "delivered"}
      BY <3>2, <3>3, SettleStates
    <3>5. WithPlayer(i)' <=> WithPlayer(i) /\ ~Leaving(i)
      BY <2>3, <3>1, <3>4 DEF WithPlayer
    <3>6. Visible' = Visible
      BY <1>1 DEF Visible, Loaded
    <3> QED
      BY <1>1, <1>2, <2>3, <3>5, <3>6 DEF Located
  <2>5. CASE CommitClaim(t)
    <3>1. /\ Delivering(i) <=> i \in parcel[t].items
          /\ ~Leaving(i)
      BY <2>1, <2>2, <2>5
         DEF CommitClaim, Leaving, Delivering, DepositInTransit, ClaimPlaced
    <3> DEFINE held == [j \in Item |-> IF j \in parcel[t].items
                                       THEN "delivered" ELSE state[j]]
    <3>2. held \in [Item -> ItemStates]
          /\ Settle(held, requested \ parcel[t].items, balance)
      BY <2>5 DEF CommitClaim, ItemStates
    <3>3. state'[i] \in {"local", "delivered"} <=> held[i] \in {"local", "delivered"}
      BY <3>2, SettleStates
    <3>4. i \in parcel[t].items => state[i] = "claiming"
      BY <2>1, <2>5 DEF Parcels, Open, CommitClaim
    <3>5. WithPlayer(i)' <=> WithPlayer(i)
      BY <2>3, <3>1, <3>3, <3>4 DEF WithPlayer
    <3> QED
      BY <1>1, <2>3, <3>1, <3>5, LocatedStays
  <2> QED
    BY <1>8, <2>4, <2>5
<1>9. CASE \/ PrepareAgain(t) \/ PrepareRefused(t) \/ ServeStatus(t)
           \/ CancelRefused(t) \/ AuthorizeRefused(t) \/ CommitRefused(t)
  <2>1. UNCHANGED serviceVars
    BY <1>9 DEF PrepareAgain, PrepareRefused, ServeStatus, CancelRefused,
       AuthorizeRefused, CommitRefused, Refuse
  <2>2. /\ Leaving(i)' <=> Leaving(i)
        /\ Delivering(i)' <=> Delivering(i)
    BY <1>1, <2>1, InTransitStays
  <2> QED
    BY <1>1, <2>1, <2>2, LocatedLedger
<1> QED
  BY <1>4, <1>5, <1>6, <1>7, <1>8, <1>9 DEF Serve

\* A command of a player or a settlement.
LEMMA LocatedVault ==
    ASSUME Whereabouts, VaultStep, NEW i \in Item
    PROVE  Located(i)'
<1> USE DEF Whereabouts, Exclusion, Position, Structure, TypeOK
<1>1. UNCHANGED Aside
  BY VaultFrame
<1>2. /\ Leaving(i)' <=> Leaving(i)
      /\ Delivering(i)' <=> Delivering(i)
  BY <1>1, InTransitStays
<1>3. /\ state'[i] \in {"local", "delivered"} <=> state[i] \in {"local", "delivered"}
      /\ state'[i] = "claiming" <=> state[i] = "claiming"
  <2> DEFINE Keeps ==
        /\ state'[i] \in {"local", "delivered"} <=> state[i] \in {"local", "delivered"}
        /\ state'[i] = "claiming" <=> state[i] = "claiming"
  <2>1. ASSUME NEW j \in Item, EscrowPrice(j) PROVE Keeps
    <3> DEFINE held == [state EXCEPT ![j] = "listed"]
    <3>1. /\ Settle(held, requested \ {j}, balance) /\ held \in [Item -> ItemStates]
          /\ Held(j)
      BY <2>1 DEF EscrowPrice, ItemStates
    <3>2. /\ held[i] \in {"local", "delivered"} <=> state[i] \in {"local", "delivered"}
          /\ held[i] = "claiming" <=> state[i] = "claiming"
      BY <3>1 DEF Held
    <3> QED
      BY <3>1, <3>2, SettleStates
  <2>2. ASSUME NEW j \in Item, EscrowReturn(j) PROVE Keeps
    <3> DEFINE held == [state EXCEPT ![j] = "available"]
    <3>1. /\ Settle(held, requested \cup {j}, balance) /\ held \in [Item -> ItemStates]
          /\ Held(j)
      BY <2>2 DEF EscrowReturn, ItemStates
    <3>2. /\ held[i] \in {"local", "delivered"} <=> state[i] \in {"local", "delivered"}
          /\ held[i] = "claiming" <=> state[i] = "claiming"
      BY <3>1 DEF Held
    <3> QED
      BY <3>1, <3>2, SettleStates
  <2>3. ASSUME NEW gold, Settle(state, requested, gold) PROVE Keeps
    BY <2>3, SettleStates
  <2> QED
    BY <2>1, <2>2, <2>3
       DEF VaultStep, RecordSale, SettleTrades, WalletWithdraw, WalletCancel
<1> QED
  BY <1>1, <1>2, <1>3, LocatedLedger

LEMMA LocatedStep ==
    ASSUME NEW i \in Item PROVE Whereabouts /\ [Next]_vars => Located(i)'
<1> SUFFICES ASSUME Whereabouts, [Next]_vars PROVE Located(i)'
  OBVIOUS
<1> USE DEF Whereabouts, Exclusion, Position, Structure, TypeOK
<1>1. ASSUME NEW t \in Txn, Journal(t) PROVE Located(i)'
  <2>1. /\ UNCHANGED <<page, writes, gameVars, serviceVars>> /\ writes[t] = 0
        /\ \A u \in Txn : u # t => req'[u] = req[u]
    BY <1>1 DEF Journal, Fresh
  <2>2. /\ Leaving(i)' <=> Leaving(i)
        /\ Delivering(i)' <=> Delivering(i)
    BY <2>1, InTransitStays
  <2> QED
    BY <2>1, <2>2, LocatedLedger
<1>2. CASE ((AgentStep \/ PlanStep \/ Abort) /\ UNCHANGED <<page, writes, req>>)
           \/ UNCHANGED vars
  <2>1. UNCHANGED <<page, writes, req, gameVars, serviceVars>>
    BY <1>2, AgentFrame DEF vars
  <2>2. /\ Leaving(i)' <=> Leaving(i)
        /\ Delivering(i)' <=> Delivering(i)
    BY <2>1, InTransitStays
  <2> QED
    BY <2>1, <2>2, LocatedLedger
<1> QED
  BY <1>1, <1>2, DiskFrame, LocatedWrite, LocatedGame, LocatedServe, LocatedVault
     DEF Next

----------------------------------------------------------------------------
\* The inductive invariant of custody, when no edit is mistaken for the agent's
\* work: the journal, the tickets, the page and the ledger agree, whatever is
\* aborted or late and wherever the page is loaded without being asked for.
THEOREM WhereaboutsAlways == UnmistakenSpec => []Whereabouts
<1>1. Init => Whereabouts
  BY InitStructure, InitPosition, InitExclusion, InitWhereabouts
     DEF Whereabouts, Exclusion, Position
<1>2. Whereabouts /\ [UnmistakenNext]_vars => Whereabouts'
  BY UnmistakenStep, ExclusionStep, ImagesStep, ParcelsStep, LocatedStep DEF Whereabouts
<1> QED
  BY <1>1, <1>2, PTL DEF UnmistakenSpec

\* An item is never duplicated and never lost, when no edit is mistaken for the
\* agent's work: it is on the page, carried, taken by a deposit that has not
\* committed, in the Vault, or with another player.
THEOREM ItemsAreInOnePlace == UnmistakenSpec => []ItemInOnePlace
<1>1. Whereabouts => ItemInOnePlace
  <2> SUFFICES ASSUME Whereabouts, NEW i \in Item PROVE Cardinality(Places(i)) = 1
    BY DEF ItemInOnePlace
  <2>1. Located(i) /\ state[i] \in ItemStates
    BY DEF Whereabouts, Exclusion, Position, Structure, TypeOK
  <2>2. \E p : Places(i) = {p}
    <3>1. CASE i \in Visible.items
      <4>1. Places(i) = {"page"}
        BY <2>1, <3>1 DEF Places, Located, WithPlayer, Leaving, Delivering
      <4> QED
        BY <4>1
    <3>2. CASE i \in carried.items
      <4>1. Places(i) = {"carried"}
        BY <2>1, <3>2 DEF Places, Located, WithPlayer, Leaving, Delivering
      <4> QED
        BY <4>1
    <3>3. CASE Leaving(i)
      <4>1. Places(i) = {"transit"}
        BY <2>1, <3>3 DEF Places, Located, WithPlayer, Leaving, Delivering
      <4> QED
        BY <4>1
    <3>4. CASE ~WithPlayer(i) /\ state[i] = "outside"
      <4>1. Places(i) = {"others"}
        BY <2>1, <3>4 DEF Places, Located, Leaving
      <4> QED
        BY <4>1
    <3>5. CASE ~WithPlayer(i) /\ state[i] # "outside"
      <4>1. Places(i) = {"vault"}
        BY <2>1, <3>5 DEF Places, Located, WithPlayer, Leaving, Delivering, ItemStates
      <4> QED
        BY <4>1
    <3> QED
      BY <2>1, <3>1, <3>2, <3>3, <3>4, <3>5 DEF Located
  <2> QED
    BY <2>2, FS_Singleton
<1>2. UnmistakenSpec => []Whereabouts
  BY WhereaboutsAlways
<1> QED
  BY <1>1, <1>2, PTL

\* Only an operator's sale gives a row of the ledger to somebody else.
NothingForeign == foreign = {}

\* A trade gives both rows of an item to its new owner.
LEMMA SettleForeign ==
    ASSUME NEW held, NEW asked, NEW gold, Settle(held, asked, gold)
    PROVE  foreign' \subseteq foreign
  BY DEF Settle

LEMMA ForeignNever ==
    ASSUME OperatorSales = FALSE PROVE Spec => []NothingForeign
<1>1. Init => NothingForeign
  BY DEF Init, NothingForeign
<1>2. NothingForeign /\ [Next]_vars => NothingForeign'
  <2> SUFFICES ASSUME foreign = {}, [Next]_vars PROVE foreign' = {}
    BY DEF NothingForeign
  <2>1. ASSUME NEW t \in Txn, Serve(t) PROVE foreign' = {}
    <3>1. CASE ServeCancel(t) \/ CommitDeposit(t) \/ CommitClaim(t)
      <4>1. \E held, asked, gold : Settle(held, asked, gold)
        BY <3>1 DEF ServeCancel, CommitDeposit, CommitClaim
      <4> QED
        BY <4>1, SettleForeign
    <3>2. CASE ~(ServeCancel(t) \/ CommitDeposit(t) \/ CommitClaim(t))
      BY <2>1, <3>2 DEF Serve, Refuse, PrepareAgain, PrepareRefused, AdmitDeposit,
         ReserveItems, ReserveWithdrawal, ServeStatus, CancelRefused,
         ServeAuthorize, AuthorizeRefused, CommitRefused
    <3> QED
      BY <3>1, <3>2
  <2>2. ASSUME VaultStep PROVE foreign' = {}
    <3>1. CASE \E held, asked, gold : Settle(held, asked, gold)
      BY <3>1, SettleForeign
    <3>2. CASE ~ \E held, asked, gold : Settle(held, asked, gold)
      BY <2>2, <3>2 DEF VaultStep, EscrowPrice, EscrowReturn, RecordSale, SettleTrades,
         WalletWithdraw, WalletCancel
    <3> QED
      BY <3>1, <3>2
  <2> QED
    BY <2>1, <2>2, AgentFrame, GameFrame DEF Next, vars
<1> QED
  BY <1>1, <1>2, PTL DEF Spec

\* A deposit that left the page passes the checks of its commit (activateDeposit,
\* discovery ledger), as long as operators sell nothing behind the Vault's back and
\* no edit is mistaken for the agent's work.
THEOREM TakenDepositsCommit ==
    ASSUME OperatorSales = FALSE
    PROVE  UnmistakenSpec => []TakenDepositIsCommittable
<1>1. Whereabouts /\ NothingForeign => TakenDepositIsCommittable
  <2> SUFFICES ASSUME Whereabouts, foreign = {}, NEW t \in Txn,
                      DepositInTransit(t), Open(t), NEW i \in parcel[t].items
               PROVE  state[i] \in {"local", "delivered"} /\ i \notin foreign
    BY DEF TakenDepositIsCommittable, Admissible, NothingForeign
  <2>1. i \in Item
    BY DEF Whereabouts, Exclusion, Position, Structure, TypeOK, Goods
  <2>2. Leaving(i) /\ Located(i)
    BY <2>1 DEF Leaving, Whereabouts
  <2>3. \A u \in Txn : Open(u) => u = t
    BY DEF Whereabouts, Exclusion, Position, Structure, OneOpenTicket
  <2>4. ~Delivering(i)
    <3>1. ASSUME NEW u \in Txn, ClaimPlaced(u) PROVE FALSE
      <4>1. Open(u)
        BY <3>1, WrittenIsOpen DEF ClaimPlaced, Whereabouts, Open
      <4> QED
        BY <2>3, <3>1, <4>1 DEF ClaimPlaced, DepositInTransit
    <3> QED
      BY <3>1 DEF Delivering
  <2> QED
    BY <2>2, <2>4 DEF Located, WithPlayer
<1>2. UnmistakenSpec => []Whereabouts
  BY WhereaboutsAlways
<1>3. UnmistakenSpec => []NothingForeign
  BY ForeignNever, UnmistakenIsSpec
<1> QED
  BY <1>1, <1>2, <1>3, PTL

----------------------------------------------------------------------------
(***************************************************************************)
(* No step of custody mints or loses gold.  The balance sheet has three    *)
(* sums, over the withdrawals and over the transfers that are on their     *)
(* way, and every step changes at most one term of each.                   *)
(***************************************************************************)

(***************************************************************************)
(* Sums of integers over a finite domain: the facts about SumFunction of   *)
(* module Functions that accounting needs.  The folds of the library are   *)
(* recursive functions on the subsets of the domain; that the recursion is *)
(* well founded and does not depend on the elements it chooses is shown    *)
(* here by induction in set form: a set of numbers, or of subsets, that    *)
(* has the first one and with each one the next has all of them.           *)
(***************************************************************************)
\* Induction over the naturals for a set of them.
LEMMA NatSet ==
    ASSUME NEW T, 0 \in T, \A n \in Nat : n \in T => n + 1 \in T
    PROVE  \A n \in Nat : n \in T
<1> DEFINE Out == Nat \ T
<1> SUFFICES ASSUME Out # {} PROVE FALSE
  OBVIOUS
<1> DEFINE Lt == {ss \in Nat \X Nat : ss[1] < ss[2]}
<1>1. \A m, n \in Nat : m < n => <<m, n>> \in Lt
  OBVIOUS
<1>2. IsWellFoundedOn(Lt, Nat)
  BY NatLessThanWellFounded DEF OpToRel
<1>3. PICK n \in Out : \A m \in Out : <<m, n>> \notin Lt
  <2> HIDE DEF Lt
  <2>1. Out \subseteq Nat
    OBVIOUS
  <2> HIDE DEF Out
  <2> QED
    BY <1>2, <2>1, WFMin
<1> HIDE DEF Lt
<1>4. n # 0 /\ n \in Nat
  OBVIOUS
<1>5. n - 1 \in Nat /\ n - 1 < n
  BY <1>4
<1>6. n - 1 \in T
  BY <1>1, <1>3, <1>4, <1>5
<1>7. (n - 1) + 1 \in T
  BY <1>5, <1>6
<1> QED
  BY <1>4, <1>7

\* Induction over the subsets of a finite set, for a set of them.
LEMMA SubsetInduction ==
    ASSUME NEW S, IsFiniteSet(S), NEW T,
           \A u \in SUBSET S : (\A x \in u : u \ {x} \in T) => u \in T
    PROVE  \A u \in SUBSET S : u \in T
<1> DEFINE Within(n) == \A u \in SUBSET S : Cardinality(u) <= n => u \in T
           Ok == {n \in Nat : Within(n)}
<1>1. \A u \in SUBSET S : IsFiniteSet(u) /\ Cardinality(u) \in Nat
  BY FS_Subset, FS_CardinalityType
<1>2. 0 \in Ok
  <2>1. \A u \in SUBSET S : Cardinality(u) <= 0 => u = {}
    BY <1>1, FS_EmptySet
  <2> QED
    BY <2>1
<1>3. ASSUME NEW n \in Nat, n \in Ok PROVE n + 1 \in Ok
  <2> SUFFICES ASSUME NEW u \in SUBSET S, Cardinality(u) <= n + 1, NEW x \in u
               PROVE  u \ {x} \in T
    OBVIOUS
  <2>1. Cardinality(u \ {x}) = Cardinality(u) - 1
    BY <1>1, FS_RemoveElement
  <2>2. Cardinality(u \ {x}) <= n
    BY <1>1, <2>1
  <2> QED
    BY <1>3, <2>2
<1>4. \A n \in Nat : n \in Ok
  <2> HIDE DEF Ok
  <2> QED
    BY <1>2, <1>3, NatSet
<1> QED
  BY <1>1, <1>4

----------------------------------------------------------------------------
\* g gives the sum of f over every subset of its domain.
PartialSums(S, f, g) ==
    /\ f \in [S -> Int]
    /\ g \in [SUBSET S -> Int]
    /\ g[{}] = 0
    /\ \A u \in SUBSET S : \A x \in u : g[u] = f[x] + g[u \ {x}]

Chosen(u) == CHOOSE x \in u : TRUE

\* The recursion of the library, with the elements it chooses.
Folded(f, g) ==
    g = [u \in SUBSET DOMAIN f |-> IF u = {} THEN 0 ELSE f[Chosen(u)] + g[u \ {Chosen(u)}]]

LEMMA SumIsFolded ==
    ASSUME NEW f
    PROVE  SumFunction(f) = (CHOOSE g : Folded(f, g))[DOMAIN f]
  BY DEF SumFunction, SumFunctionOnSet, FoldFunctionOnSet, MapThenFoldSet, Folded, Chosen

LEMMA ChosenIsIn == ASSUME NEW u, u # {} PROVE Chosen(u) \in u
  BY DEF Chosen

\* The recursion has a solution: it is defined on the sets of n elements when
\* it is on those of n - 1.
LEMMA FoldedExists ==
    ASSUME NEW S, IsFiniteSet(S), NEW f \in [S -> Int]
    PROVE  \E g \in [SUBSET S -> Int] : Folded(f, g)
<1> DEFINE Step(g) == [u \in SUBSET S |-> IF u = {} THEN 0
                                          ELSE f[Chosen(u)] + g[u \ {Chosen(u)}]]
           UpTo(n, g) == \A u \in SUBSET S : Cardinality(u) <= n => g[u] = Step(g)[u]
           Ok == {n \in Nat : \E g \in [SUBSET S -> Int] : UpTo(n, g)}
<1>1. \A u \in SUBSET S : IsFiniteSet(u) /\ Cardinality(u) \in Nat
  BY FS_Subset, FS_CardinalityType
<1>3. 0 \in Ok
  <2>1. \A u \in SUBSET S : Cardinality(u) <= 0 => u = {}
    BY <1>1, FS_EmptySet
  <2> DEFINE g == [u \in SUBSET S |-> 0]
  <2>2. UpTo(0, g)
    BY <2>1
  <2>3. g \in [SUBSET S -> Int]
    OBVIOUS
  <2> HIDE DEF g, UpTo
  <2> QED
    BY <2>2, <2>3
<1>4. ASSUME NEW n \in Nat, n \in Ok PROVE n + 1 \in Ok
  <2>1. PICK g \in [SUBSET S -> Int] : UpTo(n, g)
    BY <1>4
  <2>2. \A u \in SUBSET S : Cardinality(u) <= n => g[u] = Step(g)[u]
    BY <2>1
  <2>3. ASSUME NEW u \in SUBSET S, Cardinality(u) <= n + 1
        PROVE  Step(g)[u] = Step(Step(g))[u]
    <3>1. CASE u = {}
      BY <3>1
    <3>2. CASE u # {}
      <4>1. Chosen(u) \in u
        BY <3>2, ChosenIsIn
      <4>2. Cardinality(u \ {Chosen(u)}) <= n
        <5> HIDE DEF UpTo, Step, Ok
        <5> QED
          BY <1>1, <2>3, <4>1, FS_RemoveElement
      <4>3. g[u \ {Chosen(u)}] = Step(g)[u \ {Chosen(u)}]
        BY <2>2, <4>2
      <4> QED
        BY <3>2, <4>3
    <3> QED
      BY <3>1, <3>2
  <2>4. UpTo(n + 1, Step(g))
    BY <2>3
  <2>5. n + 1 \in Nat /\ Step(g) \in [SUBSET S -> Int]
    <3>1. ASSUME NEW u \in SUBSET S, u # {}
          PROVE  f[Chosen(u)] + g[u \ {Chosen(u)}] \in Int
      BY <3>1, ChosenIsIn
    <3> QED
      BY <3>1
  <2> HIDE DEF UpTo, Step
  <2>6. \E h \in [SUBSET S -> Int] : UpTo(n + 1, h)
    BY <2>4, <2>5
  <2> QED
    BY <2>5, <2>6
<1>5. Cardinality(S) \in Ok
  <2>1. \A n \in Nat : n \in Ok
    <3> HIDE DEF Ok
    <3> QED
      BY <1>3, <1>4, NatSet
  <2> QED
    BY <1>1, <2>1
<1>6. PICK g \in [SUBSET S -> Int] : UpTo(Cardinality(S), g)
  BY <1>5
<1>7. \A u \in SUBSET S : g[u] = Step(g)[u]
  <2>1. \A u \in SUBSET S : Cardinality(u) <= Cardinality(S)
    BY FS_Subset
  <2> QED
    BY <1>6, <2>1
<1>8. g = Step(g)
  BY <1>7
<1> QED
  BY <1>8 DEF Folded

\* The order in which elements are chosen does not matter.
LEMMA FoldedSums ==
    ASSUME NEW S, IsFiniteSet(S), NEW f \in [S -> Int], NEW g, Folded(f, g)
    PROVE  PartialSums(S, f, g)
<1> DEFINE Additive(u) == \A x \in u : g[u] = f[x] + g[u \ {x}]
           T == {u \in SUBSET S : g[u] \in Int}
           A == {u \in SUBSET S : Additive(u)}
<1>1. /\ g[{}] = 0
      /\ \A u \in SUBSET S : u # {} => g[u] = f[Chosen(u)] + g[u \ {Chosen(u)}]
  BY DEF Folded
<1>2. \A u \in SUBSET S : u \in T
  <2>1. ASSUME NEW u \in SUBSET S, \A x \in u : u \ {x} \in T PROVE u \in T
    <3>1. CASE u = {}
      BY <1>1, <3>1
    <3>2. CASE u # {}
      <4>1. Chosen(u) \in u
        BY <3>2, ChosenIsIn
      <4>2. f[Chosen(u)] \in Int /\ g[u \ {Chosen(u)}] \in Int
        BY <2>1, <4>1
      <4>3. g[u] = f[Chosen(u)] + g[u \ {Chosen(u)}]
        BY <1>1, <3>2
      <4>4. g[u] \in Int
        BY <4>2, <4>3
      <4> QED
        BY <4>4
    <3> QED
      BY <3>1, <3>2
  <2> HIDE DEF T
  <2> QED
    BY <2>1, SubsetInduction
<1>3. \A u \in SUBSET S : u \in A
  <2>1. ASSUME NEW u \in SUBSET S, \A x \in u : u \ {x} \in A PROVE u \in A
    <3> SUFFICES ASSUME NEW x \in u PROVE g[u] = f[x] + g[u \ {x}]
      OBVIOUS
    <3> DEFINE c == Chosen(u)
    <3>1. c \in u /\ g[u] = f[c] + g[u \ {c}]
      BY <1>1, ChosenIsIn
    <3>2. CASE x = c
      BY <3>1, <3>2
    <3>3. CASE x # c
      <4> HIDE DEF c
      <4>1. g[u \ {c}] = f[x] + g[(u \ {c}) \ {x}]
        BY <2>1, <3>1, <3>3
      <4>2. g[u \ {x}] = f[c] + g[(u \ {x}) \ {c}]
        BY <2>1, <3>1, <3>3
      <4>3. (u \ {c}) \ {x} = (u \ {x}) \ {c}
        OBVIOUS
      <4>4. /\ f[x] \in Int /\ f[c] \in Int
            /\ g[(u \ {c}) \ {x}] \in Int
        BY <1>2, <3>1
      <4>5. g[u \ {x}] = f[c] + g[(u \ {c}) \ {x}]
        BY <4>2, <4>3
      <4>6. f[c] + (f[x] + g[(u \ {c}) \ {x}]) = f[x] + (f[c] + g[(u \ {c}) \ {x}])
        BY <4>4
      <4> QED
        BY <3>1, <4>1, <4>5, <4>6
    <3> QED
      BY <3>2, <3>3
  <2> HIDE DEF A
  <2> QED
    BY <2>1, SubsetInduction
<1>4. g \in [SUBSET S -> Int]
  BY <1>2 DEF Folded
<1> QED
  BY <1>1, <1>3, <1>4 DEF PartialSums

\* SumFunction is the sum.
LEMMA SumIsPartialSum ==
    ASSUME NEW S, IsFiniteSet(S), NEW f \in [S -> Int]
    PROVE  \E g : PartialSums(S, f, g) /\ SumFunction(f) = g[S]
<1> DEFINE g == CHOOSE h : Folded(f, h)
<1>1. Folded(f, g)
  BY FoldedExists
<1>2. SumFunction(f) = g[S]
  BY SumIsFolded
<1> HIDE DEF g
<1> QED
  BY <1>1, <1>2, FoldedSums

LEMMA PartialSumStep ==
    ASSUME NEW S, NEW f, NEW p, PartialSums(S, f, p)
    PROVE  \A u \in SUBSET S : \A x \in u :
               /\ f[x] \in Int /\ p[u] \in Int /\ p[u \ {x}] \in Int
               /\ p[u] = f[x] + p[u \ {x}]
  BY DEF PartialSums

----------------------------------------------------------------------------
\* Functions that agree on a set have the same sum over it.
LEMMA SameSum ==
    ASSUME NEW S, IsFiniteSet(S), NEW f \in [S -> Int], NEW g \in [S -> Int],
           NEW p, PartialSums(S, f, p), NEW q, PartialSums(S, g, q)
    PROVE  \A u \in SUBSET S : (\A y \in u : f[y] = g[y]) => p[u] = q[u]
<1> DEFINE T == {u \in SUBSET S : (\A y \in u : f[y] = g[y]) => p[u] = q[u]}
<1>1. \A u \in SUBSET S : \A x \in u : p[u] = f[x] + p[u \ {x}]
  BY DEF PartialSums
<1>2. \A u \in SUBSET S : \A x \in u : q[u] = g[x] + q[u \ {x}]
  BY DEF PartialSums
<1>3. ASSUME NEW u \in SUBSET S, \A x \in u : u \ {x} \in T PROVE u \in T
  <2> SUFFICES ASSUME \A y \in u : f[y] = g[y] PROVE p[u] = q[u]
    OBVIOUS
  <2>1. CASE u = {}
    BY <2>1 DEF PartialSums
  <2>2. CASE u # {}
    <3> u \in SUBSET S
      OBVIOUS
    <3>1. PICK x \in u : TRUE
      BY <2>2
    <3>2. p[u \ {x}] = q[u \ {x}]
      BY <1>3, <3>1
    <3>3. p[u] = f[x] + p[u \ {x}]
      BY <1>1, <3>1
    <3>4. q[u] = g[x] + q[u \ {x}]
      BY <1>2, <3>1
    <3> QED
      BY <3>1, <3>2, <3>3, <3>4
  <2> QED
    BY <2>1, <2>2
<1>4. \A u \in SUBSET S : u \in T
  <2> HIDE DEF T
  <2> QED
    BY <1>3, SubsetInduction
<1> QED
  BY <1>4

\* The sum of integers is an integer; it follows a change of one of them.
LEMMA SumInt ==
    ASSUME NEW S, IsFiniteSet(S), NEW f \in [S -> Int]
    PROVE  SumFunction(f) \in Int
<1>1. PICK p : PartialSums(S, f, p) /\ SumFunction(f) = p[S]
  BY SumIsPartialSum
<1>2. DOMAIN f = S
  OBVIOUS
<1> QED
  BY <1>1, <1>2 DEF PartialSums

\* The whole sum is one term and the sum of the others.
LEMMA SumOfOthers ==
    ASSUME NEW S, IsFiniteSet(S), NEW f \in [S -> Int], NEW x \in S
    PROVE  \E p : /\ PartialSums(S, f, p) /\ SumFunction(f) = p[S]
                  /\ p[S] = f[x] + p[S \ {x}]
                  /\ p[S \ {x}] \in Int /\ f[x] \in Int
<1>1. PICK p : PartialSums(S, f, p) /\ SumFunction(f) = p[S]
  BY SumIsPartialSum
<1>2. PartialSums(S, f, p)
  BY <1>1
<1>3. p[S] = f[x] + p[S \ {x}] /\ p[S \ {x}] \in Int /\ f[x] \in Int
  BY <1>2 DEF PartialSums
<1> QED
  BY <1>1, <1>3

LEMMA SumChange ==
    ASSUME NEW S, IsFiniteSet(S), NEW f \in [S -> Int], NEW g \in [S -> Int],
           NEW x \in S, \A y \in S : y # x => g[y] = f[y]
    PROVE  SumFunction(g) = SumFunction(f) - f[x] + g[x]
<1>1. PICK p : /\ PartialSums(S, f, p) /\ SumFunction(f) = p[S]
               /\ p[S] = f[x] + p[S \ {x}]
               /\ p[S \ {x}] \in Int /\ f[x] \in Int
  BY SumOfOthers
<1>2. PICK q : /\ PartialSums(S, g, q) /\ SumFunction(g) = q[S]
               /\ q[S] = g[x] + q[S \ {x}]
               /\ q[S \ {x}] \in Int /\ g[x] \in Int
  BY SumOfOthers
<1>3. p[S \ {x}] = q[S \ {x}]
  BY <1>1, <1>2, SameSum
<1> QED
  BY <1>1, <1>2, <1>3

LEMMA SumZero ==
    ASSUME NEW S, IsFiniteSet(S), NEW f \in [S -> Int], \A y \in S : f[y] = 0
    PROVE  SumFunction(f) = 0
<1>1. PICK p : PartialSums(S, f, p) /\ SumFunction(f) = p[S]
  BY SumIsPartialSum
<1>2. PartialSums(S, f, p)
  BY <1>1
<1> DEFINE T == {u \in SUBSET S : p[u] = 0}
<1>3. ASSUME NEW u \in SUBSET S, \A x \in u : u \ {x} \in T PROVE u \in T
  <2>1. CASE u = {}
    BY <1>1, <2>1 DEF PartialSums
  <2>2. CASE u # {}
    <3> u \in SUBSET S
      OBVIOUS
    <3>1. PICK x \in u : TRUE
      BY <2>2
    <3>2. p[u] = f[x] + p[u \ {x}]
      <4>1. \A y \in u : p[u] = f[y] + p[u \ {y}]
        BY <1>2, PartialSumStep
      <4> QED
        BY <3>1, <4>1
    <3>3. p[u \ {x}] = 0 /\ f[x] = 0
      BY <1>3, <3>1
    <3>4. p[u] = 0
      BY <3>2, <3>3
    <3> QED
      BY <3>4
  <2> QED
    BY <2>1, <2>2
<1>4. \A u \in SUBSET S : u \in T
  <2> HIDE DEF T
  <2> QED
    BY <1>3, SubsetInduction
<1> QED
  BY <1>1, <1>4

\* The sum of one number and of nothing else.
LEMMA SumSingle ==
    ASSUME NEW S, IsFiniteSet(S), NEW f \in [S -> Int],
           NEW x \in S, \A y \in S : y # x => f[y] = 0
    PROVE  SumFunction(f) = f[x]
<1> DEFINE z == [y \in S |-> 0]
<1>1. z \in [S -> Int] /\ \A y \in S : z[y] = 0
  OBVIOUS
<1> HIDE DEF z
<1>2. SumFunction(z) = 0
  BY <1>1, SumZero
<1>3. SumFunction(f) = SumFunction(z) - z[x] + f[x]
  BY <1>1, SumChange
<1> QED
  BY <1>1, <1>2, <1>3

\* A sum of naturals is at least each of them.
LEMMA SumNat ==
    ASSUME NEW S, IsFiniteSet(S), NEW f \in [S -> Nat]
    PROVE  SumFunction(f) \in Nat /\ \A x \in S : f[x] <= SumFunction(f)
<1>1. f \in [S -> Int]
  OBVIOUS
<1>2. PICK p : PartialSums(S, f, p) /\ SumFunction(f) = p[S]
  BY <1>1, SumIsPartialSum
<1>3. PartialSums(S, f, p)
  BY <1>2
<1> DEFINE T == {u \in SUBSET S : p[u] \in Nat}
<1>4. ASSUME NEW u \in SUBSET S, \A x \in u : u \ {x} \in T PROVE u \in T
  <2>1. CASE u = {}
    BY <1>2, <2>1 DEF PartialSums
  <2>2. CASE u # {}
    <3> u \in SUBSET S
      OBVIOUS
    <3>1. PICK x \in u : TRUE
      BY <2>2
    <3>2. f[x] \in Nat
      BY <3>1
    <3>3. p[u] = f[x] + p[u \ {x}]
      BY <1>1, <1>3, <3>1, PartialSumStep
    <3>4. p[u \ {x}] \in Nat
      BY <1>4, <3>1
    <3>5. p[u] \in Nat
      BY <3>2, <3>3, <3>4
    <3> QED
      BY <3>5
  <2> QED
    BY <2>1, <2>2
<1>5. \A u \in SUBSET S : u \in T
  <2> HIDE DEF T
  <2> QED
    BY <1>4, SubsetInduction
<1>6. ASSUME NEW x \in S PROVE f[x] <= SumFunction(f)
  <2>1. p[S \ {x}] \in Nat /\ f[x] \in Nat
    BY <1>5
  <2> S \in SUBSET S
    OBVIOUS
  <2>2. p[S] = f[x] + p[S \ {x}]
    BY <1>1, <1>3, PartialSumStep
  <2> QED
    BY <1>2, <2>1, <2>2
<1> QED
  BY <1>2, <1>5, <1>6

----------------------------------------------------------------------------
(***************************************************************************)
(* The balance sheet.                                                      *)
(***************************************************************************)
\* The entries of the balance sheet that are single amounts.
Purse == Visible.gold + carried.gold + balance + otherGold

SheetTyped ==
    /\ Visible \in Goods /\ Visible.gold \in Nat /\ carried.gold \in Nat
    /\ balance \in Nat /\ otherGold \in Nat /\ Purse \in Nat
    /\ Reserved \in [Wid -> Nat]
    /\ Moved \in [Txn -> Nat] /\ Unpaid \in [Txn -> Nat]
    /\ SumFunction(Reserved) \in Nat /\ SumFunction(Moved) \in Nat
    /\ SumFunction(Unpaid) \in Nat

LEMMA SheetTypes == TypeOK => SheetTyped
<1> SUFFICES ASSUME TypeOK PROVE SheetTyped
  OBVIOUS
<1>1. \A t \in Txn : parcel[t].gold \in Nat
  BY DEF TypeOK, Goods
<1>2. Visible \in Goods
  BY DEF TypeOK, Visible, Loaded
<1>3. Reserved \in [Wid -> Nat]
  BY DEF TypeOK, Reserved
<1>4. Moved \in [Txn -> Nat] /\ Unpaid \in [Txn -> Nat]
  BY <1>1 DEF Moved, Unpaid
<1>5. /\ Visible.gold \in Nat /\ carried.gold \in Nat
      /\ balance \in Nat /\ otherGold \in Nat
  BY <1>2 DEF TypeOK, Goods
<1>6. Purse \in Nat
  BY <1>5 DEF Purse
<1>7. IsFiniteSet(Txn) /\ IsFiniteSet(Wid)
  OBVIOUS
<1>8. /\ SumFunction(Reserved) \in Nat /\ SumFunction(Moved) \in Nat
      /\ SumFunction(Unpaid) \in Nat
  BY <1>3, <1>4, <1>7, SumNat
<1> QED
  BY <1>2, <1>3, <1>4, <1>5, <1>6, <1>8 DEF SheetTyped

LEMMA SheetTypesNext == TypeOK' => SheetTyped'
  BY SheetTypes, PTL

LEMMA SheetFold ==
    GoldConserved <=> Purse + SumFunction(Reserved) + SumFunction(Moved)
                          = StartGold + OtherGold + SumFunction(Unpaid)
  BY DEF GoldConserved, Purse

LEMMA SheetFoldNext ==
    GoldConserved' <=> Purse' + SumFunction(Reserved') + SumFunction(Moved')
                           = StartGold + OtherGold + SumFunction(Unpaid')
  BY DEF GoldConserved, Purse

\* One term of a sum changes.
LEMMA ReservedChange ==
    ASSUME TypeOK, TypeOK', NEW w \in Wid,
           \A v \in Wid : v # w => Reserved'[v] = Reserved[v]
    PROVE  SumFunction(Reserved') = SumFunction(Reserved) - Reserved[w] + Reserved'[w]
<1>1. Reserved \in [Wid -> Int] /\ Reserved' \in [Wid -> Int]
  BY SheetTypes, SheetTypesNext DEF SheetTyped
<1>2. IsFiniteSet(Wid)
  OBVIOUS
<1> QED
  BY <1>1, <1>2, SumChange

LEMMA TransitChange ==
    ASSUME TypeOK, TypeOK', NEW t \in Txn,
           \A u \in Txn : u # t => Moved'[u] = Moved[u] /\ Unpaid'[u] = Unpaid[u]
    PROVE  /\ SumFunction(Moved') = SumFunction(Moved) - Moved[t] + Moved'[t]
           /\ SumFunction(Unpaid') = SumFunction(Unpaid) - Unpaid[t] + Unpaid'[t]
<1>1. /\ Moved \in [Txn -> Int] /\ Moved' \in [Txn -> Int]
      /\ Unpaid \in [Txn -> Int] /\ Unpaid' \in [Txn -> Int]
  BY SheetTypes, SheetTypesNext DEF SheetTyped
<1>2. IsFiniteSet(Txn)
  OBVIOUS
<1>3. SumFunction(Moved') = SumFunction(Moved) - Moved[t] + Moved'[t]
  BY <1>1, <1>2, SumChange
<1>4. SumFunction(Unpaid') = SumFunction(Unpaid) - Unpaid[t] + Unpaid'[t]
  BY <1>1, <1>2, SumChange
<1> QED
  BY <1>3, <1>4

\* What is on its way is told by requests, writes, tickets and parcels.
LEMMA TransitStays ==
    ASSUME TypeOK, TypeOK',
           \A t \in Txn : writes[t] > 0 \/ writes'[t] > 0 =>
               /\ req'[t] = req[t] /\ writes'[t] = writes[t]
               /\ status'[t] = "committed" <=> status[t] = "committed"
               /\ parcel'[t] = parcel[t]
    PROVE  Moved' = Moved /\ Unpaid' = Unpaid
<1>1. ASSUME NEW t \in Txn
      PROVE  Moved'[t] = Moved[t] /\ Unpaid'[t] = Unpaid[t]
  BY DEF DepositInTransit, ClaimPlaced, IsDeposit, Moved, Unpaid
<1> QED
  BY <1>1 DEF Moved, Unpaid

LEMMA SheetStays ==
    ASSUME GoldConserved, Purse' = Purse, Reserved' = Reserved,
           Moved' = Moved, Unpaid' = Unpaid
    PROVE  GoldConserved'
  BY SheetFold, SheetFoldNext

\* A settlement divides the gold anew between this player and the others.
LEMMA SettleGold ==
    ASSUME NEW held, NEW asked, NEW gold \in Nat, otherGold \in Nat,
           Settle(held, asked, gold)
    PROVE  balance' + otherGold' = gold + otherGold
<1>1. PICK kept \in 0..(gold + otherGold) :
          balance' = kept /\ otherGold' = gold + otherGold - kept
  BY DEF Settle
<1> QED
  BY <1>1

----------------------------------------------------------------------------
\* What is on its way belongs to the one open ticket, which is being written.
LEMMA OneOnItsWay ==
    ASSUME Accounts, NEW t \in Txn, DepositInTransit(t) \/ ClaimPlaced(t)
    PROVE  /\ Open(t)
           /\ \A u \in Txn : u # t => ~DepositInTransit(u) /\ ~ClaimPlaced(u)
<1> USE DEF Accounts, Whereabouts, Exclusion, Position, Structure, TypeOK
<1>1. \A u \in Txn : DepositInTransit(u) \/ ClaimPlaced(u) => Open(u)
  BY OncePerTicket DEF WrittenOnce, DepositInTransit, ClaimPlaced, Open, Statuses
<1> QED
  BY <1>1 DEF OneOpenTicket

\* Gold that was delivered and not recorded as delivered is still reserved.
LEMMA ClaimsAreReserved == Accounts => SumFunction(Unpaid) <= SumFunction(Reserved)
<1> SUFFICES ASSUME Accounts PROVE SumFunction(Unpaid) <= SumFunction(Reserved)
  OBVIOUS
<1> USE DEF Accounts, Whereabouts, Exclusion, Position, Structure, TypeOK
<1>1. SheetTyped
  BY SheetTypes
<1>2. /\ IsFiniteSet(Txn) /\ IsFiniteSet(Wid)
      /\ Unpaid \in [Txn -> Int] /\ Reserved \in [Wid -> Nat]
  BY <1>1 DEF SheetTyped
<1>3. CASE \A t \in Txn : ~ClaimPlaced(t)
  <2>1. \A t \in Txn : Unpaid[t] = 0
    BY <1>3 DEF Unpaid
  <2> QED
    BY <1>1, <1>2, <2>1, SumZero DEF SheetTyped
<1>4. ASSUME NEW t \in Txn, ClaimPlaced(t)
      PROVE  SumFunction(Unpaid) <= SumFunction(Reserved)
  <2>1. Open(t) /\ \A u \in Txn : u # t => Unpaid[u] = 0
    BY <1>4, OneOnItsWay DEF Unpaid
  <2>2. SumFunction(Unpaid) = Unpaid[t] /\ Unpaid[t] = parcel[t].gold
    BY <1>2, <1>4, <2>1, SumSingle DEF Unpaid
  <2>3. CASE req[t].kind = "withdrawal"
    <3>1. /\ req[t].wid \in Wid /\ wd[req[t].wid] = "delivering"
          /\ parcel[t].gold <= remaining[req[t].wid]
      BY <2>1, <2>3 DEF Requests, WellFormed, Reservations
    <3>2. parcel[t].gold <= Reserved[req[t].wid]
      BY <3>1 DEF Reserved
    <3>3. Reserved[req[t].wid] <= SumFunction(Reserved)
      BY <1>2, <3>1, SumNat
    <3>4. /\ parcel[t].gold \in Nat /\ Reserved[req[t].wid] \in Nat
          /\ SumFunction(Reserved) \in Nat
      BY <1>1, <3>1 DEF SheetTyped, Goods
    <3> QED
      BY <2>2, <3>2, <3>3, <3>4
  <2>4. CASE req[t].kind # "withdrawal"
    <3>1. parcel[t].gold = 0
      BY <1>4, <2>4 DEF ClaimPlaced, IsDeposit, Request, GoldMoved, ParcelGold
    <3> QED
      BY <1>1, <2>2, <3>1 DEF SheetTyped
  <2> QED
    BY <2>3, <2>4
<1> QED
  BY <1>3, <1>4

\* Nobody has more gold than there is.
LEMMA NoMoreThanAll == Accounts => Visible.gold <= StartGold + OtherGold
<1> SUFFICES ASSUME Accounts PROVE Visible.gold <= StartGold + OtherGold
  OBVIOUS
<1>1. SheetTyped
  BY SheetTypes DEF Accounts, Whereabouts, Exclusion, Position, Structure
<1> DEFINE R == SumFunction(Reserved)
           M == SumFunction(Moved)
           U == SumFunction(Unpaid)
<1>2. /\ U <= R
      /\ Visible.gold + carried.gold + balance + otherGold + R + M = StartGold + OtherGold + U
  BY ClaimsAreReserved DEF Accounts, GoldConserved
<1>3. /\ Visible.gold \in Nat /\ carried.gold \in Nat /\ balance \in Nat /\ otherGold \in Nat
      /\ R \in Nat /\ M \in Nat /\ U \in Nat
  BY <1>1 DEF SheetTyped
<1>4. StartGold \in Nat /\ OtherGold \in Nat
  BY ConstantsAssumption
<1> HIDE DEF R, M, U
<1> QED
  BY <1>2, <1>3, <1>4

----------------------------------------------------------------------------
\* The images of the journal move the gold of the ticket.
LEMMA GoldMovedStep == Accounts /\ [Next]_vars => GoldMoved'
<1> SUFFICES ASSUME Accounts, [Next]_vars PROVE GoldMoved'
  OBVIOUS
<1> USE DEF Accounts, Whereabouts, Exclusion, Position, Structure, TypeOK, AgentFollows
<1>1. TakenGold(plan.req, plan.img)'
  <2>1. CASE PlanDeposit
    <3>1. PICK items \in SUBSET page.items, gold \in 0..page.gold :
              plan' = [req |-> [kind |-> "deposit", wid |-> None,
                                goods |-> [items |-> items, gold |-> gold]],
                       img |-> [before |-> page,
                                after |-> Minus(page, [items |-> items, gold |-> gold])]]
      BY <2>1 DEF PlanDeposit
    <3>2. page.gold <= StartGold + OtherGold
      BY <2>1, NoMoreThanAll DEF PlanDeposit, Accessible, Visible, Loaded
    <3> QED
      BY <3>1, <3>2 DEF TakenGold, Minus
  <2>2. CASE PlanItemClaim \/ PlanWithdrawalClaim
    BY <2>2 DEF PlanItemClaim, PlanWithdrawalClaim, TakenGold
  <2>3. CASE plan' = NoPlan
    BY <2>3 DEF NoPlan, NoRequest, TakenGold
  <2>4. CASE UNCHANGED plan
    BY <2>4 DEF GoldMoved, TakenGold
  <2>5. ASSUME NEW t \in Txn, Serve(t) PROVE UNCHANGED plan
    BY <2>5, ServiceFrame
  <2> QED
    BY <2>1, <2>2, <2>3, <2>4, <2>5, PlanFrame, VaultFrame, GameFrame
       DEF Next, PlanStep, vars
<1>2. ASSUME NEW t \in Txn PROVE (TakenGold(req[t], img[t]) /\ PlacedGold(t))'
  <2>1. CASE req'[t] = req[t] /\ img'[t] = img[t]
    <3>1. TakenGold(req[t], img[t])'
      BY <2>1 DEF GoldMoved, TakenGold
    <3>2. PlacedGold(t)'
      BY <2>1, ParcelFrame DEF GoldMoved, Images, Placed, PlacedGold, IsDeposit
    <3> QED
      BY <3>1, <3>2
  <2>2. ASSUME NEW u \in Txn, Journal(u), u = t
        PROVE  (TakenGold(req[t], img[t]) /\ PlacedGold(t))'
    <3>1. req'[t] = plan.req /\ img'[t] = plan.img
      BY <2>2 DEF Journal
    <3> QED
      BY <3>1 DEF GoldMoved, Images, TakenGold, PlacedGold, IsDeposit
  <2>3. CASE PlanDelivery /\ pointer = t /\ img'[t] # img[t]
    <3>1. /\ req'[t] = req[t] /\ UNCHANGED <<status, parcel>>
          /\ img'[t] = [before |-> page, after |-> Plus(page, parcel[t])]
      BY <2>3, AgentFrame DEF PlanDelivery, AgentStep
    <3>2. pc = "plan" /\ img[t] = None
      BY <2>3 DEF PlanDelivery, Journaled
    <3>3. req[t].kind # "deposit"
      BY <3>2 DEF Requests, WellFormed
    <3> QED
      BY <3>1, <3>3 DEF TakenGold, PlacedGold, IsDeposit, Plus
  <2>4. ASSUME NEW u \in Txn, Journal(u), u # t
        PROVE req'[t] = req[t] /\ img'[t] = img[t]
    BY <2>4 DEF Journal
  <2>5. CASE PlanDelivery /\ (pointer # t \/ img'[t] = img[t])
    <3>1. req'[t] = req[t] /\ img'[t] = img[t]
      BY <2>5 DEF PlanDelivery
    <3> QED
      BY <2>1, <3>1
  <2>6. ASSUME NEW u \in Txn, Serve(u) PROVE UNCHANGED <<req, img>>
    BY <2>6, ServiceFrame
  <2> QED
    BY <2>1, <2>2, <2>3, <2>4, <2>5, <2>6, ImageFrame, VaultFrame, GameFrame
       DEF Next, vars
<1>3. ASSUME NEW t \in Txn PROVE ParcelGold(t)'
  <2>0. ParcelGold(t)
    BY DEF GoldMoved
  <2>1. CASE req'[t] = req[t] /\ status'[t] = status[t] /\ parcel'[t] = parcel[t]
    BY <2>0, <2>1 DEF ParcelGold, IsDeposit
  <2>2. ASSUME NEW u \in Txn, Journal(u) PROVE ParcelGold(t)'
    <3>1. /\ UNCHANGED <<status, parcel>>
          /\ u # t => req'[t] = req[t]
          /\ u = t => status[t] = "none"
      BY <2>2 DEF Journal, Fresh
    <3> QED
      BY <2>0, <3>1 DEF ParcelGold, IsDeposit
  <2>3. ASSUME NEW u \in Txn, Serve(u) PROVE ParcelGold(t)'
    <3>1. UNCHANGED req
      BY <2>3, ServiceFrame
    <3>2. CASE AdmitDeposit(u) \/ ReserveItems(u) \/ ReserveWithdrawal(u)
      <4>1. /\ u # t => status'[t] = status[t] /\ parcel'[t] = parcel[t]
            /\ status'[u] = "prepared"
            /\ IsDeposit(u) => parcel'[u].gold = req[u].goods.gold
            /\ ~IsDeposit(u) => req[u].kind = "withdrawal" \/ parcel'[u].gold = 0
        BY <3>2 DEF AdmitDeposit, ReserveItems, ReserveWithdrawal, IsDeposit
      <4> QED
        BY <2>0, <3>1, <4>1 DEF ParcelGold, IsDeposit
    <3>3. CASE ServeCancel(u) \/ ServeAuthorize(u) \/ CommitDeposit(u) \/ CommitClaim(u)
      <4>1. /\ UNCHANGED parcel /\ status[u] # "none"
            /\ u # t => status'[t] = status[t]
        BY <3>3 DEF ServeCancel, ServeAuthorize, CommitDeposit, CommitClaim,
           Cancellable, Authorizable, Open, Committable
      <4>2. status'[u] # "none"
        BY <2>3, <4>1, ParcelFrame
      <4> QED
        BY <2>0, <3>1, <4>1, <4>2 DEF ParcelGold, IsDeposit
    <3>4. CASE PrepareAgain(u) \/ PrepareRefused(u) \/ ServeStatus(u)
               \/ CancelRefused(u) \/ AuthorizeRefused(u) \/ CommitRefused(u)
      <4>1. UNCHANGED serviceVars
        BY <3>4 DEF PrepareAgain, PrepareRefused, ServeStatus, CancelRefused,
           AuthorizeRefused, CommitRefused, Refuse
      <4> QED
        BY <2>1, <3>1, <4>1
    <3> QED
      BY <2>3, <3>2, <3>3, <3>4 DEF Serve
  <2>4. CASE ((AgentStep \/ PlanStep \/ Abort) /\ UNCHANGED req)
             \/ VaultStep \/ GameStep \/ UNCHANGED vars
    <3>1. UNCHANGED <<req, status, parcel>>
      BY <2>4, AgentFrame, VaultFrame, GameFrame DEF vars
    <3> QED
      BY <2>1, <3>1
  <2> QED
    BY <2>2, <2>3, <2>4, RequestFrame DEF Next
<1> QED
  BY <1>1, <1>2, <1>3 DEF GoldMoved

----------------------------------------------------------------------------
\* The agent replaces the page: the gold of a deposit leaves it, that of a claim
\* arrives on it.
LEMMA GoldWrite ==
    ASSUME Accounts, TypeOK', WritePage
    PROVE  GoldConserved'
<1> USE DEF Accounts, Whereabouts, Exclusion, Position, Structure, TypeOK, AgentFollows
<1>1. /\ pointer \in Txn /\ img[pointer] # None
      /\ phase[pointer] = "applying" /\ status[pointer] = "writing"
      /\ Distinct(pointer) /\ ~Loaded
  BY DEF WritePage, Journaled, Tickets, Settled, PageHeld, Gated, Accessible, Loaded
<1>2. /\ UNCHANGED <<game, mem, carried, req, serviceVars>>
      /\ \A t \in Txn : t # pointer => writes'[t] = writes[t]
  BY AgentFrame DEF WritePage, AgentStep
<1>3. /\ Visible = page /\ Visible' = page'
      /\ Reserved' = Reserved
  BY <1>1, <1>2 DEF Visible, Loaded, Reserved
<1>4. CASE page = img[pointer].after \/ ~PageMatches(pointer)
  <2>1. UNCHANGED <<page, writes>>
    BY <1>1, <1>4 DEF WritePage, Distinct
  <2>2. Moved' = Moved /\ Unpaid' = Unpaid
    BY <1>2, <2>1, TransitStays
  <2>3. Purse' = Purse
    BY <1>2, <1>3, <2>1 DEF Purse
  <2> QED
    BY <1>3, <2>2, <2>3, SheetStays
<1>5. CASE page = img[pointer].before /\ PageMatches(pointer)
  <2>1. writes[pointer] = 0
    BY <1>1, <1>5 DEF OnImages, Settled, Distinct
  <2>2. page' = img[pointer].after /\ writes'[pointer] = 1
    BY <1>1, <1>5, <2>1 DEF WritePage
  <2>3. \A u \in Txn : u # pointer => Moved'[u] = Moved[u] /\ Unpaid'[u] = Unpaid[u]
    BY <1>2 DEF Moved, Unpaid, DepositInTransit, ClaimPlaced, IsDeposit
  <2>4. Moved[pointer] = 0 /\ Unpaid[pointer] = 0
    BY <1>1, <2>1 DEF Moved, Unpaid, DepositInTransit, ClaimPlaced
  <2>5. /\ SumFunction(Moved') = SumFunction(Moved) - Moved[pointer] + Moved'[pointer]
        /\ SumFunction(Unpaid') = SumFunction(Unpaid) - Unpaid[pointer] + Unpaid'[pointer]
    BY <1>1, <2>3, TransitChange
  <2> DEFINE g == parcel[pointer].gold
  <2>6. g \in Nat /\ page.gold \in Nat
    BY <1>1 DEF Goods
  <2>7. CASE IsDeposit(pointer)
    <3>1. Moved'[pointer] = g /\ Unpaid'[pointer] = 0
      BY <1>1, <1>2, <2>2, <2>7 DEF Moved, Unpaid, DepositInTransit, ClaimPlaced, IsDeposit
    <3>2. g <= page.gold /\ page'.gold = page.gold - g
      BY <1>1, <1>5, <2>2, <2>7 DEF GoldMoved, TakenGold, ParcelGold, IsDeposit
    <3>3. Purse' = Purse - g
      <4>1. carried.gold \in Nat /\ balance \in Nat /\ otherGold \in Nat
        BY DEF Goods
      <4> QED
        BY <1>2, <1>3, <2>6, <3>2, <4>1 DEF Purse
    <3> QED
      BY <1>3, <2>4, <2>5, <2>6, <3>1, <3>3, SheetFold, SheetFoldNext, SheetTypes
         DEF SheetTyped
  <2>8. CASE ~IsDeposit(pointer)
    <3>1. Moved'[pointer] = 0 /\ Unpaid'[pointer] = g
      BY <1>1, <1>2, <2>2, <2>8 DEF Moved, Unpaid, DepositInTransit, ClaimPlaced, IsDeposit
    <3>2. page'.gold = page.gold + g
      BY <1>1, <1>5, <2>2, <2>8 DEF GoldMoved, PlacedGold
    <3>3. Purse' = Purse + g
      <4>1. carried.gold \in Nat /\ balance \in Nat /\ otherGold \in Nat
        BY DEF Goods
      <4> QED
        BY <1>2, <1>3, <2>6, <3>2, <4>1 DEF Purse
    <3>4. /\ SumFunction(Moved') = SumFunction(Moved)
          /\ SumFunction(Unpaid') = SumFunction(Unpaid) + g
      BY <2>4, <2>5, <2>6, <3>1, SheetTypes DEF SheetTyped
    <3>5. /\ Purse \in Nat /\ SumFunction(Reserved) \in Nat
          /\ SumFunction(Moved) \in Nat /\ SumFunction(Unpaid) \in Nat
      BY SheetTypes DEF SheetTyped
    <3> HIDE DEF g
    <3> QED
      BY <1>3, <2>6, <3>3, <3>4, <3>5, SheetFold, SheetFoldNext
  <2> QED
    BY <2>7, <2>8
<1> QED
  BY <1>4, <1>5 DEF PageMatches

\* What the player moves stays the player's.
LEMMA GoldGame ==
    ASSUME Accounts, TypeOK', GameStep
    PROVE  GoldConserved'
<1> USE DEF Accounts, Whereabouts, Exclusion, Position, Structure, TypeOK
<1>1. UNCHANGED <<req, writes, serviceVars>>
  BY GameFrame
<1>2. Moved' = Moved /\ Unpaid' = Unpaid /\ Reserved' = Reserved
  BY <1>1, TransitStays DEF Reserved
<1>3. CASE ~MoveGoods
  <2>1. Visible' = Visible /\ carried' = carried
    BY <1>3, SeenStays
  <2> QED
    BY <1>1, <1>2, <2>1, SheetStays DEF Purse
<1>4. CASE MoveGoods
  <2>1. Visible = mem /\ Visible' = mem'
    BY <1>4 DEF MoveGoods, Visible, Loaded
  <2>2. mem.gold \in Nat /\ carried.gold \in Nat
    BY DEF Goods
  <2>3. mem'.gold + carried'.gold = mem.gold + carried.gold
    <3>1. ASSUME NEW items, NEW gold \in 0..mem.gold,
                 mem' = Minus(mem, [items |-> items, gold |-> gold]),
                 carried' = Plus(carried, [items |-> items, gold |-> gold])
          PROVE  mem'.gold + carried'.gold = mem.gold + carried.gold
      <4>1. mem'.gold = mem.gold - gold /\ carried'.gold = carried.gold + gold
        BY <3>1 DEF Plus, Minus
      <4> QED
        BY <2>2, <4>1
    <3>2. ASSUME NEW items, NEW gold \in 0..carried.gold,
                 mem' = Plus(mem, [items |-> items, gold |-> gold]),
                 carried' = Minus(carried, [items |-> items, gold |-> gold])
          PROVE  mem'.gold + carried'.gold = mem.gold + carried.gold
      <4>1. mem'.gold = mem.gold + gold /\ carried'.gold = carried.gold - gold
        BY <3>2 DEF Plus, Minus
      <4> QED
        BY <2>2, <4>1
    <3> QED
      BY <1>4, <3>1, <3>2 DEF MoveGoods
  <2>4. Purse' = Purse
    BY <1>1, <2>1, <2>3 DEF Purse
  <2> QED
    BY <1>2, <2>4, SheetStays
<1> QED
  BY <1>3, <1>4 DEF GameStep

\* Two terms of a sum of four replaced: the sum moves by the difference.
LEMMA TwoTermsReplaced ==
    ASSUME NEW v \in Nat, NEW c \in Nat, NEW b \in Nat, NEW o \in Nat,
           NEW m \in Nat, NEW n \in Nat, NEW gold \in Int, m + n = gold
    PROVE  v + c + m + n = (v + c + b + o) + (gold - (b + o))
OBVIOUS

\* The purse follows what the player and the others hold in the Vault.
LEMMA PurseFollows ==
    ASSUME SheetTyped, SheetTyped', Visible' = Visible, carried' = carried,
           NEW gold \in Int, balance' + otherGold' = gold
    PROVE  Purse' = Purse + (gold - (balance + otherGold))
<1>1. /\ Visible.gold \in Nat /\ carried.gold \in Nat
      /\ balance \in Nat /\ otherGold \in Nat
      /\ balance' \in Nat /\ otherGold' \in Nat
  BY DEF SheetTyped
<1>2. PICK v, c, b, o, m, n \in Nat :
          /\ v = Visible.gold /\ c = carried.gold
          /\ b = balance /\ o = otherGold /\ m = balance' /\ n = otherGold'
  BY <1>1
<1>3. Visible'.gold = Visible.gold /\ carried'.gold = carried.gold
  OBVIOUS
<1>4. v + c + m + n = (v + c + b + o) + (gold - (b + o))
  <2>1. m + n = gold
    BY <1>2
  <2> QED
    BY <2>1, TwoTermsReplaced
<1>5. Purse = v + c + b + o /\ Purse' = v + c + m + n
  BY <1>2, <1>3 DEF Purse
<1> QED
  BY <1>2, <1>4, <1>5

\* A delivered withdrawal reserves less, by what was delivered.
LEMMA ReservedCommit ==
    ASSUME Accounts, TypeOK', NEW t \in Txn, Open(t), CommitClaim(t)
    PROVE  SumFunction(Reserved') = SumFunction(Reserved) - parcel[t].gold
<1> USE DEF Accounts, Whereabouts, Exclusion, Position, Structure, TypeOK
<1> DEFINE g == parcel[t].gold
<1>1. SheetTyped /\ SheetTyped' /\ g \in Nat
  BY SheetTypes, SheetTypesNext DEF Goods
<1>2. /\ remaining' = [w \in Wid |-> IF req[t].wid = w THEN remaining[w] - g
                                                      ELSE remaining[w]]
      /\ wd' = [w \in Wid |-> IF req[t].wid # w THEN wd[w]
                              ELSE IF remaining'[w] > 0 THEN "queued" ELSE "completed"]
      /\ ~IsDeposit(t)
  BY DEF CommitClaim
<1>3. CASE req[t].kind = "withdrawal"
  <2> DEFINE w == req[t].wid
  <2>1. w \in Wid /\ wd[w] = "delivering" /\ g <= remaining[w]
    BY <1>3 DEF Requests, WellFormed, Reservations
  <2>2. Reserved[w] = remaining[w] /\ remaining[w] \in Nat
    BY <2>1 DEF Reserved
  <2>3. remaining'[w] = remaining[w] - g
    BY <1>2, <2>1
  <2>4. Reserved'[w] = IF remaining'[w] > 0 THEN remaining'[w] ELSE 0
    BY <1>2, <2>1 DEF Reserved
  <2>5. Reserved'[w] = Reserved[w] - g
    BY <1>1, <2>1, <2>2, <2>3, <2>4
  <2>6. \A v \in Wid : v # w => Reserved'[v] = Reserved[v]
    BY <1>2 DEF Reserved
  <2>7. SumFunction(Reserved') = SumFunction(Reserved) - Reserved[w] + Reserved'[w]
    BY <2>1, <2>6, ReservedChange
  <2> HIDE DEF g, w
  <2>8. SumFunction(Reserved') = SumFunction(Reserved) - g
    BY <1>1, <2>2, <2>5, <2>7 DEF SheetTyped
  <2> QED
    BY <2>8 DEF g
<1>4. CASE req[t].kind # "withdrawal"
  <2>1. g = 0
    <3>1. req[t].kind \in {"none", "items"}
      BY <1>2, <1>4 DEF Request, IsDeposit
    <3> QED
      BY <3>1 DEF GoldMoved, ParcelGold
  <2>2. req[t].wid \notin Wid
    BY <1>4 DEF Requests, WellFormed
  <2>3. Reserved' = Reserved
    BY <1>2, <2>2 DEF Reserved
  <2> QED
    BY <1>1, <2>1, <2>3 DEF SheetTyped
<1> QED
  BY <1>3, <1>4

----------------------------------------------------------------------------
\* A request of the agent: reservations, cancellations and commits.
LEMMA GoldServe ==
    ASSUME Accounts, TypeOK', NEW t \in Txn, Serve(t)
    PROVE  GoldConserved'
<1> USE DEF Accounts, Whereabouts, Exclusion, Position, Structure, TypeOK
<1>1. UNCHANGED <<page, game, mem, carried, req, writes>> /\ Visible' = Visible
  BY ServiceFrame DEF Visible, Loaded
<1>2. \A u \in Txn : status[u] \in {"none", "prepared", "cancelled"} => writes[u] = 0
  BY OncePerTicket DEF WrittenOnce
<1>3. SheetTyped /\ SheetTyped'
  BY SheetTypes, SheetTypesNext
<1>4. CASE AdmitDeposit(t) \/ ReserveItems(t) \/ ReserveWithdrawal(t)
  <2>1. /\ status[t] = "none" /\ status'[t] = "prepared" /\ UNCHANGED <<balance, otherGold>>
        /\ \A u \in Txn : u # t => status'[u] = status[u] /\ parcel'[u] = parcel[u]
    BY <1>4 DEF AdmitDeposit, ReserveItems, ReserveWithdrawal
  <2>2. Moved' = Moved /\ Unpaid' = Unpaid
    BY <1>1, <1>2, <2>1, TransitStays
  <2>3. ASSUME NEW w \in Wid PROVE Reserved'[w] = Reserved[w]
    <3>1. CASE AdmitDeposit(t) \/ ReserveItems(t)
      BY <3>1 DEF AdmitDeposit, ReserveItems, Reserved
    <3>2. CASE ReserveWithdrawal(t)
      <4>1. /\ wd[req[t].wid] = "queued" /\ UNCHANGED remaining
            /\ wd' = [wd EXCEPT ![req[t].wid] = "delivering"]
        BY <3>2 DEF ReserveWithdrawal, Accepts
      <4> QED
        BY <4>1 DEF Reserved
    <3> QED
      BY <1>4, <3>1, <3>2
  <2>4. Reserved' = Reserved
    BY <2>3 DEF Reserved
  <2>5. Purse' = Purse
    BY <1>1, <2>1 DEF Purse
  <2> QED
    BY <2>2, <2>4, <2>5, SheetStays
<1>5. CASE ServeCancel(t)
  <2>1. /\ status[t] = "prepared" /\ status'[t] = "cancelled" /\ UNCHANGED <<parcel, remaining>>
        /\ \A u \in Txn : u # t => status'[u] = status[u]
        /\ wd' = [w \in Wid |-> IF req[t].wid = w THEN "queued" ELSE wd[w]]
    BY <1>5 DEF ServeCancel, Cancellable
  <2>2. Moved' = Moved /\ Unpaid' = Unpaid
    BY <1>1, <1>2, <2>1, TransitStays
  <2>3. ASSUME NEW w \in Wid PROVE Reserved'[w] = Reserved[w]
    <3>1. req[t].wid = w => wd[w] = "delivering"
      BY <2>1 DEF Reservations, Open, Requests, WellFormed
    <3> QED
      BY <2>1, <3>1 DEF Reserved
  <2>4. Reserved' = Reserved
    BY <2>3 DEF Reserved
  <2>5. balance' + otherGold' = balance + otherGold
    BY <1>5, SettleGold DEF ServeCancel
  <2>6. Purse' = Purse
    <3>1. balance + otherGold \in Int /\ Purse \in Int
      BY <1>3 DEF SheetTyped
    <3>2. Purse' = Purse + ((balance + otherGold) - (balance + otherGold))
      BY <1>1, <1>3, <2>5, <3>1, PurseFollows
    <3> QED
      BY <3>1, <3>2
  <2> QED
    BY <2>2, <2>4, <2>6, SheetStays
<1>6. CASE CommitDeposit(t) \/ CommitClaim(t)
  <2> DEFINE g == parcel[t].gold
  <2>1. /\ status[t] = "writing" /\ status'[t] = "committed" /\ UNCHANGED parcel
        /\ \A u \in Txn : u # t => status'[u] = status[u]
    BY <1>6 DEF CommitDeposit, CommitClaim, Committable
  <2>2. writes[t] = 1
    BY <1>6, CommitFollowsWrite DEF CommitDeposit, CommitClaim
  <2>3. \A u \in Txn : u # t => Moved'[u] = Moved[u] /\ Unpaid'[u] = Unpaid[u]
    BY <1>1, <2>1 DEF Moved, Unpaid, DepositInTransit, ClaimPlaced, IsDeposit
  <2>4. /\ Moved[t] = (IF IsDeposit(t) THEN g ELSE 0)
        /\ Unpaid[t] = (IF IsDeposit(t) THEN 0 ELSE g)
        /\ Moved'[t] = 0 /\ Unpaid'[t] = 0
    BY <2>1, <2>2 DEF Moved, Unpaid, DepositInTransit, ClaimPlaced
  <2>5. /\ SumFunction(Moved') = SumFunction(Moved) - Moved[t] + Moved'[t]
        /\ SumFunction(Unpaid') = SumFunction(Unpaid) - Unpaid[t] + Unpaid'[t]
    BY <2>3, TransitChange
  <2>6. /\ g \in Nat /\ balance' \in Nat /\ otherGold' \in Nat
    BY DEF Goods
  <2>7. CASE CommitDeposit(t)
    <3>1. IsDeposit(t) /\ UNCHANGED <<wd, remaining>>
      BY <2>7 DEF CommitDeposit
    <3>2. balance' + otherGold' = (balance + g) + otherGold
      <4>1. balance + g \in Nat
        BY <2>6
      <4> QED
        BY <2>7, <4>1, SettleGold DEF CommitDeposit
    <3>3. Purse' = Purse + g
      BY <1>1, <1>3, <2>6, <3>2 DEF Purse, SheetTyped
    <3>4. Reserved' = Reserved
      BY <3>1 DEF Reserved
    <3>5. /\ SumFunction(Moved') = SumFunction(Moved) - g
          /\ SumFunction(Unpaid') = SumFunction(Unpaid)
      BY <1>3, <2>4, <2>5, <2>6, <3>1 DEF SheetTyped
    <3> HIDE DEF g
    <3> QED
      BY <1>3, <2>6, <3>3, <3>4, <3>5, SheetFold, SheetFoldNext DEF SheetTyped
  <2>8. CASE CommitClaim(t)
    <3>1. ~IsDeposit(t)
      BY <2>8 DEF CommitClaim
    <3>2. balance' + otherGold' = balance + otherGold
      BY <2>8, SettleGold DEF CommitClaim
    <3>3. Purse' = Purse
      <4>1. balance + otherGold \in Int /\ Purse \in Int
        BY <1>3 DEF SheetTyped
      <4>2. Purse' = Purse + ((balance + otherGold) - (balance + otherGold))
        BY <1>1, <1>3, <3>2, <4>1, PurseFollows
      <4> QED
        BY <4>1, <4>2
    <3>5. SumFunction(Reserved') = SumFunction(Reserved) - g
      BY <2>1, <2>8, ReservedCommit DEF Open
    <3>6. /\ SumFunction(Moved') = SumFunction(Moved)
          /\ SumFunction(Unpaid') = SumFunction(Unpaid) - g
      BY <1>3, <2>4, <2>5, <2>6, <3>1 DEF SheetTyped
    <3> HIDE DEF g
    <3> QED
      BY <1>3, <2>6, <3>3, <3>5, <3>6, SheetFold, SheetFoldNext DEF SheetTyped
  <2> QED
    BY <1>6, <2>7, <2>8
<1>7. CASE ServeAuthorize(t) \/ PrepareAgain(t) \/ PrepareRefused(t) \/ ServeStatus(t)
           \/ CancelRefused(t) \/ AuthorizeRefused(t) \/ CommitRefused(t)
  <2>1. /\ UNCHANGED <<parcel, ledgerVars>>
        /\ \A u \in Txn : status'[u] = "committed" <=> status[u] = "committed"
    BY <1>7 DEF ServeAuthorize, Authorizable, Open, PrepareAgain, PrepareRefused,
       ServeStatus, CancelRefused, AuthorizeRefused, CommitRefused, Refuse
  <2>2. Moved' = Moved /\ Unpaid' = Unpaid /\ Reserved' = Reserved
    BY <1>1, <2>1, TransitStays DEF Reserved
  <2> QED
    BY <1>1, <2>1, <2>2, SheetStays DEF Purse
<1> QED
  BY <1>4, <1>5, <1>6, <1>7 DEF Serve

----------------------------------------------------------------------------
\* A command of a player or a settlement.
LEMMA GoldVault ==
    ASSUME Accounts, TypeOK', VaultStep
    PROVE  GoldConserved'
<1> USE DEF Accounts, Whereabouts, Exclusion, Position, Structure, TypeOK
<1>1. UNCHANGED Aside /\ Visible' = Visible
  BY VaultFrame DEF Visible, Loaded
<1>2. SheetTyped /\ SheetTyped'
  BY SheetTypes, SheetTypesNext
<1>3. Moved' = Moved /\ Unpaid' = Unpaid
  BY <1>1, TransitStays
<1>4. balance \in Nat /\ otherGold \in Nat /\ Purse \in Nat
  BY <1>2 DEF SheetTyped
<1>5. ASSUME balance' + otherGold' = balance + otherGold, UNCHANGED <<wd, remaining>>
      PROVE  GoldConserved'
  <2>1. balance + otherGold \in Int
    BY <1>4
  <2>2. Purse' = Purse + ((balance + otherGold) - (balance + otherGold))
    BY <1>1, <1>2, <1>5, <2>1, PurseFollows
  <2>3. Purse' = Purse
    BY <1>4, <2>2
  <2>4. Reserved' = Reserved
    BY <1>5 DEF Reserved
  <2> QED
    BY <1>3, <2>3, <2>4, SheetStays
<1>6. ASSUME NEW i \in Item, EscrowPrice(i) \/ EscrowReturn(i) PROVE GoldConserved'
  <2>1. UNCHANGED <<wd, remaining>> /\ \E held, asked : Settle(held, asked, balance)
    BY <1>6 DEF EscrowPrice, EscrowReturn
  <2> QED
    BY <1>4, <1>5, <2>1, SettleGold
<1>7. CASE SettleTrades
  <2>1. UNCHANGED <<wd, remaining>> /\ Settle(state, requested, balance)
    BY <1>7 DEF SettleTrades
  <2> QED
    BY <1>4, <1>5, <2>1, SettleGold
<1>8. ASSUME NEW i \in Item, RecordSale(i) PROVE GoldConserved'
  BY <1>5, <1>8 DEF RecordSale
<1>9. ASSUME NEW w \in Wid, WalletWithdraw(w) PROVE GoldConserved'
  <2>1. PICK gold \in 1..balance :
            /\ balance' = balance - gold
            /\ remaining' = [remaining EXCEPT ![w] = gold]
    BY <1>9 DEF WalletWithdraw
  <2>2. wd[w] = "none" /\ wd' = [wd EXCEPT ![w] = "queued"] /\ otherGold' = otherGold
    BY <1>9 DEF WalletWithdraw
  <2>3. Reserved[w] = 0 /\ Reserved'[w] = gold
    BY <2>1, <2>2 DEF Reserved
  <2>4. \A v \in Wid : v # w => Reserved'[v] = Reserved[v]
    BY <2>1, <2>2 DEF Reserved
  <2>5. SumFunction(Reserved') = SumFunction(Reserved) - Reserved[w] + Reserved'[w]
    BY <2>4, ReservedChange
  <2>6. gold \in Nat /\ gold <= balance
    BY <1>4
  <2>7. Purse' = Purse + (((balance - gold) + otherGold) - (balance + otherGold))
    <3>1. (balance - gold) + otherGold \in Int
      BY <1>4, <2>6
    <3> QED
      BY <1>1, <1>2, <2>1, <2>2, <3>1, PurseFollows
  <2>8. Purse' = Purse - gold
    BY <1>4, <2>6, <2>7
  <2>9. SumFunction(Reserved') = SumFunction(Reserved) + gold
    BY <1>2, <2>3, <2>5, <2>6 DEF SheetTyped
  <2> QED
    BY <1>2, <1>3, <2>6, <2>8, <2>9, SheetFold, SheetFoldNext DEF SheetTyped
<1>10. ASSUME NEW w \in Wid, WalletCancel(w) PROVE GoldConserved'
  <2> DEFINE gold == remaining[w]
  <2>1. /\ wd[w] = "queued" /\ wd' = [wd EXCEPT ![w] = "cancelled"]
        /\ remaining' = remaining /\ gold \in Nat
        /\ Settle(state, requested, balance + gold)
    BY <1>10 DEF WalletCancel
  <2>2. Reserved[w] = gold /\ Reserved'[w] = 0
    BY <2>1 DEF Reserved
  <2>3. \A v \in Wid : v # w => Reserved'[v] = Reserved[v]
    BY <2>1 DEF Reserved
  <2>4. SumFunction(Reserved') = SumFunction(Reserved) - Reserved[w] + Reserved'[w]
    BY <2>3, ReservedChange
  <2>5. balance' + otherGold' = (balance + gold) + otherGold
    <3>1. balance + gold \in Nat
      BY <1>4, <2>1
    <3> QED
      BY <1>4, <2>1, <3>1, SettleGold
  <2> HIDE DEF gold
  <2>6. Purse' = Purse + (((balance + gold) + otherGold) - (balance + otherGold))
    <3>1. (balance + gold) + otherGold \in Int
      BY <1>4, <2>1
    <3> QED
      BY <1>1, <1>2, <2>5, <3>1, PurseFollows
  <2>7. Purse' = Purse + gold
    BY <1>4, <2>1, <2>6
  <2>8. SumFunction(Reserved') = SumFunction(Reserved) - gold
    BY <1>2, <2>1, <2>2, <2>4 DEF SheetTyped
  <2> QED
    BY <1>2, <1>3, <2>1, <2>7, <2>8, SheetFold, SheetFoldNext DEF SheetTyped
<1> QED
  BY <1>6, <1>7, <1>8, <1>9, <1>10 DEF VaultStep

LEMMA GoldStep == Accounts /\ TypeOK' /\ [Next]_vars => GoldConserved'
<1> SUFFICES ASSUME Accounts, TypeOK', [Next]_vars PROVE GoldConserved'
  OBVIOUS
<1> USE DEF Accounts, Whereabouts, Exclusion, Position, Structure
<1>1. ASSUME NEW t \in Txn, Journal(t) PROVE GoldConserved'
  <2>1. /\ UNCHANGED <<page, writes, gameVars, serviceVars>> /\ writes[t] = 0
        /\ \A u \in Txn : u # t => req'[u] = req[u]
    BY <1>1 DEF Journal, Fresh
  <2>2. Moved' = Moved /\ Unpaid' = Unpaid /\ Reserved' = Reserved /\ Visible' = Visible
    BY <2>1, TransitStays DEF Reserved, Visible, Loaded
  <2> QED
    BY <2>1, <2>2, SheetStays DEF Purse
<1>2. CASE ((AgentStep \/ PlanStep \/ Abort) /\ UNCHANGED <<page, writes, req>>)
           \/ UNCHANGED vars
  <2>1. UNCHANGED <<page, writes, req, gameVars, serviceVars>>
    BY <1>2, AgentFrame DEF vars
  <2>2. Moved' = Moved /\ Unpaid' = Unpaid /\ Reserved' = Reserved /\ Visible' = Visible
    BY <2>1, TransitStays DEF Reserved, Visible, Loaded
  <2> QED
    BY <2>1, <2>2, SheetStays DEF Purse
<1> QED
  BY <1>1, <1>2, DiskFrame, GoldWrite, GoldGame, GoldServe, GoldVault DEF Next

LEMMA InitAccounts == Init => GoldMoved /\ GoldConserved
<1> SUFFICES ASSUME Init PROVE GoldMoved /\ GoldConserved
  OBVIOUS
<1>1. GoldMoved
  BY DEF Init, GoldMoved, TakenGold, PlacedGold, ParcelGold, IsDeposit, NoPlan,
     NoRequest, Nothing
<1>2. Purse = StartGold + OtherGold
  BY DEF Init, Purse, Visible, Loaded, Nothing
<1>3. SheetTyped
  BY InitStructure, SheetTypes DEF Structure
<1>4. /\ \A w \in Wid : Reserved[w] = 0
      /\ \A t \in Txn : Moved[t] = 0 /\ Unpaid[t] = 0
  BY DEF Init, Reserved, Moved, Unpaid, DepositInTransit, ClaimPlaced
<1>5. /\ Reserved \in [Wid -> Int]
      /\ Moved \in [Txn -> Int] /\ Unpaid \in [Txn -> Int]
  BY <1>3 DEF SheetTyped
<1>6. IsFiniteSet(Txn) /\ IsFiniteSet(Wid)
  OBVIOUS
<1>7. /\ SumFunction(Reserved) = 0
      /\ SumFunction(Moved) = 0 /\ SumFunction(Unpaid) = 0
  BY <1>4, <1>5, <1>6, SumZero
<1> QED
  BY <1>1, <1>2, <1>3, <1>7, SheetFold DEF SheetTyped

----------------------------------------------------------------------------
\* The inductive invariant with the accounts: where the goods are, and that the
\* images, the parcels and the balance sheet agree on the gold.
THEOREM AccountsAlways == UnmistakenSpec => []Accounts
<1>1. Init => Accounts
  BY InitStructure, InitPosition, InitExclusion, InitWhereabouts, InitAccounts
     DEF Accounts, Whereabouts, Exclusion, Position
<1>2. Accounts /\ [UnmistakenNext]_vars => Accounts'
  <2> SUFFICES ASSUME Accounts, [Next]_vars, ~Coincidence PROVE Accounts'
    BY UnmistakenStep DEF Accounts, Whereabouts
  <2>1. Whereabouts'
    BY ExclusionStep, ImagesStep, ParcelsStep, LocatedStep DEF Accounts, Whereabouts
  <2>2. TypeOK'
    BY TypeStep DEF Accounts, Whereabouts, Exclusion, Position
  <2> QED
    BY <2>1, <2>2, GoldMovedStep, GoldStep
       DEF Accounts, Whereabouts, Exclusion, Position, Structure
<1> QED
  BY <1>1, <1>2, PTL DEF UnmistakenSpec

\* Gold is neither minted nor lost, whatever is aborted, late or interleaved, when
\* no edit is mistaken for the agent's work.
THEOREM GoldIsConserved == UnmistakenSpec => []GoldConserved
<1>1. UnmistakenSpec => []Accounts
  BY AccountsAlways
<1>2. Accounts => GoldConserved
  BY DEF Accounts
<1> QED
  BY <1>1, <1>2, PTL

-----------------------------------------------------------------------------
(***************************************************************************)
(* Custody implements the ledger of exactly-once transfers: every step     *)
(* moves goods as one step of the ledger does, or moves nothing.           *)
(***************************************************************************)

\* What is on its way is the parcel of the one transfer that is on its way.
Flow ==
    /\ \A t \in Txn : DepositInTransit(t) => TransitGoods = parcel[t]
    /\ (\A t \in Txn : ~DepositInTransit(t)) => TransitGoods = Nothing
    /\ \A t \in Txn : ClaimPlaced(t) => OnPage = parcel[t].items
    /\ (\A t \in Txn : ~ClaimPlaced(t)) => OnPage = {}

LEMMA Flows == Accounts => Flow
<1> SUFFICES ASSUME Accounts PROVE Flow
  OBVIOUS
<1> USE DEF Accounts, Whereabouts, Exclusion, Position, Structure, TypeOK
<1>1. IsFiniteSet(Txn) /\ Moved \in [Txn -> Int]
  BY SheetTypes DEF SheetTyped
<1>2. ASSUME NEW t \in Txn, DepositInTransit(t) PROVE TransitGoods = parcel[t]
  <2>1. \A u \in Txn : u # t => ~DepositInTransit(u)
    BY <1>2, OneOnItsWay
  <2>2. InTransit = {t}
    BY <1>2, <2>1 DEF InTransit
  <2>3. UNION {parcel[u].items : u \in InTransit} = parcel[t].items
    BY <2>2
  <2>4. \A u \in Txn : u # t => Moved[u] = 0
    BY <2>1 DEF Moved
  <2>5. SumFunction(Moved) = Moved[t]
    BY <1>1, <2>4, SumSingle
  <2>6. SumFunction(Moved) = parcel[t].gold
    BY <1>2, <2>5 DEF Moved
  <2>7. parcel[t] = [items |-> parcel[t].items, gold |-> parcel[t].gold]
    BY DEF Goods
  <2> QED
    BY <2>3, <2>6, <2>7 DEF TransitGoods, Hold
<1>3. ASSUME \A t \in Txn : ~DepositInTransit(t) PROVE TransitGoods = Nothing
  <2>1. InTransit = {}
    BY <1>3 DEF InTransit
  <2>2. UNION {parcel[u].items : u \in InTransit} = {}
    BY <2>1
  <2>3. \A u \in Txn : Moved[u] = 0
    BY <1>3 DEF Moved
  <2>4. SumFunction(Moved) = 0
    BY <1>1, <2>3, SumZero
  <2> QED
    BY <2>2, <2>4 DEF TransitGoods, Hold, Nothing
<1>4. ASSUME NEW t \in Txn, ClaimPlaced(t) PROVE OnPage = parcel[t].items
  <2>1. \A u \in Txn : u # t => ~ClaimPlaced(u)
    BY <1>4, OneOnItsWay
  <2> QED
    BY <1>4, <2>1 DEF OnPage, Goods
<1>5. ASSUME \A t \in Txn : ~ClaimPlaced(t) PROVE OnPage = {}
  BY <1>5 DEF OnPage
<1> QED
  BY <1>2, <1>3, <1>4, <1>5 DEF Flow

LEMMA FlowsNext == Accounts' => Flow'
  BY Flows, PTL

\* Every holder of the ledger has goods, and the reserves cover what was
\* delivered from them.
Holders ==
    /\ {PlayerGoods, TransitGoods, VaultGoods, OtherGoods} \subseteq Ledger!Goods
    /\ balance \in Nat /\ otherGold \in Nat
    /\ SumFunction(Reserved) \in Nat /\ SumFunction(Unpaid) \in Nat
    /\ SumFunction(Unpaid) <= SumFunction(Reserved)

LEMMA HoldersHave == Accounts => Holders
<1> SUFFICES ASSUME Accounts PROVE Holders
  OBVIOUS
<1> USE DEF Accounts, Whereabouts, Exclusion, Position, Structure, TypeOK
<1>1. SheetTyped /\ SumFunction(Unpaid) <= SumFunction(Reserved)
  BY SheetTypes, ClaimsAreReserved
<1>2. /\ PlayerGoods.items \subseteq Item /\ TransitGoods.items \subseteq Item
      /\ VaultGoods.items \subseteq Item /\ OtherGoods.items \subseteq Item
  BY <1>1 DEF PlayerGoods, TransitGoods, VaultGoods, OtherGoods, Hold, Plus, InTransit,
     Goods, SheetTyped
<1>3. \A v, c, b, o, r, m, u, all \in Nat :
          u <= r /\ v + c + b + o + r + m = all + u =>
              /\ v + c \in 0..all /\ m \in 0..all /\ o \in 0..all
              /\ b + r - u \in 0..all
  OBVIOUS
<1>4. StartGold + OtherGold \in Nat
  OBVIOUS
<1>5. /\ Visible.gold + carried.gold \in 0..(StartGold + OtherGold)
      /\ SumFunction(Moved) \in 0..(StartGold + OtherGold)
      /\ otherGold \in 0..(StartGold + OtherGold)
      /\ balance + SumFunction(Reserved) - SumFunction(Unpaid) \in 0..(StartGold + OtherGold)
  BY <1>1, <1>3, <1>4 DEF SheetTyped, GoldConserved
<1>6. {PlayerGoods, TransitGoods, VaultGoods, OtherGoods} \subseteq Ledger!Goods
  BY <1>2, <1>5 DEF PlayerGoods, TransitGoods, VaultGoods, OtherGoods, Hold, Plus, Ledger!Goods
<1> QED
  BY <1>1, <1>6 DEF Holders, SheetTyped

LEMMA HoldersHaveNext == Accounts' => Holders'
  BY HoldersHave, PTL
----------------------------------------------------------------------------
\* What the ledger sees of a step that changes no ticket that is on its way.
Seen == <<PlayerGoods, TransitGoods, VaultGoods, OtherGoods, Stages, Loads>>

LEMMA SeenIsLedger == UNCHANGED Seen => UNCHANGED Ledger!lvars
  BY DEF Seen, Ledger!lvars

\* The stage of a transfer follows its ticket and its write.
LEMMA StageStays ==
    ASSUME TypeOK, TypeOK', NEW t \in Txn,
           status'[t] = status[t] \/ (Open(t) /\ Open(t)'),
           status[t] # "none" => req'[t] = req[t],
           writes'[t] > 0 <=> writes[t] > 0,
           parcel'[t] = parcel[t]
    PROVE  Stages'[t] = Stages[t] /\ Loads'[t] = Loads[t]
<1>1. Stage(t)' = Stage(t)
  BY DEF Stage, Open
<1>2. (status'[t] # "none" /\ IsDeposit(t)') <=> (status[t] # "none" /\ IsDeposit(t))
  BY DEF IsDeposit, Open
<1> QED
  BY <1>1, <1>2 DEF Stages, Loads

\* The tickets and the holders outside the page of a step that touches neither.
LEMMA ServiceUnseen ==
    ASSUME TypeOK, TypeOK', UNCHANGED serviceVars,
           \A t \in Txn : /\ status[t] # "none" => req'[t] = req[t]
                          /\ writes[t] > 0 \/ writes'[t] > 0 => req'[t] = req[t]
                          /\ writes'[t] = writes[t]
    PROVE  UNCHANGED <<TransitGoods, VaultGoods, OtherGoods, Stages, Loads>>
<1>1. ASSUME NEW t \in Txn
      PROVE  /\ Stages'[t] = Stages[t] /\ Loads'[t] = Loads[t]
             /\ DepositInTransit(t)' <=> DepositInTransit(t)
             /\ ClaimPlaced(t)' <=> ClaimPlaced(t)
  <2>1. status'[t] = status[t] /\ parcel'[t] = parcel[t]
    OBVIOUS
  <2>2. Stages'[t] = Stages[t] /\ Loads'[t] = Loads[t]
    BY <2>1, StageStays
  <2> QED
    BY <2>1, <2>2 DEF DepositInTransit, ClaimPlaced, IsDeposit
<1>2. Stages' = Stages /\ Loads' = Loads
  BY <1>1 DEF Stages, Loads
<1>3. Moved' = Moved /\ Unpaid' = Unpaid /\ Reserved' = Reserved
  BY <1>1 DEF Moved, Unpaid, Reserved
<1>4. InTransit' = InTransit /\ OnPage' = OnPage
  BY <1>1 DEF InTransit, OnPage
<1>5. TransitGoods' = TransitGoods
  BY <1>3, <1>4 DEF TransitGoods
<1>6. VaultGoods' = VaultGoods
  BY <1>3, <1>4 DEF VaultGoods
<1>7. OtherGoods' = OtherGoods
  BY DEF OtherGoods
<1> QED
  BY <1>2, <1>5, <1>6, <1>7

\* What was delivered is reserved until the delivery is recorded.
LEMMA OnPageClaims == Accounts => \A i \in OnPage : i \in Item /\ state[i] = "claiming"
<1> SUFFICES ASSUME Accounts, NEW i \in OnPage PROVE i \in Item /\ state[i] = "claiming"
  OBVIOUS
<1>1. PICK t \in Txn : i \in Item /\ ClaimPlaced(t) /\ i \in parcel[t].items
  BY DEF OnPage
<1>2. Open(t) /\ ~IsDeposit(t)
  BY <1>1, OneOnItsWay DEF ClaimPlaced
<1> QED
  BY <1>1, <1>2 DEF Accounts, Whereabouts, Parcels

LEMMA OnPageClaimsNext == Accounts' => (\A i \in OnPage : i \in Item /\ state[i] = "claiming")'
  BY OnPageClaims, PTL

\* A settlement of custody is one of the ledger: it is made on the goods the
\* Vault holds, and the gold that changes hands goes one way.
LEMMA SettleSettles ==
    ASSUME Accounts, Accounts', NEW held, NEW asked, NEW gold \in Nat,
           Settle(held, asked, gold),
           NEW goods \in [items : SUBSET Item, gold : Nat],
           goods.items = {i \in Item : held[i] \in {"listed", "available", "claiming"}}
                             \ OnPage',
           \A i \in OnPage' : held[i] \notin Tradable,
           \A i \in Item : held[i] = "outside" <=> state[i] = "outside",
           NEW spare \in Nat, goods.gold = gold + spare,
           SumFunction(Reserved') - SumFunction(Unpaid') = spare
    PROVE  \E out, in \in Ledger!Goods : Ledger!Settle(goods, out, in)
<1>1. Holders /\ Holders'
  BY HoldersHave, HoldersHaveNext
<1>2. PICK out \in SUBSET {i \in Item : held[i] \in Tradable},
           in  \in SUBSET {i \in Item : held[i] = "outside"},
           kept \in 0..(gold + otherGold) :
              /\ kept # gold => out \cup in # {}
              /\ \A i \in out \cap foreign : held[i] # "listed"
              /\ state' = [i \in Item |-> IF i \in out THEN "outside"
                                        ELSE IF i \in in THEN "available" ELSE held[i]]
              /\ requested' = (asked \cup in) \ out
              /\ foreign' = foreign \ out
              /\ balance' = kept
              /\ otherGold' = gold + otherGold - kept
  BY DEF Settle
<1> DEFINE paid == IF kept <= gold THEN gold - kept ELSE 0
           got  == IF kept <= gold THEN 0 ELSE kept - gold
           O == [items |-> out, gold |-> paid]
           I == [items |-> in, gold |-> got]
<1>3. /\ paid \in Nat /\ got \in Nat /\ kept = gold - paid + got
      /\ paid <= gold /\ got <= otherGold /\ kept \in Nat
  BY <1>1, <1>2 DEF Holders
<1>4. O \in Ledger!Goods /\ I \in Ledger!Goods
  <2>1. out \subseteq Item /\ in \subseteq Item
    BY <1>2
  <2>2. otherGold' \in 0..(StartGold + OtherGold) /\ otherGold \in 0..(StartGold + OtherGold)
    BY <1>1 DEF Holders, OtherGoods, Hold, Ledger!Goods
  <2>3. paid <= otherGold' /\ got <= otherGold
    BY <1>1, <1>2, <1>3 DEF Holders
  <2>4. paid \in 0..(StartGold + OtherGold) /\ got \in 0..(StartGold + OtherGold)
    BY <1>3, <2>2, <2>3
  <2> QED
    BY <2>1, <2>4 DEF Ledger!Goods
<1>5. Ledger!Within(O, goods)
  <2>1. out \subseteq goods.items
    BY <1>2 DEF Tradable
  <2>2. paid <= goods.gold
    BY <1>3
  <2> QED
    BY <2>1, <2>2 DEF Ledger!Within
<1>6. Ledger!Within(I, OtherGoods)
  <2>1. in \subseteq OtherGoods.items
    BY <1>2 DEF OtherGoods, Hold
  <2> QED
    BY <1>3, <2>1 DEF Ledger!Within, OtherGoods, Hold
<1>7. VaultGoods' = Ledger!Plus(Ledger!Minus(goods, O), I)
  <2>1. \A i \in OnPage' : state'[i] = "claiming"
    BY OnPageClaimsNext
  <2>2. in \cap OnPage' = {}
    BY <1>2, <2>1 DEF Tradable
  <2>3. VaultGoods'.items = (goods.items \ out) \cup in
    BY <1>2, <2>2 DEF VaultGoods, Hold, Tradable
  <2>4. VaultGoods'.gold = goods.gold - paid + got
    BY <1>1, <1>2, <1>3 DEF VaultGoods, Hold, Holders
  <2> QED
    BY <2>3, <2>4 DEF VaultGoods, Hold, Ledger!Plus, Ledger!Minus
<1>8. OtherGoods' = Ledger!Plus(Ledger!Minus(OtherGoods, I), O)
  <2>1. OtherGoods'.items = (OtherGoods.items \ in) \cup out
    BY <1>2 DEF OtherGoods, Hold, Tradable
  <2>2. otherGold' = otherGold - got + paid
    BY <1>1, <1>2, <1>3 DEF Holders
  <2> QED
    BY <2>1, <2>2 DEF OtherGoods, Hold, Ledger!Plus, Ledger!Minus
<1> QED
  BY <1>4, <1>5, <1>6, <1>7, <1>8 DEF Ledger!Settle
----------------------------------------------------------------------------
\* A step on one ticket changes its stage alone.
LEMMA OneStage ==
    ASSUME TypeOK, TypeOK', NEW t \in Txn, UNCHANGED req,
           \A u \in Txn : u # t => /\ status'[u] = status[u] /\ writes'[u] = writes[u]
                                  /\ parcel'[u] = parcel[u]
    PROVE  /\ Stages' = [Stages EXCEPT ![t] = Stage(t)']
           /\ Loads' = [Loads EXCEPT ![t] = [goods |-> parcel'[t],
                                             deposit |-> status'[t] # "none" /\ IsDeposit(t)]]
<1>1. \A u \in Txn : u # t => Stages'[u] = Stages[u] /\ Loads'[u] = Loads[u]
  BY StageStays
<1>2. Stages'[t] = Stage(t)'
  BY DEF Stages
<1>3. Loads'[t] = [goods |-> parcel'[t], deposit |-> status'[t] # "none" /\ IsDeposit(t)]
  BY DEF Loads, IsDeposit
<1>4. Stages' = [Stages EXCEPT ![t] = Stage(t)']
  BY <1>1, <1>2 DEF Stages
<1>5. Loads' = [Loads EXCEPT ![t] = [goods |-> parcel'[t],
                                     deposit |-> status'[t] # "none" /\ IsDeposit(t)]]
  BY <1>1, <1>3 DEF Loads
<1> QED
  BY <1>4, <1>5

\* The page is replaced: a deposit is taken, a claim is delivered, or the page
\* had been replaced before.
LEMMA LedgerWrite ==
    ASSUME Accounts, Accounts', WritePage
    PROVE  UNCHANGED Seen \/ \E t \in Txn : Ledger!Take(t) \/ Ledger!Deliver(t)
<1> USE DEF Accounts, Whereabouts, Exclusion, Position, Structure, TypeOK, AgentFollows
<1>1. /\ pointer \in Txn /\ img[pointer] # None
      /\ phase[pointer] = "applying" /\ status[pointer] = "writing"
      /\ Distinct(pointer) /\ ~Loaded
  BY DEF WritePage, Journaled, Tickets, Settled, PageHeld, Gated, Accessible, Loaded
<1>2. /\ UNCHANGED <<game, mem, carried, req, serviceVars>>
      /\ \A t \in Txn : t # pointer => writes'[t] = writes[t]
  BY AgentFrame DEF WritePage, AgentStep
<1>3. Visible = page /\ Visible' = page'
  BY <1>1, <1>2 DEF Visible, Loaded
<1>4. CASE page = img[pointer].after \/ ~PageMatches(pointer)
  <2>1. UNCHANGED <<page, writes>>
    BY <1>1, <1>4 DEF WritePage, Distinct
  <2>2. UNCHANGED <<TransitGoods, VaultGoods, OtherGoods, Stages, Loads>>
    BY <1>2, <2>1, ServiceUnseen
  <2>3. PlayerGoods' = PlayerGoods
    BY <1>2, <1>3, <2>1 DEF PlayerGoods
  <2> QED
    BY <2>2, <2>3 DEF Seen
<1>5. CASE page = img[pointer].before /\ PageMatches(pointer)
  <2>0. PICK t \in Txn : t = pointer /\ pointer' = t
    BY <1>1 DEF WritePage
  <2>1. writes[t] = 0
    BY <1>1, <2>0, <1>5, <2>0 DEF OnImages, Settled, Distinct
  <2>2. page' = img[t].after /\ writes'[t] = 1
    BY <1>1, <2>0, <1>5, <2>1 DEF WritePage
  <2>3. /\ Stages' = [Stages EXCEPT ![t] = Stage(t)'] /\ Loads' = Loads
        /\ Stages[t] = "open" /\ Stage(t)' = "moved"
        /\ Loads[t].goods = parcel[t] /\ (Loads[t].deposit <=> IsDeposit(t))
    <3>1. Stages' = [Stages EXCEPT ![t] = Stage(t)']
      BY <1>1, <2>0, <1>2, OneStage
    <3>2. Loads' = Loads
      BY <1>2 DEF Loads, IsDeposit
    <3>3. Stages[t] = "open" /\ Stage(t)' = "moved"
      BY <1>1, <2>0, <1>2, <2>1, <2>2 DEF Stages, Stage
    <3>4. Loads[t].goods = parcel[t] /\ (Loads[t].deposit <=> IsDeposit(t))
      BY <1>1, <2>0 DEF Loads
    <3> QED
      BY <3>1, <3>2, <3>3, <3>4
  <2>4. \A u \in Txn : ~DepositInTransit(u) /\ ~ClaimPlaced(u)
    <3>1. Open(t) /\ ~DepositInTransit(t) /\ ~ClaimPlaced(t)
      BY <1>1, <2>0, <2>1 DEF Open, DepositInTransit, ClaimPlaced
    <3> QED
      BY <1>1, <2>0, <3>1, OneOnItsWay DEF OneOpenTicket
  <2>5. TransitGoods = Nothing /\ OnPage = {} /\ SumFunction(Unpaid) = 0
    <3>1. TransitGoods = Nothing /\ OnPage = {}
      BY <2>4, Flows DEF Flow
    <3>2. \A u \in Txn : Unpaid[u] = 0
      BY <2>4 DEF Unpaid
    <3>3. IsFiniteSet(Txn) /\ Unpaid \in [Txn -> Int]
      BY SheetTypes DEF SheetTyped
    <3> QED
      BY <3>1, <3>2, <3>3, SumZero
  <2>6. UNCHANGED OtherGoods /\ Reserved' = Reserved
    BY <1>2 DEF OtherGoods, Reserved
  <2>7. parcel[t] \in Goods /\ page \in Goods /\ carried \in Goods
    OBVIOUS
  <2>8. CASE IsDeposit(t)
    <3>1. /\ parcel[t].items \subseteq page.items
          /\ page'.items = page.items \ parcel[t].items
          /\ parcel[t].gold <= page.gold /\ page'.gold = page.gold - parcel[t].gold
      BY <1>1, <2>0, <1>5, <2>2, <2>8
         DEF Images, Taken, Parcels, GoldMoved, TakenGold, ParcelGold, IsDeposit
    <3>2. page.items \cap carried.items = {}
      BY <1>3, <2>7 DEF Located, Goods
    <3>3. Ledger!Within(parcel[t], PlayerGoods)
      BY <1>3, <2>7, <3>1 DEF Ledger!Within, PlayerGoods, Plus, Goods
    <3>4. PlayerGoods' = Ledger!Minus(PlayerGoods, parcel[t])
      <4>1. PlayerGoods'.items = PlayerGoods.items \ parcel[t].items
        BY <1>2, <1>3, <3>1, <3>2 DEF PlayerGoods, Plus
      <4>2. PlayerGoods'.gold = PlayerGoods.gold - parcel[t].gold
        BY <1>2, <1>3, <2>7, <3>1 DEF PlayerGoods, Plus, Goods
      <4> QED
        BY <4>1, <4>2 DEF PlayerGoods, Plus, Ledger!Minus
    <3>5. DepositInTransit(t)' /\ \A u \in Txn : ~ClaimPlaced(u)'
      BY <1>1, <2>0, <1>2, <2>2, <2>4, <2>8 DEF DepositInTransit, ClaimPlaced, IsDeposit
    <3>6. TransitGoods' = parcel[t]
      BY <1>1, <2>0, <1>2, <3>5, FlowsNext DEF Flow
    <3>7. VaultGoods' = VaultGoods
      <4>1. OnPage' = OnPage
        BY <2>5, <3>5, FlowsNext DEF Flow
      <4>2. Unpaid' = Unpaid
        BY <2>4, <3>5 DEF Unpaid
      <4> QED
        BY <1>2, <2>6, <4>1, <4>2 DEF VaultGoods
    <3> QED
      BY <1>1, <2>0, <2>3, <2>6, <2>8, <3>3, <3>4, <3>6, <3>7 DEF Ledger!Take
  <2>9. CASE ~IsDeposit(t)
    <3>1. /\ page'.items = page.items \cup parcel[t].items
          /\ page'.gold = page.gold + parcel[t].gold
      BY <1>1, <2>0, <1>5, <2>2, <2>9 DEF Images, Placed, GoldMoved, PlacedGold
    <3>2. ClaimPlaced(t)' /\ \A u \in Txn : ~DepositInTransit(u)'
      BY <1>1, <2>0, <1>2, <2>2, <2>4, <2>9 DEF DepositInTransit, ClaimPlaced, IsDeposit
    <3>3. OnPage' = parcel[t].items /\ TransitGoods' = Nothing
      BY <1>1, <2>0, <1>2, <3>2, FlowsNext DEF Flow
    <3>4. SumFunction(Unpaid') = parcel[t].gold
      <4>1. \A u \in Txn : u # t => Unpaid'[u] = 0
        BY <1>2, <2>0, <2>4 DEF Unpaid, ClaimPlaced, IsDeposit
      <4>2. Unpaid'[t] = parcel[t].gold
        BY <1>1, <2>0, <1>2, <3>2 DEF Unpaid
      <4>3. IsFiniteSet(Txn) /\ Unpaid' \in [Txn -> Int]
        BY SheetTypesNext DEF SheetTyped
      <4> QED
        BY <1>1, <2>0, <4>1, <4>2, <4>3, SumSingle
    <3>5. /\ balance \in Nat /\ SumFunction(Reserved) \in Nat
          /\ parcel[t].gold <= SumFunction(Reserved)
      BY <2>6, <3>4, HoldersHave, HoldersHaveNext DEF Holders
    <3>6. Ledger!Within(parcel[t], VaultGoods)
      <4>1. parcel[t].items \subseteq VaultGoods.items
        BY <1>1, <2>0, <2>5, <2>7, <2>9 DEF Parcels, Open, VaultGoods, Hold, Goods
      <4>2. parcel[t].gold <= VaultGoods.gold
        BY <2>5, <2>7, <3>5 DEF VaultGoods, Hold, Goods
      <4> QED
        BY <4>1, <4>2 DEF Ledger!Within
    <3>7. VaultGoods' = Ledger!Minus(VaultGoods, parcel[t])
      <4>1. VaultGoods'.items = VaultGoods.items \ parcel[t].items
        BY <1>2, <2>5, <3>3 DEF VaultGoods, Hold
      <4>2. VaultGoods'.gold = VaultGoods.gold - parcel[t].gold
        BY <1>2, <2>5, <2>6, <2>7, <3>4, <3>5 DEF VaultGoods, Hold, Goods
      <4> QED
        BY <4>1, <4>2 DEF VaultGoods, Hold, Ledger!Minus
    <3>8. PlayerGoods' = Ledger!Plus(PlayerGoods, parcel[t])
      <4>1. PlayerGoods'.items = PlayerGoods.items \cup parcel[t].items
        BY <1>2, <1>3, <3>1 DEF PlayerGoods, Plus
      <4>2. PlayerGoods'.gold = PlayerGoods.gold + parcel[t].gold
        BY <1>2, <1>3, <2>7, <3>1 DEF PlayerGoods, Plus, Goods
      <4> QED
        BY <4>1, <4>2 DEF PlayerGoods, Plus, Ledger!Plus
    <3> QED
      BY <1>1, <2>0, <2>3, <2>5, <2>6, <2>9, <3>3, <3>6, <3>7, <3>8 DEF Ledger!Deliver
  <2> QED
    BY <2>8, <2>9
<1> QED
  BY <1>4, <1>5 DEF PageMatches

----------------------------------------------------------------------------
\* A request moves nothing of the player's.
LEMMA ServeKeepsPlayer ==
    ASSUME TypeOK, NEW t \in Txn, Serve(t)
    PROVE  /\ UNCHANGED <<page, game, mem, carried, req, writes>>
           /\ PlayerGoods' = PlayerGoods
  BY ServiceFrame DEF PlayerGoods, Visible, Loaded

\* The flow of a step that leaves it as it was.
LEMMA SameFlow ==
    ASSUME TypeOK, TypeOK',
           \A t \in Txn : writes[t] > 0 \/ writes'[t] > 0 =>
               /\ req'[t] = req[t] /\ writes'[t] = writes[t]
               /\ status'[t] = "committed" <=> status[t] = "committed"
               /\ parcel'[t] = parcel[t]
    PROVE  UNCHANGED <<TransitGoods, OnPage, SumFunction(Unpaid)>>
<1>1. Moved' = Moved /\ Unpaid' = Unpaid
  BY TransitStays
<1>2. ASSUME NEW t \in Txn
      PROVE  /\ DepositInTransit(t)' <=> DepositInTransit(t)
             /\ ClaimPlaced(t)' <=> ClaimPlaced(t)
             /\ DepositInTransit(t) \/ ClaimPlaced(t) => parcel'[t] = parcel[t]
  BY DEF DepositInTransit, ClaimPlaced, IsDeposit
<1>3. InTransit' = InTransit /\ OnPage' = OnPage
  BY <1>2 DEF InTransit, OnPage
<1>4. UNION {parcel'[t].items : t \in InTransit'} = UNION {parcel[t].items : t \in InTransit}
  BY <1>2, <1>3 DEF InTransit
<1> QED
  BY <1>1, <1>3, <1>4 DEF TransitGoods

\* A ticket is prepared: the transfer begins, and a delivery names what the Vault
\* holds.
LEMMA LedgerBegin ==
    ASSUME Accounts, Accounts', NEW t \in Txn, Serve(t),
           AdmitDeposit(t) \/ ReserveItems(t) \/ ReserveWithdrawal(t)
    PROVE  \E l \in Ledger!Load : Ledger!Begin(t, l)
<1> USE DEF Accounts, Whereabouts, Exclusion, Position, Structure, TypeOK
<1>1. /\ UNCHANGED <<page, game, mem, carried, req, writes, balance, otherGold, remaining>>
      /\ PlayerGoods' = PlayerGoods
  BY ServeKeepsPlayer DEF AdmitDeposit, ReserveItems, ReserveWithdrawal
<1>2. /\ status[t] = "none" /\ NoPending /\ status'[t] = "prepared"
      /\ \A u \in Txn : u # t => status'[u] = status[u] /\ parcel'[u] = parcel[u]
  BY DEF AdmitDeposit, ReserveItems, ReserveWithdrawal, Accepts
<1>3. \A u \in Txn : status[u] \in {"none", "prepared", "cancelled"} => writes[u] = 0
  BY OncePerTicket DEF WrittenOnce
<1>4. /\ Stages' = [Stages EXCEPT ![t] = "open"] /\ Stages[t] = "none"
      /\ \A u \in Txn : Stages[u] \notin {"open", "moved"}
  <2>1. Stages' = [Stages EXCEPT ![t] = Stage(t)']
    BY <1>1, <1>2, OneStage
  <2>2. Stage(t)' = "open" /\ Stages[t] = "none"
    BY <1>1, <1>2, <1>3 DEF Stages, Stage
  <2>3. \A u \in Txn : Stage(u) \notin {"open", "moved"}
    BY <1>2 DEF Stage, NoPending, Open, Statuses
  <2> QED
    BY <2>1, <2>2, <2>3 DEF Stages
<1>5. /\ Loads' = [Loads EXCEPT ![t] = Loads'[t]] /\ Loads'[t].goods = parcel'[t]
      /\ Loads'[t].deposit \in BOOLEAN /\ (Loads'[t].deposit <=> IsDeposit(t))
      /\ Loads'[t] = [goods |-> parcel'[t], deposit |-> Loads'[t].deposit]
  <2>1. Loads' = [Loads EXCEPT ![t] = [goods |-> parcel'[t],
                                       deposit |-> status'[t] # "none" /\ IsDeposit(t)]]
    BY <1>1, <1>2, OneStage
  <2> QED
    BY <1>2, <2>1 DEF Loads
<1>6. UNCHANGED <<TransitGoods, OnPage, SumFunction(Unpaid)>>
  BY <1>1, <1>2, <1>3, SameFlow
<1>7. OnPage = {} /\ SumFunction(Unpaid) = 0
  <2>1. \A u \in Txn : ~ClaimPlaced(u)
    BY <1>2, OneOnItsWay DEF NoPending
  <2>2. \A u \in Txn : Unpaid[u] = 0
    BY <2>1 DEF Unpaid
  <2>3. IsFiniteSet(Txn) /\ Unpaid \in [Txn -> Int]
    BY SheetTypes DEF SheetTyped
  <2> QED
    BY <2>1, <2>2, <2>3, Flows, SumZero DEF Flow
<1>8. Reserved' = Reserved
  <2>1. CASE AdmitDeposit(t) \/ ReserveItems(t)
    BY <2>1 DEF AdmitDeposit, ReserveItems, Reserved
  <2>2. CASE ReserveWithdrawal(t)
    <3>1. /\ wd[req[t].wid] = "queued" /\ UNCHANGED remaining
          /\ wd' = [wd EXCEPT ![req[t].wid] = "delivering"]
      BY <2>2 DEF ReserveWithdrawal, Accepts
    <3> QED
      BY <3>1 DEF Reserved
  <2> QED
    BY <2>1, <2>2
<1>9. VaultGoods' = VaultGoods /\ OtherGoods' = OtherGoods
  <2>1. \A i \in Item : /\ state'[i] \in {"listed", "available", "claiming"}
                              <=> state[i] \in {"listed", "available", "claiming"}
                        /\ state'[i] = "outside" <=> state[i] = "outside"
    BY DEF AdmitDeposit, ReserveItems, ReserveWithdrawal, Ready
  <2> QED
    BY <1>1, <1>6, <1>8, <2>1 DEF VaultGoods, OtherGoods, Hold
<1>10. /\ parcel'[t] \in Ledger!Goods
       /\ ~IsDeposit(t) => Ledger!Within(parcel'[t], VaultGoods)
  <2>1. CASE AdmitDeposit(t)
    <3>1. parcel'[t] = req[t].goods /\ img[t] # None /\ IsDeposit(t)
      BY <2>1 DEF AdmitDeposit, IsDeposit, Requests, WellFormed
    <3>2. /\ req[t].goods \in Goods /\ img[t].before.gold \in Nat
          /\ req[t].goods.gold <= img[t].before.gold
          /\ img[t].before.gold <= StartGold + OtherGold
      BY <3>1 DEF Request, Image, Goods, GoldMoved, TakenGold, IsDeposit
    <3>3. req[t].goods.gold \in 0..(StartGold + OtherGold)
      BY <3>2 DEF Goods
    <3> QED
      BY <3>1, <3>2, <3>3 DEF Goods, Ledger!Goods
  <2>2. CASE ReserveItems(t)
    <3>1. parcel'[t] = [items |-> Ready(t), gold |-> 0]
      BY <2>2 DEF ReserveItems
    <3>2. Ready(t) \subseteq VaultGoods.items
      BY <1>7 DEF VaultGoods, Hold, Ready, Request, Goods
    <3>3. VaultGoods \in Ledger!Goods
      BY HoldersHave DEF Holders
    <3> QED
      BY <3>1, <3>2, <3>3 DEF Ledger!Goods, Ledger!Within
  <2>3. CASE ReserveWithdrawal(t)
    <3> DEFINE w == req[t].wid
    <3>1. /\ parcel'[t] = [items |-> {}, gold |-> Payable(t)]
          /\ wd[w] = "queued" /\ w \in Wid
      BY <2>3 DEF ReserveWithdrawal, Accepts, Requests, WellFormed
    <3>2. Payable(t) <= Reserved[w] /\ Payable(t) \in Nat
      BY <3>1 DEF Payable, Lesser, Reserved, Request, Goods
    <3>3. Reserved[w] <= SumFunction(Reserved) /\ Reserved[w] \in Nat
      BY <3>1, SheetTypes, SumNat DEF SheetTyped
    <3>4. VaultGoods \in Ledger!Goods /\ balance \in Nat /\ SumFunction(Reserved) \in Nat
      BY HoldersHave DEF Holders
    <3>5. VaultGoods.gold = balance + SumFunction(Reserved)
      BY <1>7, <3>4 DEF VaultGoods, Hold
    <3> HIDE DEF w
    <3>6. Payable(t) <= VaultGoods.gold
      BY <3>2, <3>3, <3>4, <3>5
    <3> QED
      BY <3>1, <3>2, <3>4, <3>6 DEF Ledger!Goods, Ledger!Within
  <2> QED
    BY <2>1, <2>2, <2>3
<1> QED
  BY <1>1, <1>4, <1>5, <1>6, <1>9, <1>10
     DEF Ledger!Begin, Ledger!Load, Ledger!Active

----------------------------------------------------------------------------
\* What the Vault holds for the player: what is spendable and what is reserved
\* for deliveries that are not made.
LEMMA Spare ==
    Accounts => /\ SumFunction(Reserved) - SumFunction(Unpaid) \in Nat
                /\ VaultGoods.gold = balance + (SumFunction(Reserved) - SumFunction(Unpaid))
<1> SUFFICES ASSUME Holders
             PROVE  /\ SumFunction(Reserved) - SumFunction(Unpaid) \in Nat
                    /\ VaultGoods.gold = balance + (SumFunction(Reserved) - SumFunction(Unpaid))
  BY HoldersHave
<1>1. \A b, r, u \in Nat : u <= r => r - u \in Nat /\ b + r - u = b + (r - u)
  OBVIOUS
<1> QED
  BY <1>1 DEF Holders, VaultGoods, Hold

LEMMA VaultIsGoods == Accounts => VaultGoods \in [items : SUBSET Item, gold : Nat]
  BY HoldersHave DEF Holders, Ledger!Goods

\* A prepared ticket is cancelled: its goods stay in the Vault.
LEMMA LedgerVoid ==
    ASSUME Accounts, Accounts', NEW t \in Txn, Serve(t), ServeCancel(t)
    PROVE  \E out, in \in Ledger!Goods : Ledger!Void(t, out, in)
<1> USE DEF Accounts, Whereabouts, Exclusion, Position, Structure, TypeOK
<1>1. UNCHANGED <<page, game, mem, carried, req, writes>> /\ PlayerGoods' = PlayerGoods
  BY ServeKeepsPlayer
<1>2. /\ status[t] = "prepared" /\ status'[t] = "cancelled" /\ UNCHANGED <<parcel, remaining>>
      /\ \A u \in Txn : u # t => status'[u] = status[u]
      /\ wd' = [w \in Wid |-> IF req[t].wid = w THEN "queued" ELSE wd[w]]
  BY DEF ServeCancel, Cancellable
<1>3. \A u \in Txn : status[u] \in {"none", "prepared", "cancelled"} => writes[u] = 0
  BY OncePerTicket DEF WrittenOnce
<1>4. Stages' = [Stages EXCEPT ![t] = "void"] /\ Stages[t] = "open"
  <2>1. Stages' = [Stages EXCEPT ![t] = Stage(t)']
    BY <1>1, <1>2, OneStage
  <2>2. Stage(t)' = "void" /\ Stages[t] = "open"
    BY <1>2, <1>3 DEF Stages, Stage
  <2> QED
    BY <2>1, <2>2
<1>5. Loads' = Loads
  <2>1. \A u \in Txn : status'[u] # "none" <=> status[u] # "none"
    BY <1>2
  <2> QED
    BY <1>1, <1>2, <2>1 DEF Loads, IsDeposit
<1>6. UNCHANGED <<TransitGoods, OnPage, SumFunction(Unpaid)>>
  BY <1>1, <1>2, <1>3, SameFlow
<1>7. Reserved' = Reserved
  <2>1. ASSUME NEW w \in Wid PROVE Reserved'[w] = Reserved[w]
    <3>1. req[t].wid = w => wd[w] = "delivering"
      BY <1>2 DEF Reservations, Open, Requests, WellFormed
    <3> QED
      BY <1>2, <3>1 DEF Reserved
  <2> QED
    BY <2>1 DEF Reserved
<1> DEFINE held == [i \in Item |-> IF ~IsDeposit(t) /\ i \in parcel[t].items
                                  THEN "available" ELSE state[i]]
<1>8. Settle(held, requested, balance)
  BY DEF ServeCancel
<1>9. ~IsDeposit(t) => \A i \in parcel[t].items : state[i] = "claiming"
  BY <1>2 DEF Parcels, Open
<1>10. \A i \in OnPage' : held[i] \notin Tradable
  <2>1. ASSUME NEW i \in OnPage' PROVE held[i] = "claiming"
    <3>1. i \in OnPage /\ i \in Item /\ state[i] = "claiming"
      BY <1>6, <2>1, OnPageClaims
    <3>2. ~ (~IsDeposit(t) /\ i \in parcel[t].items)
      <4>1. PICK u \in Txn : ClaimPlaced(u)
        BY <3>1 DEF OnPage
      <4>2. Open(u) /\ Open(t)
        BY <1>2, <4>1, OneOnItsWay DEF Open
      <4>3. u = t
        BY <4>2 DEF OneOpenTicket
      <4> QED
        BY <1>2, <1>3, <4>1, <4>3 DEF ClaimPlaced
    <3> QED
      BY <3>1, <3>2
  <2> QED
    BY <2>1 DEF Tradable
<1>11. VaultGoods.items = {i \in Item : held[i] \in {"listed", "available", "claiming"}} \ OnPage'
  BY <1>6, <1>9 DEF VaultGoods, Hold
<1>12. \A i \in Item : held[i] = "outside" <=> state[i] = "outside"
  BY <1>9
<1> HIDE DEF held
<1>13. \E out, in \in Ledger!Goods : Ledger!Settle(VaultGoods, out, in)
  <2>1. SumFunction(Reserved') - SumFunction(Unpaid') = SumFunction(Reserved) - SumFunction(Unpaid)
    BY <1>6, <1>7
  <2>2. balance \in Nat
    OBVIOUS
  <2> QED
    BY <1>8, <1>10, <1>11, <1>12, <2>1, <2>2, SettleSettles, Spare, VaultIsGoods
<1> QED
  BY <1>1, <1>4, <1>5, <1>6, <1>13 DEF Ledger!Void

\* A ticket whose write is made is committed: its transfer is done.
LEMMA LedgerDone ==
    ASSUME Accounts, Accounts', NEW t \in Txn, Serve(t),
           CommitDeposit(t) \/ CommitClaim(t)
    PROVE  /\ writes[t] = 1 /\ Open(t) /\ UNCHANGED parcel
           /\ Stages' = [Stages EXCEPT ![t] = "done"] /\ Stages[t] = "moved"
           /\ Loads' = Loads /\ (Loads[t].deposit <=> IsDeposit(t))
           /\ \A u \in Txn : ~DepositInTransit(u)' /\ ~ClaimPlaced(u)'
           /\ TransitGoods' = Nothing /\ OnPage' = {} /\ SumFunction(Unpaid') = 0
<1> USE DEF Accounts, Whereabouts, Exclusion, Position, Structure, TypeOK
<1>1. UNCHANGED <<page, game, mem, carried, req, writes>>
  BY ServeKeepsPlayer
<1>2. /\ status[t] = "writing" /\ status'[t] = "committed" /\ UNCHANGED parcel
      /\ \A u \in Txn : u # t => status'[u] = status[u]
  BY DEF CommitDeposit, CommitClaim, Committable
<1>3. writes[t] = 1 /\ Open(t)
  BY <1>2, CommitFollowsWrite DEF CommitDeposit, CommitClaim, Open
<1>4. Stages' = [Stages EXCEPT ![t] = "done"] /\ Stages[t] = "moved"
  <2>1. Stages' = [Stages EXCEPT ![t] = Stage(t)']
    BY <1>1, <1>2, OneStage
  <2>2. Stage(t)' = "done" /\ Stages[t] = "moved"
    BY <1>2, <1>3 DEF Stages, Stage
  <2> QED
    BY <2>1, <2>2
<1>5. Loads' = Loads
  <2>1. \A u \in Txn : status'[u] # "none" <=> status[u] # "none"
    BY <1>2
  <2> QED
    BY <1>1, <1>2, <2>1 DEF Loads, IsDeposit
<1>6. Loads[t].deposit <=> IsDeposit(t)
  BY <1>2 DEF Loads
<1>7. \A u \in Txn : ~DepositInTransit(u)' /\ ~ClaimPlaced(u)'
  <2>1. \A u \in Txn : u # t => ~DepositInTransit(u) /\ ~ClaimPlaced(u)
    BY <1>2, <1>3, OneOnItsWay DEF DepositInTransit, ClaimPlaced
  <2> QED
    BY <1>1, <1>2, <2>1 DEF DepositInTransit, ClaimPlaced, IsDeposit
<1>8. TransitGoods' = Nothing /\ OnPage' = {}
  BY <1>7, FlowsNext DEF Flow
<1>9. SumFunction(Unpaid') = 0
  <2>1. \A u \in Txn : Unpaid'[u] = 0
    BY <1>7 DEF Unpaid
  <2>2. IsFiniteSet(Txn) /\ Unpaid' \in [Txn -> Int]
    BY SheetTypesNext DEF SheetTyped
  <2> QED
    BY <2>1, <2>2, SumZero
<1> QED
  BY <1>2, <1>3, <1>4, <1>5, <1>6, <1>7, <1>8, <1>9

\* A deposit is committed: the Vault receives what was taken.
LEMMA LedgerCredit ==
    ASSUME Accounts, Accounts', NEW t \in Txn, Serve(t), CommitDeposit(t)
    PROVE  \E out, in \in Ledger!Goods : Ledger!Credit(t, out, in)
<1> USE DEF Accounts, Whereabouts, Exclusion, Position, Structure, TypeOK
<1>1. PlayerGoods' = PlayerGoods
  BY ServeKeepsPlayer
<1>2. IsDeposit(t) /\ UNCHANGED <<wd, remaining>> /\ Committable(t)
  BY DEF CommitDeposit
<1>3. /\ Stages' = [Stages EXCEPT ![t] = "done"] /\ Stages[t] = "moved"
      /\ Loads' = Loads /\ Loads[t].deposit
      /\ TransitGoods' = Nothing /\ OnPage' = {} /\ SumFunction(Unpaid') = 0
  BY <1>2, LedgerDone
<1>4. DepositInTransit(t) /\ \A u \in Txn : ~ClaimPlaced(u)
  <2>1. DepositInTransit(t)
    BY <1>2, LedgerDone DEF DepositInTransit, Open
  <2> QED
    BY <1>2, <2>1, OneOnItsWay DEF ClaimPlaced
<1>5. TransitGoods = parcel[t] /\ OnPage = {}
  BY <1>4, Flows DEF Flow
<1>6. SumFunction(Unpaid) = 0
  <2>1. \A u \in Txn : Unpaid[u] = 0
    BY <1>4 DEF Unpaid
  <2>2. IsFiniteSet(Txn) /\ Unpaid \in [Txn -> Int]
    BY SheetTypes DEF SheetTyped
  <2> QED
    BY <2>1, <2>2, SumZero
<1>7. Reserved' = Reserved
  BY <1>2 DEF Reserved
<1>8. PICK kept \in {"listed", "available"} :
          Settle([i \in Item |-> IF i \in parcel[t].items THEN kept ELSE state[i]],
                 requested \ parcel[t].items, balance + parcel[t].gold)
  BY DEF CommitDeposit
<1> DEFINE held == [i \in Item |-> IF i \in parcel[t].items THEN kept ELSE state[i]]
           goods == Ledger!Plus(VaultGoods, TransitGoods)
           spare == SumFunction(Reserved) - SumFunction(Unpaid)
<1>9. \A i \in parcel[t].items : i \in Item /\ state[i] \in {"local", "delivered"}
  BY <1>2 DEF Committable, Goods
<1>10. goods.items = {i \in Item : held[i] \in {"listed", "available", "claiming"}} \ OnPage'
  BY <1>3, <1>5, <1>9 DEF VaultGoods, Hold, Ledger!Plus
<1>11. \A i \in Item : held[i] = "outside" <=> state[i] = "outside"
  BY <1>9
<1>12. parcel[t].gold \in Nat /\ balance \in Nat /\ balance + parcel[t].gold \in Nat
  BY DEF Goods
<1>13. spare \in Nat /\ VaultGoods.gold = balance + spare
  BY Spare
<1>14. goods.gold = (balance + parcel[t].gold) + spare /\ goods.gold \in Nat
  <2>1. goods.gold = VaultGoods.gold + parcel[t].gold
    BY <1>5 DEF Ledger!Plus
  <2> HIDE DEF goods, spare
  <2> QED
    BY <1>12, <1>13, <2>1
<1>15. goods \in [items : SUBSET Item, gold : Nat]
  <2>1. goods.items \subseteq Item
    BY <1>10
  <2> QED
    BY <1>14, <2>1 DEF Ledger!Plus
<1>16. SumFunction(Reserved') - SumFunction(Unpaid') = spare
  BY <1>3, <1>6, <1>7
<1>17. \A i \in OnPage' : held[i] \notin Tradable
  BY <1>3
<1> HIDE DEF held, goods, spare
<1>18. Settle(held, requested \ parcel[t].items, balance + parcel[t].gold)
  BY <1>8 DEF held
<1>19. \E out, in \in Ledger!Goods : Ledger!Settle(goods, out, in)
  BY <1>10, <1>11, <1>12, <1>13, <1>14, <1>15, <1>16, <1>17, <1>18, SettleSettles
<1> QED
  BY <1>1, <1>3, <1>19 DEF Ledger!Credit, Ledger!Nothing, Nothing, goods

\* A claim is committed: the service learns that the delivery was made.
LEMMA LedgerAcknowledge ==
    ASSUME Accounts, Accounts', NEW t \in Txn, Serve(t), CommitClaim(t)
    PROVE  \E out, in \in Ledger!Goods : Ledger!Acknowledge(t, out, in)
<1> USE DEF Accounts, Whereabouts, Exclusion, Position, Structure, TypeOK
<1>1. PlayerGoods' = PlayerGoods
  BY ServeKeepsPlayer
<1>2. ~IsDeposit(t)
  BY DEF CommitClaim
<1>3. /\ Stages' = [Stages EXCEPT ![t] = "done"] /\ Stages[t] = "moved"
      /\ Loads' = Loads /\ ~Loads[t].deposit /\ Open(t)
      /\ TransitGoods' = Nothing /\ OnPage' = {} /\ SumFunction(Unpaid') = 0
  BY <1>2, LedgerDone
<1>4. ClaimPlaced(t) /\ \A u \in Txn : ~DepositInTransit(u)
  <2>1. ClaimPlaced(t)
    BY <1>2, LedgerDone DEF ClaimPlaced, Open
  <2> QED
    BY <1>2, <2>1, OneOnItsWay DEF DepositInTransit
<1>5. TransitGoods = Nothing /\ OnPage = parcel[t].items
  BY <1>4, Flows DEF Flow
<1>6. SumFunction(Reserved') - SumFunction(Unpaid') = SumFunction(Reserved) - SumFunction(Unpaid)
  <2>1. SumFunction(Unpaid) = Unpaid[t]
    <3>1. \A u \in Txn : u # t => Unpaid[u] = 0
      BY <1>4, OneOnItsWay DEF Unpaid
    <3>2. IsFiniteSet(Txn) /\ Unpaid \in [Txn -> Int]
      BY SheetTypes DEF SheetTyped
    <3> QED
      BY <3>1, <3>2, SumSingle
  <2>2. Unpaid[t] = parcel[t].gold
    BY <1>4 DEF Unpaid
  <2>3. SumFunction(Reserved') = SumFunction(Reserved) - parcel[t].gold
    BY <1>3, ReservedCommit
  <2>4. SumFunction(Reserved') \in Nat /\ SumFunction(Reserved) \in Nat /\ parcel[t].gold \in Nat
    BY SheetTypes, SheetTypesNext DEF SheetTyped, Goods
  <2> QED
    BY <1>3, <2>1, <2>2, <2>3, <2>4
<1> DEFINE held == [i \in Item |-> IF i \in parcel[t].items THEN "delivered" ELSE state[i]]
<1>7. Settle(held, requested \ parcel[t].items, balance)
  BY DEF CommitClaim
<1>8. \A i \in parcel[t].items : i \in Item /\ state[i] = "claiming"
  BY <1>2, <1>3 DEF Parcels, Goods
<1>9. VaultGoods.items = {i \in Item : held[i] \in {"listed", "available", "claiming"}} \ OnPage'
  BY <1>3, <1>5, <1>8 DEF VaultGoods, Hold
<1>10. \A i \in Item : held[i] = "outside" <=> state[i] = "outside"
  BY <1>8
<1>11. \A i \in OnPage' : held[i] \notin Tradable
  BY <1>3
<1> HIDE DEF held
<1>12. \E out, in \in Ledger!Goods : Ledger!Settle(VaultGoods, out, in)
  BY <1>6, <1>7, <1>9, <1>10, <1>11, SettleSettles, Spare, VaultIsGoods
<1> QED
  BY <1>1, <1>3, <1>5, <1>12 DEF Ledger!Acknowledge

----------------------------------------------------------------------------
\* A command of a player or a settlement trades with the others, or only sets
\* gold of the Vault aside.
LEMMA LedgerVault ==
    ASSUME Accounts, Accounts', VaultStep
    PROVE  UNCHANGED Seen \/ \E out, in \in Ledger!Goods : Ledger!Trade(out, in)
<1> USE DEF Accounts, Whereabouts, Exclusion, Position, Structure, TypeOK
<1>1. UNCHANGED Aside
  BY VaultFrame
<1>2. PlayerGoods' = PlayerGoods
  BY <1>1 DEF PlayerGoods, Visible, Loaded
<1>3. Stages' = Stages /\ Loads' = Loads
  <2>1. \A t \in Txn : Stages'[t] = Stages[t] /\ Loads'[t] = Loads[t]
    BY <1>1, StageStays
  <2> QED
    BY <2>1 DEF Stages, Loads
<1>4. UNCHANGED <<TransitGoods, OnPage, SumFunction(Unpaid)>>
  BY <1>1, SameFlow
<1>5. ASSUME NEW held, NEW asked, NEW gold \in Nat, Settle(held, asked, gold),
             \A i \in Item : held[i] = state[i] \/ {held[i], state[i]} \subseteq Tradable,
             NEW spare \in Nat, VaultGoods.gold = gold + spare,
             SumFunction(Reserved') - SumFunction(Unpaid) = spare
      PROVE  \E out, in \in Ledger!Goods : Ledger!Trade(out, in)
  <2>1. \A i \in OnPage' : held[i] \notin Tradable
    BY <1>4, <1>5, OnPageClaims DEF Tradable
  <2>2. VaultGoods.items = {i \in Item : held[i] \in {"listed", "available", "claiming"}} \ OnPage'
    BY <1>4, <1>5 DEF VaultGoods, Hold, Tradable
  <2>3. \A i \in Item : held[i] = "outside" <=> state[i] = "outside"
    BY <1>5 DEF Tradable
  <2>4. SumFunction(Reserved') - SumFunction(Unpaid') = spare
    BY <1>4, <1>5
  <2>5. \E out, in \in Ledger!Goods : Ledger!Settle(VaultGoods, out, in)
    BY <1>5, <2>1, <2>2, <2>3, <2>4, SettleSettles, VaultIsGoods
  <2> QED
    BY <1>2, <1>3, <1>4, <2>5 DEF Ledger!Trade
<1>6. ASSUME NEW held, NEW asked, Settle(held, asked, balance), UNCHANGED <<wd, remaining>>,
             \A i \in Item : held[i] = state[i] \/ {held[i], state[i]} \subseteq Tradable
      PROVE  \E out, in \in Ledger!Goods : Ledger!Trade(out, in)
  <2>1. Reserved' = Reserved
    BY <1>6 DEF Reserved
  <2> QED
    BY <1>5, <1>6, <2>1, Spare
<1>7. ASSUME NEW i \in Item, EscrowPrice(i) \/ EscrowReturn(i)
      PROVE  \E out, in \in Ledger!Goods : Ledger!Trade(out, in)
  <2>1. PICK to \in Tradable :
            \E asked : Settle([state EXCEPT ![i] = to], asked, balance)
    BY <1>7 DEF EscrowPrice, EscrowReturn, Tradable
  <2>2. state[i] \in Tradable /\ UNCHANGED <<wd, remaining>>
    BY <1>7 DEF EscrowPrice, EscrowReturn, Held, Tradable
  <2> DEFINE held == [state EXCEPT ![i] = to]
  <2>3. \A j \in Item : held[j] = state[j] \/ {held[j], state[j]} \subseteq Tradable
    BY <2>1, <2>2
  <2>4. PICK asked : Settle(held, asked, balance)
    BY <2>1
  <2>5. Settle(held, asked, balance) /\ balance \in Nat
    BY <2>4
  <2> HIDE DEF held
  <2> QED
    BY <1>6, <2>2, <2>3, <2>5
<1>8. CASE SettleTrades
  BY <1>6, <1>8 DEF SettleTrades
<1>9. ASSUME NEW i \in Item, RecordSale(i) PROVE UNCHANGED Seen
  <2>1. UNCHANGED <<state, balance, otherGold>> /\ Reserved' = Reserved
    BY <1>9 DEF RecordSale, Reserved
  <2> QED
    BY <1>2, <1>3, <1>4, <2>1 DEF Seen, VaultGoods, OtherGoods
<1>10. ASSUME NEW w \in Wid, WalletWithdraw(w) PROVE UNCHANGED Seen
  <2>1. PICK gold \in 1..balance :
            /\ balance' = balance - gold
            /\ remaining' = [remaining EXCEPT ![w] = gold]
    BY <1>10 DEF WalletWithdraw
  <2>2. wd[w] = "none" /\ wd' = [wd EXCEPT ![w] = "queued"] /\ UNCHANGED <<state, otherGold>>
    BY <1>10 DEF WalletWithdraw
  <2>3. Reserved[w] = 0 /\ Reserved'[w] = gold
    BY <2>1, <2>2 DEF Reserved
  <2>4. \A v \in Wid : v # w => Reserved'[v] = Reserved[v]
    BY <2>1, <2>2 DEF Reserved
  <2>5. SumFunction(Reserved') = SumFunction(Reserved) - Reserved[w] + Reserved'[w]
    BY <2>4, ReservedChange
  <2>6. Holders /\ gold \in Nat
    BY HoldersHave DEF Holders
  <2>7. balance' + SumFunction(Reserved') - SumFunction(Unpaid')
            = balance + SumFunction(Reserved) - SumFunction(Unpaid)
    BY <1>4, <2>1, <2>3, <2>5, <2>6 DEF Holders
  <2>8. VaultGoods' = VaultGoods /\ OtherGoods' = OtherGoods
    BY <1>4, <2>2, <2>7 DEF VaultGoods, OtherGoods
  <2> QED
    BY <1>2, <1>3, <1>4, <2>8 DEF Seen
<1>11. ASSUME NEW w \in Wid, WalletCancel(w)
       PROVE  \E out, in \in Ledger!Goods : Ledger!Trade(out, in)
  <2> DEFINE gold == remaining[w]
  <2>1. /\ wd[w] = "queued" /\ wd' = [wd EXCEPT ![w] = "cancelled"]
        /\ remaining' = remaining /\ gold \in Nat
        /\ Settle(state, requested, balance + gold)
    BY <1>11 DEF WalletCancel
  <2>2. Reserved[w] = gold /\ Reserved'[w] = 0
    BY <2>1 DEF Reserved
  <2>3. \A v \in Wid : v # w => Reserved'[v] = Reserved[v]
    BY <2>1 DEF Reserved
  <2>4. SumFunction(Reserved') = SumFunction(Reserved) - Reserved[w] + Reserved'[w]
    BY <2>3, ReservedChange
  <2> HIDE DEF gold
  <2>5. Holders /\ Holders' /\ balance + gold \in Nat
    BY <2>1, HoldersHave, HoldersHaveNext DEF Holders
  <2> DEFINE spare == SumFunction(Reserved') - SumFunction(Unpaid)
  <2>6. SumFunction(Reserved') = SumFunction(Reserved) - gold
    BY <2>1, <2>2, <2>4, <2>5 DEF Holders
  <2>7. spare \in Nat /\ VaultGoods.gold = (balance + gold) + spare
    BY <1>4, <2>1, <2>5, <2>6 DEF Holders, VaultGoods, Hold
  <2> QED
    BY <1>5, <2>1, <2>5, <2>7
<1> QED
  BY <1>7, <1>8, <1>9, <1>10, <1>11 DEF VaultStep

\* Goods that move from one place to another stay in the two.
LEMMA PartMoved ==
    ASSUME NEW from, NEW to, from.gold \in Nat, to.gold \in Nat,
           NEW part, part.items \subseteq from.items, part.gold \in 0..from.gold
    PROVE  /\ Plus(Minus(from, part), Plus(to, part)) = Plus(from, to)
           /\ Plus(Plus(to, part), Minus(from, part)) = Plus(to, from)
<1>1. /\ (from.items \ part.items) \cup (to.items \cup part.items) = from.items \cup to.items
      /\ (to.items \cup part.items) \cup (from.items \ part.items) = to.items \cup from.items
  OBVIOUS
<1>2. /\ (from.gold - part.gold) + (to.gold + part.gold) = from.gold + to.gold
      /\ (to.gold + part.gold) + (from.gold - part.gold) = to.gold + from.gold
  OBVIOUS
<1> QED
  BY <1>1, <1>2 DEF Plus, Minus

\* What the player moves in the game stays the player's.
LEMMA LedgerGame ==
    ASSUME Accounts, Accounts', GameStep
    PROVE  UNCHANGED Seen
<1> USE DEF Accounts, Whereabouts, Exclusion, Position, Structure, TypeOK
<1>1. UNCHANGED <<req, writes, serviceVars>>
  BY GameFrame
<1>2. UNCHANGED <<TransitGoods, VaultGoods, OtherGoods, Stages, Loads>>
  BY <1>1, ServiceUnseen
<1>3. CASE ~MoveGoods
  <2>1. Visible' = Visible /\ carried' = carried
    BY <1>3, SeenStays
  <2> QED
    BY <1>2, <2>1 DEF Seen, PlayerGoods
<1>4. CASE MoveGoods
  <2>1. Visible = mem /\ Visible' = mem'
    BY <1>4 DEF MoveGoods, Visible, Loaded
  <2>2. mem.gold \in Nat /\ carried.gold \in Nat
    BY DEF Goods
  <2>4. Plus(mem', carried') = Plus(mem, carried)
    <3>1. ASSUME NEW items \in SUBSET mem.items, NEW gold \in 0..mem.gold,
                 mem' = Minus(mem, [items |-> items, gold |-> gold]),
                 carried' = Plus(carried, [items |-> items, gold |-> gold])
          PROVE  Plus(mem', carried') = Plus(mem, carried)
      <4> DEFINE goods == [items |-> items, gold |-> gold]
      <4>1. goods.items \subseteq mem.items /\ goods.gold \in 0..mem.gold
        BY <3>1
      <4>2. mem' = Minus(mem, goods) /\ carried' = Plus(carried, goods)
        BY <3>1
      <4> HIDE DEF goods
      <4> QED
        BY <2>2, <4>1, <4>2, PartMoved
    <3>2. ASSUME NEW items \in SUBSET carried.items, NEW gold \in 0..carried.gold,
                 mem' = Plus(mem, [items |-> items, gold |-> gold]),
                 carried' = Minus(carried, [items |-> items, gold |-> gold])
          PROVE  Plus(mem', carried') = Plus(mem, carried)
      <4> DEFINE goods == [items |-> items, gold |-> gold]
      <4>1. goods.items \subseteq carried.items /\ goods.gold \in 0..carried.gold
        BY <3>2
      <4>2. mem' = Plus(mem, goods) /\ carried' = Minus(carried, goods)
        BY <3>2
      <4> HIDE DEF goods
      <4> QED
        BY <2>2, <4>1, <4>2, PartMoved
    <3> QED
      BY <1>4, <3>1, <3>2 DEF MoveGoods
  <2>5. PlayerGoods' = PlayerGoods
    BY <2>1, <2>4 DEF PlayerGoods
  <2> QED
    BY <1>2, <2>5 DEF Seen
<1> QED
  BY <1>3, <1>4 DEF GameStep

\* A step of the agent that is not the write of a page.
LEMMA LedgerAgent ==
    ASSUME Accounts, Accounts', AgentStep \/ PlanStep \/ Abort, ~WritePage
    PROVE  UNCHANGED Seen
<1> USE DEF Accounts, Whereabouts, Exclusion, Position, Structure
<1>1. UNCHANGED <<gameVars, serviceVars>>
  BY AgentFrame
<1>2. /\ UNCHANGED <<page, writes>>
      /\ \A t \in Txn : req'[t] = req[t] \/ (status[t] = "none" /\ writes[t] = 0)
  <2>1. ASSUME NEW t \in Txn, Journal(t)
        PROVE  /\ UNCHANGED <<page, writes>>
               /\ \A u \in Txn : req'[u] = req[u] \/ (status[u] = "none" /\ writes[u] = 0)
    BY <2>1 DEF Journal, Fresh, TypeOK
  <2> QED
    BY <2>1, DiskFrame
<1>3. UNCHANGED <<TransitGoods, VaultGoods, OtherGoods, Stages, Loads>>
  <2>1. \A t \in Txn : /\ status[t] # "none" => req'[t] = req[t]
                       /\ writes[t] > 0 \/ writes'[t] > 0 => req'[t] = req[t]
                       /\ writes'[t] = writes[t]
    BY <1>2 DEF TypeOK
  <2> QED
    BY <1>1, <2>1, ServiceUnseen
<1>4. PlayerGoods' = PlayerGoods
  BY <1>1, <1>2 DEF PlayerGoods, Visible, Loaded
<1> QED
  BY <1>3, <1>4 DEF Seen

\* A request that makes no ticket and settles none.
LEMMA LedgerAnswer ==
    ASSUME Accounts, Accounts', NEW t \in Txn, Serve(t),
           ~(AdmitDeposit(t) \/ ReserveItems(t) \/ ReserveWithdrawal(t)
                 \/ ServeCancel(t) \/ CommitDeposit(t) \/ CommitClaim(t))
    PROVE  UNCHANGED Seen
<1> USE DEF Accounts, Whereabouts, Exclusion, Position, Structure, TypeOK
<1>1. UNCHANGED <<page, game, mem, carried, req, writes>> /\ PlayerGoods' = PlayerGoods
  BY ServeKeepsPlayer
<1>2. /\ UNCHANGED <<parcel, ledgerVars>>
      /\ \A u \in Txn : status'[u] = status[u] \/ (Open(u) /\ Open(u)')
  BY DEF Serve, ServeAuthorize, Authorizable, Open, PrepareAgain, PrepareRefused,
     ServeStatus, CancelRefused, AuthorizeRefused, CommitRefused, Refuse
<1>3. \A u \in Txn : status'[u] = "committed" <=> status[u] = "committed"
  BY <1>2 DEF Open
<1>4. UNCHANGED <<TransitGoods, OnPage, SumFunction(Unpaid)>>
  BY <1>1, <1>2, <1>3, SameFlow
<1>5. VaultGoods' = VaultGoods /\ OtherGoods' = OtherGoods
  BY <1>2, <1>4 DEF VaultGoods, OtherGoods, Reserved
<1>6. Stages' = Stages /\ Loads' = Loads
  <2>1. \A u \in Txn : Stages'[u] = Stages[u] /\ Loads'[u] = Loads[u]
    BY <1>1, <1>2, StageStays
  <2> QED
    BY <2>1 DEF Stages, Loads
<1> QED
  BY <1>1, <1>4, <1>5, <1>6 DEF Seen

LEMMA LedgerStep ==
    Accounts /\ Accounts' /\ [Next]_vars => [Ledger!LedgerNext]_(Ledger!lvars)
<1> SUFFICES ASSUME Accounts, Accounts', [Next]_vars
             PROVE  Ledger!LedgerNext \/ UNCHANGED Ledger!lvars
  OBVIOUS
<1>1. CASE AgentStep \/ PlanStep \/ Abort
  BY <1>1, LedgerAgent, LedgerWrite, SeenIsLedger DEF Ledger!LedgerNext
<1>2. ASSUME NEW t \in Txn, Serve(t) PROVE Ledger!LedgerNext \/ UNCHANGED Ledger!lvars
  <2>1. CASE AdmitDeposit(t) \/ ReserveItems(t) \/ ReserveWithdrawal(t)
    BY <1>2, <2>1, LedgerBegin DEF Ledger!LedgerNext
  <2>2. CASE ServeCancel(t)
    BY <1>2, <2>2, LedgerVoid DEF Ledger!LedgerNext
  <2>3. CASE CommitDeposit(t)
    BY <1>2, <2>3, LedgerCredit DEF Ledger!LedgerNext
  <2>4. CASE CommitClaim(t)
    BY <1>2, <2>4, LedgerAcknowledge DEF Ledger!LedgerNext
  <2> QED
    BY <1>2, <2>1, <2>2, <2>3, <2>4, LedgerAnswer, SeenIsLedger
<1>3. CASE VaultStep
  BY <1>3, LedgerVault, SeenIsLedger DEF Ledger!LedgerNext
<1>4. CASE GameStep
  BY <1>4, LedgerGame, SeenIsLedger
<1>5. CASE UNCHANGED vars
  <2>1. Moved' = Moved /\ Unpaid' = Unpaid /\ Reserved' = Reserved
    BY <1>5 DEF vars, Moved, Unpaid, Reserved, DepositInTransit, ClaimPlaced, IsDeposit
  <2> QED
    BY <1>5, <2>1, SeenIsLedger DEF vars, Seen, PlayerGoods, TransitGoods, VaultGoods, OtherGoods,
       Stages, Loads, Stage, Visible, Loaded, InTransit, OnPage, DepositInTransit, ClaimPlaced, IsDeposit
<1> QED
  BY <1>1, <1>2, <1>3, <1>4, <1>5 DEF Next

LEMMA LedgerStart == Init => Ledger!LedgerInit
<1> SUFFICES ASSUME Init PROVE Ledger!LedgerInit
  OBVIOUS
<1>1. PICK mine \in SUBSET Item :
          /\ page = [items |-> mine, gold |-> StartGold]
          /\ state = [i \in Item |-> IF i \in mine THEN "local" ELSE "outside"]
  BY DEF Init
<1>2. Accounts
  BY InitStructure, InitPosition, InitExclusion, InitWhereabouts, InitAccounts
     DEF Accounts, Whereabouts, Exclusion, Position
<1>3. \A t \in Txn : ~DepositInTransit(t) /\ ~ClaimPlaced(t)
  BY DEF Init, DepositInTransit, ClaimPlaced
<1>4. TransitGoods = Nothing /\ OnPage = {}
  BY <1>2, <1>3, Flows DEF Flow
<1>5. SumFunction(Reserved) = 0 /\ SumFunction(Unpaid) = 0
  <2>1. (\A w \in Wid : Reserved[w] = 0) /\ \A t \in Txn : Unpaid[t] = 0
    BY <1>3 DEF Init, Reserved, Unpaid
  <2>2. IsFiniteSet(Txn) /\ IsFiniteSet(Wid) /\ Reserved \in [Wid -> Int] /\ Unpaid \in [Txn -> Int]
    BY <1>2, SheetTypes DEF SheetTyped, Accounts, Whereabouts, Exclusion, Position, Structure
  <2> QED
    BY <2>1, <2>2, SumZero
<1>6. PlayerGoods = [items |-> mine, gold |-> StartGold]
  BY <1>1 DEF Init, PlayerGoods, Plus, Visible, Loaded, Nothing
<1>7. OtherGoods = [items |-> Item \ mine, gold |-> OtherGold]
  <2>1. {i \in Item : state[i] = "outside"} = Item \ mine
    BY <1>1
  <2>2. otherGold = OtherGold
    BY DEF Init
  <2> QED
    BY <2>1, <2>2 DEF OtherGoods, Hold
<1>8. VaultGoods = Nothing
  <2>1. {i \in Item : state[i] \in {"listed", "available", "claiming"}} = {}
    BY <1>1
  <2>2. balance + SumFunction(Reserved) - SumFunction(Unpaid) = 0
    BY <1>5 DEF Init
  <2> QED
    BY <2>1, <2>2 DEF VaultGoods, Hold, Nothing
<1>9. Stages = [t \in Txn |-> "none"]
  BY DEF Init, Stages, Stage
<1>10. Loads = [t \in Txn |-> [goods |-> Nothing, deposit |-> FALSE]]
  BY DEF Init, Loads
<1>11. PlayerGoods \in Ledger!Goods /\ OtherGoods \in Ledger!Goods
  BY <1>2, HoldersHave DEF Holders
<1> QED
  BY <1>4, <1>6, <1>7, <1>8, <1>9, <1>10, <1>11
     DEF Ledger!LedgerInit, Ledger!Nothing, Ledger!NoLoad, Nothing

\* When no edit is mistaken for the agent's work, every behaviour of custody is one
\* of the ledger: goods move once per ticket, with an open ticket, from a holder
\* that has them.
THEOREM CustodyImplementsLedger == UnmistakenSpec => ImplementsLedger
<1>1. UnmistakenSpec => []Accounts
  BY AccountsAlways
<1>2. Init => Ledger!LedgerInit
  BY LedgerStart
<1>3. Accounts /\ Accounts' /\ [UnmistakenNext]_vars
          => [Ledger!LedgerNext]_(Ledger!lvars)
  BY LedgerStep, UnmistakenStep DEF Accounts, Whereabouts
<1> QED
  BY <1>1, <1>2, <1>3, PTL DEF UnmistakenSpec, ImplementsLedger, Ledger!LedgerSpec
=============================================================================
