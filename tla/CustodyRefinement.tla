-------------------------- MODULE CustodyRefinement --------------------------
(***************************************************************************)
(* Custody implements the ledger of exactly-once transfers: journal, pages, *)
(* requests, crashes and the game are details of when the goods move.      *)
(***************************************************************************)
EXTENDS CustodyInvariant

Hold(items, gold) == [items |-> items, gold |-> gold]

InTransit == {t \in Txn : DepositInTransit(t)}
OnPage    == {i \in Item : \E t \in Txn : ClaimPlaced(t) /\ i \in parcel[t].items}

PlayerGoods  == Plus(Visible, carried)
TransitGoods == Hold(UNION {parcel[t].items : t \in InTransit},
                     SumFunction(Moved))
VaultGoods   == Hold({i \in Item : state[i] \in {"listed", "available", "claiming"}}
                         \ OnPage,
                     balance + SumFunction(Reserved) - SumFunction(Unpaid))
OtherGoods   == Hold({i \in Item : state[i] = "outside"}, otherGold)

\* A transfer moves when the page is replaced, not when the service hears of it.
Stage(t) == CASE status[t] = "none"      -> "none"
              [] status[t] = "committed" -> "done"
              [] status[t] = "cancelled" -> "void"
              [] OTHER -> IF writes[t] > 0 THEN "moved" ELSE "open"

Stages == [t \in Txn |-> Stage(t)]
Loads  == [t \in Txn |-> [goods   |-> parcel[t],
                         deposit |-> status[t] # "none" /\ IsDeposit(t)]]

Ledger == INSTANCE TransferLedger WITH
    Gold    <- StartGold + OtherGold,
    player  <- PlayerGoods,
    transit <- TransitGoods,
    vault   <- VaultGoods,
    others  <- OtherGoods,
    stage   <- Stages,
    load    <- Loads

\* Every behaviour of custody is a behaviour of the ledger: in particular goods
\* move once per ticket, only with an open ticket, and only when the source has
\* them.
ImplementsLedger == Ledger!LedgerSpec
=============================================================================
