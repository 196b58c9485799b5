---------------------------- MODULE TransferLedger ----------------------------
(***************************************************************************)
(* What custody promises, without files, requests or crashes: goods move   *)
(* between a player, the player's Vault and the other players.  A transfer *)
(* between player and Vault is opened, moved once and settled, or voided   *)
(* before it moved; at most one is open or moved at a time.                *)
(***************************************************************************)
EXTENDS Naturals

CONSTANTS
    Txn,        \* transfers
    Item,       \* items
    Gold        \* all the gold there is, a natural number

VARIABLES
    player,     \* goods the player has, on the page or elsewhere
    transit,    \* goods taken from the player and not in the Vault yet
    vault,      \* goods the Vault holds for the player
    others,     \* goods of the other players
    stage,      \* progress of every transfer
    load        \* goods of every transfer, with the direction they move in

lvars == <<player, transit, vault, others, stage, load>>

Goods   == [items : SUBSET Item, gold : 0..Gold]
Nothing == [items |-> {}, gold |-> 0]
Plus(g, h)   == [items |-> g.items \cup h.items, gold |-> g.gold + h.gold]
Minus(g, h)  == [items |-> g.items \ h.items, gold |-> g.gold - h.gold]
Within(g, h) == g.items \subseteq h.items /\ g.gold <= h.gold

Load    == [goods : Goods, deposit : BOOLEAN]
NoLoad  == [goods |-> Nothing, deposit |-> FALSE]
Active(t) == stage[t] \in {"open", "moved"}

LedgerTypeOK ==
    /\ {player, transit, vault, others} \subseteq Goods
    /\ stage \in [Txn -> {"none", "open", "moved", "done", "void"}]
    /\ load \in [Txn -> Load]

LedgerInit ==
    /\ player \in Goods /\ others \in Goods
    /\ player.items \cap others.items = {}
    /\ player.items \cup others.items = Item
    /\ player.gold + others.gold = Gold
    /\ transit = Nothing /\ vault = Nothing
    /\ stage = [t \in Txn |-> "none"]
    /\ load = [t \in Txn |-> NoLoad]

\* A transfer is agreed on; a delivery names goods the Vault holds.
Begin(t, l) ==
    /\ stage[t] = "none" /\ \A u \in Txn : ~Active(u)
    /\ ~l.deposit => Within(l.goods, vault)
    /\ stage' = [stage EXCEPT ![t] = "open"]
    /\ load' = [load EXCEPT ![t] = l]
    /\ UNCHANGED <<player, transit, vault, others>>

\* The goods leave the player, all at once and only if the player has them.
Take(t) ==
    /\ stage[t] = "open" /\ load[t].deposit
    /\ Within(load[t].goods, player)
    /\ stage' = [stage EXCEPT ![t] = "moved"]
    /\ player' = Minus(player, load[t].goods)
    /\ transit' = load[t].goods
    /\ UNCHANGED <<vault, others, load>>

\* A trade exchanges goods of the Vault with goods of the other players.  It is
\* made on what the Vault holds after the transfer it is settled with.
Settle(held, out, in) ==
    /\ Within(out, held) /\ Within(in, others)
    /\ vault' = Plus(Minus(held, out), in)
    /\ others' = Plus(Minus(others, in), out)

\* The Vault receives what was taken.
Credit(t, out, in) ==
    /\ stage[t] = "moved" /\ load[t].deposit
    /\ stage' = [stage EXCEPT ![t] = "done"]
    /\ Settle(Plus(vault, transit), out, in)
    /\ transit' = Nothing
    /\ UNCHANGED <<player, load>>

\* A delivery moves the goods from the Vault to the player.
Deliver(t) ==
    /\ stage[t] = "open" /\ ~load[t].deposit
    /\ Within(load[t].goods, vault)
    /\ stage' = [stage EXCEPT ![t] = "moved"]
    /\ vault' = Minus(vault, load[t].goods)
    /\ player' = Plus(player, load[t].goods)
    /\ UNCHANGED <<transit, others, load>>

\* The service learns that the delivery was made.
Acknowledge(t, out, in) ==
    /\ stage[t] = "moved" /\ ~load[t].deposit
    /\ stage' = [stage EXCEPT ![t] = "done"]
    /\ Settle(vault, out, in)
    /\ UNCHANGED <<player, transit, load>>

Void(t, out, in) ==
    /\ stage[t] = "open"
    /\ stage' = [stage EXCEPT ![t] = "void"]
    /\ Settle(vault, out, in)
    /\ UNCHANGED <<player, transit, load>>

Trade(out, in) ==
    /\ UNCHANGED <<player, transit, stage, load>>
    /\ Settle(vault, out, in)

LedgerNext ==
    \/ \E out, in \in Goods : Trade(out, in)
    \/ \E t \in Txn :
        \/ \E l \in Load : Begin(t, l)
        \/ Take(t) \/ Deliver(t)
        \/ \E out, in \in Goods :
               Credit(t, out, in) \/ Acknowledge(t, out, in) \/ Void(t, out, in)

LedgerSpec == LedgerInit /\ [][LedgerNext]_lvars

----------------------------------------------------------------------------
\* No transfer and no trade creates or destroys anything.
Conserved ==
    /\ player.gold + transit.gold + vault.gold + others.gold = Gold
    /\ player.items \cup transit.items \cup vault.items \cup others.items = Item

\* No item is in two places.
Disjoint ==
    /\ player.items \cap transit.items = {} /\ player.items \cap vault.items = {}
    /\ player.items \cap others.items = {}  /\ transit.items \cap vault.items = {}
    /\ transit.items \cap others.items = {} /\ vault.items \cap others.items = {}

\* One transfer at a time: noPending of the service, pending.json of the agent.
OneActive == \A t, u \in Txn : Active(t) /\ Active(u) => t = u
=============================================================================
