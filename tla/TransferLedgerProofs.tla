------------------------- MODULE TransferLedgerProofs -------------------------
(***************************************************************************)
(* The transfer ledger neither creates nor destroys goods, for any number  *)
(* of transfers, items and any amount of gold.                             *)
(***************************************************************************)
EXTENDS TransferLedger, TLAPS

\* What has been taken and not credited is the load of the transfer that moved.
TransitIsLoad ==
    /\ \A t \in Txn : stage[t] = "moved" /\ load[t].deposit => transit = load[t].goods
    /\ (\A t \in Txn : ~(stage[t] = "moved" /\ load[t].deposit)) => transit = Nothing

LedgerInv == LedgerTypeOK /\ Conserved /\ Disjoint /\ OneActive /\ TransitIsLoad

LEMMA LedgerInitInv ==
    ASSUME Gold \in Nat, LedgerInit PROVE LedgerInv
  BY DEF LedgerInit, LedgerInv, LedgerTypeOK, Conserved, Disjoint,
     OneActive, TransitIsLoad, Active, Goods, Nothing, Load, NoLoad

\* A settlement exchanges goods: what the Vault held and the others had together
\* is divided anew, and stays divided.
LEMMA SettleExchanges ==
    ASSUME Gold \in Nat, NEW held \in Goods, NEW out \in Goods, NEW in \in Goods,
           others \in Goods, Settle(held, out, in),
           held.gold + others.gold <= Gold, held.items \cap others.items = {}
    PROVE  /\ vault' \in Goods /\ others' \in Goods
           /\ vault'.gold + others'.gold = held.gold + others.gold
           /\ vault'.items \cup others'.items = held.items \cup others.items
           /\ vault'.items \cap others'.items = {}
<1>1. /\ vault' = [items |-> (held.items \ out.items) \cup in.items,
                   gold |-> (held.gold - out.gold) + in.gold]
      /\ others' = [items |-> (others.items \ in.items) \cup out.items,
                    gold |-> (others.gold - in.gold) + out.gold]
  BY DEF Settle, Plus, Minus
<1>2. /\ out.items \subseteq held.items /\ out.gold <= held.gold
      /\ in.items \subseteq others.items /\ in.gold <= others.gold
  BY DEF Settle, Within
<1>3. vault'.gold + others'.gold = held.gold + others.gold
  BY <1>1, <1>2 DEF Goods
<1>4. vault'.items \cup others'.items = held.items \cup others.items
  BY <1>1, <1>2 DEF Goods
<1>5. vault'.items \cap others'.items = {}
  BY <1>1, <1>2 DEF Goods
<1>6. vault' \in Goods /\ others' \in Goods
  BY <1>1, <1>2 DEF Goods
<1> QED
  BY <1>3, <1>4, <1>5, <1>6

\* The goods a settlement leaves behind are where the invariant wants them.
LEMMA SettleInPlace ==
    ASSUME Gold \in Nat, LedgerInv, NEW out \in Goods, NEW in \in Goods, Settle(vault, out, in),
           UNCHANGED <<player, transit>>
    PROVE  Conserved' /\ Disjoint' /\ vault' \in Goods /\ others' \in Goods
<1>1. /\ player \in Goods /\ vault \in Goods /\ transit \in Goods /\ others \in Goods
      /\ Conserved /\ Disjoint
  BY DEF LedgerInv, LedgerTypeOK
<1>2. vault.gold + others.gold <= Gold /\ vault.items \cap others.items = {}
  BY <1>1 DEF Goods, Conserved, Disjoint
<1>3. /\ vault' \in Goods /\ others' \in Goods
      /\ vault'.gold + others'.gold = vault.gold + others.gold
      /\ vault'.items \cup others'.items = vault.items \cup others.items
      /\ vault'.items \cap others'.items = {}
  BY <1>1, <1>2, SettleExchanges
<1>4. Conserved'
  BY <1>1, <1>3 DEF Conserved, Goods
<1>5. Disjoint'
  BY <1>1, <1>3 DEF Disjoint
<1> QED
  BY <1>3, <1>4, <1>5

\* Every step keeps the invariant, one step of the proof per action.
LEMMA LedgerNextInv ==
    ASSUME Gold \in Nat, LedgerInv, [LedgerNext]_lvars PROVE LedgerInv'
<1>1. ASSUME NEW t \in Txn, NEW l \in Load, Begin(t, l) PROVE LedgerInv'
  BY <1>1 DEF LedgerInv, LedgerTypeOK, Conserved, Disjoint, OneActive,
     TransitIsLoad, Active, Goods, Nothing, Load, Begin, Within
<1>2. ASSUME NEW t \in Txn, Take(t) PROVE LedgerInv'
  BY <1>2 DEF LedgerInv, LedgerTypeOK, Conserved, Disjoint, OneActive,
     TransitIsLoad, Active, Goods, Nothing, Load, Take, Within, Minus
<1>3. ASSUME NEW t \in Txn, NEW out \in Goods, NEW in \in Goods, Credit(t, out, in)
      PROVE  LedgerInv'
  <2> DEFINE held == Plus(vault, transit)
  <2>1. /\ player \in Goods /\ vault \in Goods /\ transit \in Goods /\ others \in Goods
        /\ Conserved /\ Disjoint
    BY DEF LedgerInv, LedgerTypeOK
  <2>2. held = [items |-> vault.items \cup transit.items, gold |-> vault.gold + transit.gold]
    BY DEF Plus
  <2>3. held \in Goods /\ held.gold + others.gold <= Gold
        /\ held.items \cap others.items = {} /\ held.items \cap player.items = {}
    BY <2>1, <2>2 DEF Goods, Conserved, Disjoint
  <2>4. Settle(held, out, in) /\ transit' = Nothing /\ player' = player
    BY <1>3 DEF Credit
  <2> HIDE DEF held
  <2>5. /\ vault' \in Goods /\ others' \in Goods
        /\ vault'.gold + others'.gold = held.gold + others.gold
        /\ vault'.items \cup others'.items = held.items \cup others.items
        /\ vault'.items \cap others'.items = {}
    BY <2>1, <2>3, <2>4, SettleExchanges
  <2>6. LedgerTypeOK'
    BY <1>3, <2>1, <2>4, <2>5 DEF LedgerInv, LedgerTypeOK, Credit, Goods, Nothing
  <2>7. Conserved'
    BY <2>1, <2>2, <2>4, <2>5 DEF Conserved, Goods, Nothing
  <2>8. Disjoint'
    BY <2>1, <2>3, <2>4, <2>5 DEF Disjoint, Nothing
  <2>9. OneActive' /\ TransitIsLoad'
    BY <1>3, <2>4 DEF LedgerInv, LedgerTypeOK, OneActive, TransitIsLoad, Active, Credit
  <2> QED
    BY <2>6, <2>7, <2>8, <2>9 DEF LedgerInv
<1>4. ASSUME NEW t \in Txn, Deliver(t) PROVE LedgerInv'
  <2>1. /\ load[t].goods \in Goods /\ player \in Goods /\ vault \in Goods
        /\ transit \in Goods /\ others \in Goods
        /\ player.gold + transit.gold + vault.gold + others.gold = Gold
        /\ load[t].goods.items \subseteq vault.items
        /\ load[t].goods.gold <= vault.gold
    BY <1>4 DEF LedgerInv, LedgerTypeOK, Conserved, Deliver, Within, Load
  <2>2. /\ vault' = [items |-> vault.items \ load[t].goods.items,
                     gold |-> vault.gold - load[t].goods.gold]
        /\ player' = [items |-> player.items \cup load[t].goods.items,
                      gold |-> player.gold + load[t].goods.gold]
        /\ transit' = transit /\ others' = others
    BY <1>4 DEF Deliver, Plus, Minus
  <2>3. player'.gold + transit'.gold + vault'.gold + others'.gold = Gold
    BY <2>1, <2>2 DEF Goods
  <2>4. vault' \in Goods /\ player' \in Goods
    BY <2>1, <2>2 DEF Goods
  <2>5. LedgerTypeOK'
    BY <1>4, <2>2, <2>4 DEF LedgerInv, LedgerTypeOK, Deliver
  <2>6. Conserved' /\ Disjoint'
    BY <2>1, <2>2, <2>3 DEF LedgerInv, Conserved, Disjoint, Goods
  <2>7. OneActive' /\ TransitIsLoad'
    BY <1>4 DEF LedgerInv, LedgerTypeOK, OneActive, TransitIsLoad, Active, Deliver
  <2> QED
    BY <2>5, <2>6, <2>7 DEF LedgerInv
<1>5. ASSUME NEW t \in Txn, NEW out \in Goods, NEW in \in Goods, Acknowledge(t, out, in)
      PROVE  LedgerInv'
  <2>1. Conserved' /\ Disjoint' /\ vault' \in Goods /\ others' \in Goods
    BY <1>5, SettleInPlace DEF Acknowledge
  <2> QED
    BY <1>5, <2>1 DEF LedgerInv, LedgerTypeOK, OneActive, TransitIsLoad, Active, Acknowledge
<1>6. ASSUME NEW t \in Txn, NEW out \in Goods, NEW in \in Goods, Void(t, out, in)
      PROVE  LedgerInv'
  <2>1. Conserved' /\ Disjoint' /\ vault' \in Goods /\ others' \in Goods
    BY <1>6, SettleInPlace DEF Void
  <2> QED
    BY <1>6, <2>1 DEF LedgerInv, LedgerTypeOK, OneActive, TransitIsLoad, Active, Void
<1>7. ASSUME NEW out \in Goods, NEW in \in Goods, Trade(out, in) PROVE LedgerInv'
  <2>1. Conserved' /\ Disjoint' /\ vault' \in Goods /\ others' \in Goods
    BY <1>7, SettleInPlace DEF Trade
  <2> QED
    BY <1>7, <2>1 DEF LedgerInv, LedgerTypeOK, OneActive, TransitIsLoad, Active, Trade
<1>8. CASE UNCHANGED lvars
  BY <1>8 DEF lvars, LedgerInv, LedgerTypeOK, Conserved, Disjoint, OneActive,
     TransitIsLoad, Active
<1> QED
  BY <1>1, <1>2, <1>3, <1>4, <1>5, <1>6, <1>7, <1>8 DEF LedgerNext

\* Nothing is created or destroyed, no item is in two places, one transfer moves
\* goods at a time: what any implementation of the ledger inherits.
THEOREM LedgerConserves ==
    ASSUME Gold \in Nat
    PROVE  LedgerSpec => [](LedgerTypeOK /\ Conserved /\ Disjoint /\ OneActive)
<1>1. LedgerInv => LedgerTypeOK /\ Conserved /\ Disjoint /\ OneActive
  BY DEF LedgerInv
<1>2. LedgerInit => LedgerInv
  BY LedgerInitInv
<1>3. LedgerInv /\ [LedgerNext]_lvars => LedgerInv'
  BY LedgerNextInv
<1> QED
  BY <1>1, <1>2, <1>3, PTL DEF LedgerSpec
=============================================================================
