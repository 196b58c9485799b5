------------------------- MODULE LiveBridgeProperties -------------------------
(***************************************************************************)
(* What the live bridge must keep: the agent never writes a page the game  *)
(* has loaded, the game never saves a page under another page's name, and  *)
(* both get on with their work.                                            *)
(***************************************************************************)
EXTENDS LiveBridge

Windows == [enabled : BOOLEAN, parked : BOOLEAN, passive : BOOLEAN,
            loaded : Slot, market : SUBSET Page, restore : Slot, refresh : Slot,
            access : BOOLEAN, asked : BOOLEAN, ready : BOOLEAN,
            shown : {None} \cup Shown]
Clients == [selected : Page, named : Page, phase : {"none", "freed", "created"},
            previous : Slot, attempted : BOOLEAN, request : {None} \cup Page,
            packets : {None} \cup Data, panel : {"fresh", "open", "closed"},
            restoreTo : Slot]

(* Types; among them that no file is written more often than it was        *)
(* journaled, whatever crash interrupts the write.                         *)
TypeOK ==
    /\ game \in {"off", "menu", "play"} /\ settings \in Routes /\ enrolled \in BOOLEAN
    /\ window \in Windows /\ client \in Clients
    /\ mem \in {None} \cup Data
    /\ toServer \in Seq([kind : {"changed", "loaded"}, page : Page, data : {None} \cup Data])
    /\ toClient \in Seq([kind : {"busy", "freed", "failed", "created"}, page : Page])
    /\ lease \in {None} \cup Leases /\ pending \in {None} \cup Journals
    /\ disk \in [Page -> 0 .. MaxWrites]
    /\ faults \in 0 .. MaxFaults

(* The agent never writes the page that the game has in memory: what the   *)
(* game will save is what the file holds (CUSTODY.md: "It never writes the *)
(* loaded page").  It rests on the page switch, the window file, the two   *)
(* leases and the agent's checks together.                                 *)
MemoryIsCurrent == mem # None => mem.ver = disk[mem.page]

(* GAME_SaveClients writes the page in memory to that page's file, also    *)
(* after a rollback and after a refused switch.                            *)
SavedUnderItsName == mem # None => mem.page = client.named

(* While the native side does not hold the lease, the window file of this  *)
(* process names the page in memory: "Only the final native load           *)
(* acknowledgement establishes which page is in memory" (MarketplaceLive-  *)
(* Loaded).                                                                *)
Grants == window.shown # None /\ window.shown.ours /\ ~window.access
WindowIsTrue == game = "play" /\ Grants => mem # None /\ window.shown.loaded = mem.page

(* In a game, a market page of the window is loaded only when no journal   *)
(* that is still to be applied covers it, whatever happens between the     *)
(* permission of the switch and the load; a rollback may go back to the    *)
(* page it came from (Permit, Pending, MarketplaceLiveRecoverPage).        *)
Unapplied(page) == pending # None /\ page \in pending.pages /\ pending.phase # "applied"
LoadsRespectJournal ==
    [][/\ game = "play" /\ mem' # mem /\ mem' # None /\ window.enabled
       /\ mem'.page \in window.market \ {client.previous}
       => ~Unapplied(mem'.page)]_vars

(* A page switch does not hang: it ends with the new page, with the old    *)
(* one, or with the notice that the stash could not be restored, or it     *)
(* goes on to its next phase, perhaps that of the next switch.             *)
Stranded == client.attempted /\ mem = None
SwitchEnds == \/ []<>(client.phase = "none" \/ Stranded)
              \/ []<><<client'.phase # client.phase>>_client

(* A refresh whose parking page is loaded ends: "The original page restores *)
(* after a sync result or a bounded wait when no journal exists"           *)
(* (CUSTODY.md).                                                           *)
ParkedRefreshEnds ==
    /\ window.refresh # 0 /\ window.parked
    /\ window.loaded = Parking(window.market)
    ~> window.refresh = 0 \/ Stranded
===============================================================================
