--------------------------- MODULE LiveBridgeInvariant ---------------------------
(***************************************************************************)
(* The inductive invariant of the live bridge, for players who leave the   *)
(* game only when no page change waits for the old page to be freed.       *)
(***************************************************************************)
EXTENDS LiveBridgeProperties

(* The window and its file.  The file speaks for this process exactly      *)
(* while the window is parked; a window that is parked in a game names the *)
(* page selected, in the file too.                                         *)
Sound(v) ==
    /\ v \in Windows
    /\ v.market \in Routes \cup {{}}
    /\ v.parked <=> v.shown # None /\ v.shown.ours
    /\ v.parked => v.enabled
    /\ lease # None /\ lease.live => ~v.access
Names(v, page) == v.parked => v.loaded = page /\ v.shown.loaded = page

(* The agent's lease in a game freezes the window: it is parked, the game  *)
(* does not hold the lock, and the lease is not for the page in memory.    *)
Frozen(v, page) == lease # None => lease.live /\ v.parked /\ page \notin lease.pages

(* What is in memory is what the file holds, under the name a save uses.   *)
Memory == mem # None => mem = File(client.named)

(* A page change: until the old page is freed the game still saves under   *)
(* its name, and the packets prepared are those of the new file.           *)
Switching ==
    /\ client.phase = "freed" => client.named = client.previous /\ client.packets # None
    /\ client.phase # "freed" => client.named = client.selected
    /\ client.phase # "none" => client.previous \in Page
    /\ client.phase # "none" /\ client.packets # None
         => client.packets = File(client.selected)

(* At most one packet is under way, and it is the one the phase waits for. *)
Sent(kind, page) == <<[kind |-> kind, page |-> page]>>
Asked(kind, data) == <<[kind |-> kind, page |-> client.selected, data |-> data]>>
Quiet == toServer = <<>> /\ toClient = <<>>
Freeing ==
    /\ client.phase = "freed"
    /\ \/ /\ mem # None /\ toServer = Asked("changed", None) /\ toClient = <<>>
       \/ /\ mem # None /\ toServer = <<>> /\ toClient = Sent("busy", client.selected)
       \/ /\ mem = None /\ toServer = <<>> /\ toClient = Sent("freed", client.selected)
Loading ==
    /\ client.phase = "created"
    /\ \/ /\ mem = None /\ client.packets # None
          /\ toServer = Asked("loaded", client.packets) /\ toClient = <<>>
       \/ /\ mem # None /\ toServer = <<>> /\ toClient = Sent("created", client.selected)
       \/ /\ mem = None /\ toServer = <<>> /\ toClient = Sent("failed", client.selected)
       \/ mem = None /\ Quiet
Channels ==
    \/ client.phase = "none" /\ mem # None /\ Quiet
    \/ Freeing
    \/ Loading

(* The page a switch goes to is not one that a journal is still to change. *)
Permission ==
    window.enabled /\ client.phase # "none"
                   /\ client.selected \in window.market \ {client.previous}
    => ~Unapplied(client.selected)

InGame ==
    /\ Names(window, client.selected) /\ Frozen(window, client.selected)
    /\ window.parked => client.phase = "none"
    /\ Memory /\ Switching /\ Channels /\ Permission
OutOfGame ==
    /\ client.phase = "none" /\ client.named = client.selected
    /\ client.request = None /\ mem = None /\ Quiet
    /\ game = "off" => ~window.enabled /\ ~window.access

(* The agent's journal: what is to be written can be written.              *)
Journal ==
    /\ lease # None /\ lease.op = "journal"
         => pending = None /\ \A p \in Page : disk[p] < MaxWrites
    /\ lease # None /\ lease.op = "apply"
         => pending # None /\ pending.phase = "applying" /\ pending.pages = lease.pages
    /\ pending # None => pending.left \subseteq pending.pages
    /\ pending # None /\ pending.phase # "applied"
         => \A p \in pending.left : disk[p] < MaxWrites

Bridge ==
    /\ TypeOK
    /\ Sound(window)
    /\ game = "play" => InGame
    /\ game # "play" => OutOfGame
    /\ Journal
===============================================================================
