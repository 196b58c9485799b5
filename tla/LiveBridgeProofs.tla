--------------------------- MODULE LiveBridgeProofs ---------------------------
(***************************************************************************)
(* The invariant of the live bridge and what follows from it, for every    *)
(* number of pages, of writes and of faults.                               *)
(***************************************************************************)
EXTENDS LiveBridgeInvariant, FiniteSetTheorems, TLAPS

(* There is a page to park on: at most two pages are market pages.         *)
LEMMA ParkingIsAPage ==
    ASSUME NEW m \in Routes \cup {{}}
    PROVE  Parking(m) \in Page /\ Parking(m) \notin m
<1>1. 1 \in Page /\ 2 \in Page /\ 3 \in Page
  BY BridgeAssumption DEF Page
<1>2. IsFiniteSet(m) /\ Cardinality(m) <= 2 /\ m \subseteq Page
  <2>1. IsFiniteSet(Page)
    BY FS_Interval, BridgeAssumption DEF Page
  <2>2. CASE m = {}
    BY <2>2, FS_EmptySet
  <2>3. CASE m \in Routes
    BY <2>1, <2>3, FS_Subset, BridgeAssumption
  <2> QED
    BY <2>2, <2>3
<1>3. ~({1, 2, 3} \subseteq m)
  <2> SUFFICES ASSUME {1, 2, 3} \subseteq m PROVE FALSE
    OBVIOUS
  <2>1. IsFiniteSet({1, 2}) /\ Cardinality({1, 2}) = 2
    <3>1. IsFiniteSet({1}) /\ Cardinality({1}) = 1
      BY FS_Singleton
    <3>2. {1} \cup {2} = {1, 2} /\ 2 \notin {1}
      OBVIOUS
    <3> QED
      BY <3>1, <3>2, FS_AddElement
  <2>2. IsFiniteSet({1, 2, 3}) /\ Cardinality({1, 2, 3}) = 3
    <3>1. {1, 2} \cup {3} = {1, 2, 3} /\ 3 \notin {1, 2}
      OBVIOUS
    <3> QED
      BY <2>1, <3>1, FS_AddElement
  <2>3. Cardinality({1, 2, 3}) <= Cardinality(m)
    BY <1>2, FS_Subset
  <2>4. Cardinality(m) \in Nat
    BY <1>2, FS_CardinalityType
  <2> QED
    BY <1>2, <2>2, <2>3, <2>4
<1>4. \E p \in Page : p \notin m /\ 1 .. p - 1 \subseteq m
  <2>1. CASE 1 \notin m
    BY <1>1, <2>1
  <2>2. CASE 1 \in m /\ 2 \notin m
    BY <1>1, <2>2
  <2>3. CASE 1 \in m /\ 2 \in m
    <3>1. 3 \notin m /\ 1 .. 3 - 1 \subseteq m
      BY <1>3, <2>3
    <3> QED
      BY <1>1, <3>1
  <2> QED
    BY <2>1, <2>2, <2>3
<1> QED
  BY <1>4 DEF Parking

LEMMA FilesAreData ==
    ASSUME TypeOK, NEW p \in Page
    PROVE  File(p) \in Data /\ File(p) # None /\ File(p).page = p
BY BridgeAssumption DEF TypeOK, File, Data

-----------------------------------------------------------------------------
(* The methods of Window.  A window fits a page when the game could have   *)
(* it in memory under that window.                                         *)
Fits(v, page) == Sound(v) /\ Names(v, page) /\ Frozen(v, page)

(* live.lock can be had only when the agent does not hold it.              *)
LEMMA SharedIsFree ==
    ASSUME NEW v, NEW page, Fits(v, page), Shared(v)
    PROVE  lease = None
BY DEF Fits, Sound, Shared, Frozen

(* A window that is not parked speaks of no page.                          *)
LEMMA UnparkedFits ==
    ASSUME NEW v, NEW page, NEW other, Fits(v, page), ~v.parked
    PROVE  Fits(v, other) /\ lease = None
BY DEF Fits, Names, Frozen

LEMMA Revoked ==
    ASSUME TypeOK, NEW v, NEW page \in Page, Fits(v, page), lease = None
    PROVE  /\ Fits(Revoke(v), page) /\ ~Revoke(v).parked
           /\ Revoke(v).enabled = v.enabled /\ Revoke(v).market = v.market
BY DEF TypeOK, Fits, Sound, Names, Revoke, Windows, Frozen

LEMMA Configuring ==
    ASSUME TypeOK, NEW v, NEW page \in Page, Fits(v, page)
    PROVE  Fits(Configure(v, page), page)
<1>1. CASE ~Configurable(v)
  BY <1>1 DEF Configure
<1>2. CASE Configurable(v) /\ Rerouted(v)
  <2>1. lease = None
    BY <1>2, SharedIsFree DEF Configurable
  <2>2. Fits(Revoke(v), page) /\ ~Revoke(v).parked
    BY <2>1, Revoked
  <2> QED
    BY <1>2, <2>1, <2>2, BridgeAssumption DEF Configure, Fits, Sound, Names, Windows, TypeOK, Slot, Frozen
<1>3. CASE Configurable(v) /\ ~Rerouted(v)
  <2>1. ~v.parked => lease = None
    BY DEF Fits, Frozen
  <2> DEFINE u == [v EXCEPT !.enabled = TRUE, !.market = settings, !.loaded = page]
             w == [u EXCEPT !.access = @ \/ (~u.parked /\ Shared(v))]
  <2>2. Configure(v, page) = w
    BY <1>3 DEF Configure
  <2>3. Fits(u, page)
    BY <1>3, BridgeAssumption DEF Fits, Sound, Names, Windows, TypeOK, Slot, Frozen
  <2>4. u.parked <=> v.parked
    BY DEF Fits, Sound, Windows, Frozen
  <2> HIDE DEF u
  <2>5. Fits(w, page)
    BY <2>1, <2>3, <2>4 DEF Fits, Sound, Names, Windows, Frozen
  <2> QED
    BY <2>2, <2>5
<1> QED
  BY <1>1, <1>2, <1>3

LEMMA Granting ==
    ASSUME TypeOK, NEW v, NEW page \in Page, Fits(v, page),
           NEW only \in BOOLEAN, NEW published \in BOOLEAN
    PROVE  Fits(OpenGrant(v, page, only, published), page)
<1>1. CASE ~v.enabled \/ ~Shared(v)
  BY <1>1 DEF OpenGrant
<1>2. CASE v.enabled /\ Shared(v)
  <2>1. lease = None
    BY <1>2, SharedIsFree
  <2>2. Fits(Revoke(v), page) /\ ~Revoke(v).parked /\ Revoke(v).enabled
    BY <1>2, <2>1, Revoked
  <2> DEFINE w == [Revoke(v) EXCEPT !.loaded = page, !.passive = only, !.access = TRUE]
  <2>3. Fits(w, page) /\ ~w.parked /\ w.enabled /\ w.loaded = page
    BY <2>1, <2>2 DEF Fits, Sound, Names, Windows, Slot, Frozen
  <2> HIDE DEF w
  <2>w. w \in Windows
    BY <2>3 DEF Fits, Sound, Frozen
  <2>v. View(w) \in Shown
    BY <2>3, <2>w DEF View, Shown, Windows
  <2>4. View(w) \in Shown /\ View(w).ours /\ View(w).loaded = page /\ View(w) # None
    BY <2>3, <2>v, BridgeAssumption DEF View
  <2> DEFINE g == [w EXCEPT !.parked = TRUE, !.access = FALSE, !.shown = View(w)]
  <2>5. Fits(g, page)
    BY <2>1, <2>3, <2>4 DEF Fits, Sound, Names, Windows, Frozen
  <2>6. OpenGrant(v, page, only, published) \in {v, w, g}
    BY DEF OpenGrant, w
  <2> QED
    BY <2>3, <2>5, <2>6
<1> QED
  BY <1>1, <1>2

LEMMA Closing ==
    ASSUME TypeOK, NEW v, NEW page \in Page, Fits(v, page), NEW published \in BOOLEAN
    PROVE  Fits(CloseWindow(v, page, published), page)
<1> DEFINE w == [v EXCEPT !.loaded = IF v.enabled THEN page ELSE @]
<1>1. Fits(w, page)
  BY DEF Fits, Sound, Names, Windows, Slot, Frozen
<1> HIDE DEF w
<1>2. Fits(OpenGrant(w, page, FALSE, published), page)
  BY <1>1, Granting
<1> QED
  BY <1>1, <1>2 DEF CloseWindow, w

LEMMA LoadedFits ==
    ASSUME TypeOK, NEW c, NEW v, NEW page \in Page, Fits(v, page),
           NEW cursor \in BOOLEAN, NEW published \in BOOLEAN
    PROVE  Fits(LoadedWindow(c, v, page, cursor, published), page)
<1> DEFINE done == [v EXCEPT !.refresh = IF page = @ THEN 0 ELSE @]
<1>1. Fits(done, page)
  BY DEF Fits, Sound, Names, Windows, Slot, Frozen
<1> HIDE DEF done
<1>2. Fits(Configure(done, page), page)
  BY <1>1, Configuring
<1> QED
  BY <1>2, Closing, Granting DEF LoadedWindow, done

(* A permission ends the grant; a refusal leaves the page with its window. *)
LEMMA Permitting ==
    ASSUME TypeOK, NEW v, NEW page \in Page, NEW to \in Page, Fits(v, page)
    PROVE  /\ Fits(Permit(v, to), page)
           /\ Permit(v, to).enabled = v.enabled /\ Permit(v, to).market = v.market
           /\ Permitted(v, to) => ~Permit(v, to).parked
<1>1. CASE ~v.enabled \/ ~Shared(v)
  BY <1>1 DEF Permit, Permitted, Fits, Sound, Frozen
<1>2. CASE v.enabled /\ Shared(v) /\ ~Permitted(v, to)
  BY <1>2 DEF Permit, Fits, Sound, Names, Windows, Frozen
<1>3. CASE v.enabled /\ Shared(v) /\ Permitted(v, to)
  <2>1. lease = None
    BY <1>3, SharedIsFree
  <2>2. /\ Fits(Revoke(v), page) /\ ~Revoke(v).parked
        /\ Revoke(v).enabled = v.enabled /\ Revoke(v).market = v.market
    BY <2>1, Revoked
  <2> QED
    BY <1>3, <2>1, <2>2 DEF Permit, Fits, Sound, Names, Windows, Slot, Frozen
<1> QED
  BY <1>1, <1>2, <1>3

-----------------------------------------------------------------------------
(* Steps that leave the page change where it is.                           *)
SameSwitch(c) == /\ c.selected = client.selected /\ c.named = client.named
                 /\ c.phase = client.phase /\ c.previous = client.previous
                 /\ c.packets = client.packets

LEMMA Undisturbed ==
    ASSUME Bridge, Playing, client' \in Clients, SameSwitch(client'),
           Fits(window', client.selected), window'.parked => client.phase = "none",
           client.phase # "none" => /\ window'.enabled = window.enabled
                                    /\ window'.market = window.market,
           UNCHANGED <<agent, world, mem, toServer, toClient>>, faults' \in 0 .. MaxFaults
    PROVE  Bridge'
<1>1. InGame /\ game' = "play"
  BY DEF Bridge, Playing, world
<1>2. TypeOK'
  BY DEF Bridge, TypeOK, Fits, Sound, agent, world
<1>3. Sound(window)'
  BY DEF Fits, Sound, agent
<1>4. Names(window', client'.selected) /\ Frozen(window, client.selected)'
  BY DEF Fits, Frozen, SameSwitch, agent
<1>5. (Memory /\ Switching /\ Channels)'
  BY <1>1 DEF InGame, SameSwitch, Memory, Switching, Channels, Freeing, Loading, Quiet,
              Asked, Sent, File, agent
<1>6. Permission'
  BY <1>1 DEF InGame, Permission, SameSwitch, Unapplied, agent
<1>7. InGame'
  BY <1>4, <1>5, <1>6 DEF InGame, SameSwitch
<1>8. Journal'
  BY DEF Bridge, Journal, agent
<1> QED
  BY <1>1, <1>2, <1>3, <1>7, <1>8 DEF Bridge

(* Steps that end a page change, or need none.                             *)
LEMMA Resting ==
    ASSUME Bridge, Playing, client' \in Clients, client'.phase = "none",
           client'.named = client'.selected, Fits(window', client'.selected),
           mem # None, mem = File(client'.named), toServer' = <<>>, toClient' = <<>>,
           UNCHANGED <<agent, world, mem>>, faults' \in 0 .. MaxFaults
    PROVE  Bridge'
<1>1. game' = "play"
  BY DEF Playing, world
<1>2. TypeOK'
  BY DEF Bridge, TypeOK, Fits, Sound, agent, world
<1>3. Sound(window)'
  BY DEF Fits, Sound, agent
<1>4. Names(window', client'.selected) /\ Frozen(window, client.selected)'
  BY DEF Fits, Frozen, agent
<1>5. (Memory /\ Switching /\ Channels)'
  BY DEF Memory, Switching, Channels, Quiet, File, agent
<1>6. Permission'
  BY DEF Permission
<1>7. InGame'
  BY <1>4, <1>5, <1>6 DEF InGame
<1>8. Journal'
  BY DEF Bridge, Journal, agent
<1> QED
  BY <1>1, <1>2, <1>3, <1>7, <1>8 DEF Bridge

LEMMA LoadedClientRests ==
    ASSUME TypeOK, NEW c \in Clients, NEW v, NEW page \in Page, Fits(v, page),
           NEW cursor \in BOOLEAN
    PROVE  LET n == LoadedClient(c, v, page, cursor)
           IN  /\ n \in Clients /\ n.selected = c.selected /\ n.named = c.named
               /\ n.phase = c.phase
<1>1. Parking(Configure(v, page).market) \in Page
  BY Configuring, ParkingIsAPage DEF Fits, Sound
<1> QED
  BY <1>1 DEF LoadedClient, CloseClient, Clients

LEMMA Pumping ==
    ASSUME Bridge, Playing, NEW c \in Clients, NEW v, c.phase = "none",
           c.named = c.selected, Fits(v, c.selected), mem # None, mem = File(c.selected),
           toServer = <<>>, toClient' = <<>>, UNCHANGED <<agent, world, mem>>, Pump(c, v)
    PROVE  Bridge'
<1>1. TypeOK /\ faults \in 0 .. MaxFaults /\ MaxFaults \in Nat
  BY BridgeAssumption DEF Bridge, TypeOK
<1>2. c.selected \in Page /\ (c.request # None => c.request \in Page)
  BY DEF Clients
<1>3. CASE client' = c /\ window' = v /\ UNCHANGED <<toServer, faults>>
  BY <1>1, <1>3, Resting
<1>4. CASE client' = [c EXCEPT !.request = None] /\ window' = v /\ UNCHANGED <<toServer, faults>>
  BY <1>1, <1>4, Resting DEF Clients
<1>5. ASSUME c.request # None
      PROVE  /\ Fits(Permit(v, c.request), c.selected)
             /\ Permit(v, c.request).enabled = v.enabled
             /\ Permit(v, c.request).market = v.market
             /\ Permitted(v, c.request) => ~Permit(v, c.request).parked
  BY <1>1, <1>2, <1>5, Permitting
<1>6. CASE c.request # None /\ client' = c /\ window' = Permit(v, c.request)
           /\ UNCHANGED <<toServer, faults>>
  BY <1>1, <1>5, <1>6, Resting
<1>7. ASSUME c.request # None, faults < MaxFaults, faults' = faults + 1, UNCHANGED toServer,
             NEW cursor \in BOOLEAN, NEW published \in BOOLEAN,
             client' = LoadedClient([c EXCEPT !.request = None], Permit(v, c.request),
                                    c.selected, cursor),
             window' = LoadedWindow(c, Permit(v, c.request), c.selected, cursor, published)
      PROVE  Bridge'
  <2>1. Fits(window', c.selected)
    BY <1>1, <1>2, <1>5, <1>7, LoadedFits
  <2> DEFINE d == [c EXCEPT !.request = None]
  <2>2. d \in Clients /\ d.selected = c.selected /\ d.named = c.named /\ d.phase = c.phase
    BY DEF Clients
  <2>3. client' = LoadedClient(d, Permit(v, c.request), c.selected, cursor)
    BY <1>7
  <2> HIDE DEF d
  <2>4. /\ client' \in Clients /\ client'.selected = c.selected
        /\ client'.named = c.named /\ client'.phase = c.phase
    BY <1>1, <1>2, <1>5, <1>7, <2>2, <2>3, LoadedClientRests
  <2>5. faults' \in 0 .. MaxFaults
    BY <1>1, <1>7
  <2>6. toServer' = <<>> /\ mem = File(client'.named)
    BY <1>7, <2>4
  <2> QED
    BY <2>1, <2>4, <2>5, <2>6, Resting
<1>8. ASSUME c.request # None, Permitted(v, c.request),
             client' = [c EXCEPT !.request = None, !.packets = File(c.request),
                                 !.previous = c.selected, !.attempted = FALSE,
                                 !.phase = "freed", !.selected = c.request,
                                 !.restoreTo = IF @ = c.request THEN 0 ELSE @],
             window' = Permit(v, c.request),
             toServer' = Append(toServer, [kind |-> "changed", page |-> c.request,
                                           data |-> None]),
             UNCHANGED faults
      PROVE  Bridge'
  <2>1. PICK p \in Page : p = c.request
    BY <1>2, <1>8
  <2>2. File(p) \in Data /\ File(p) # None
    BY <1>1, FilesAreData
  <2>3. Fits(window', c.selected) /\ ~window'.parked
        /\ window'.enabled = v.enabled /\ window'.market = v.market
    BY <1>5, <1>8
  <2>4. lease = None
    BY <2>3, UnparkedFits
  <2>5. /\ client' \in Clients /\ client'.selected = p /\ client'.named = c.selected
        /\ client'.previous = c.selected /\ client'.phase = "freed"
        /\ client'.packets = File(p)
    BY <1>2, <1>8, <2>1, <2>2 DEF Clients, Slot
  <2>6. toServer' = <<[kind |-> "changed", page |-> p, data |-> None]>>
    BY <1>8, <2>1
  <2>7. game' = "play" /\ lease' = None
    BY <2>4 DEF Playing, world, agent
  <2>8. TypeOK'
    <3>1. toServer' \in Seq([kind : {"changed", "loaded"}, page : Page,
                             data : {None} \cup Data])
      BY <2>6
    <3> QED
      BY <1>1, <1>8, <2>3, <2>5, <3>1 DEF TypeOK, Fits, Sound, agent, world
  <2>9. Sound(window)'
    BY <2>3, <2>7 DEF Fits, Sound
  <2>10. Names(window', client'.selected) /\ Frozen(window, client.selected)'
    BY <2>3, <2>7 DEF Names, Frozen
  <2>11. File(p)' = File(p) /\ File(c.selected)' = File(c.selected)
    BY DEF File, agent
  <2>12. Memory' /\ Switching'
    <3>1. mem' = File(client.named)'
      BY <2>5, <2>11
    <3>2. client'.packets = File(client.selected)'
      BY <2>5, <2>11
    <3> QED
      BY <1>2, <2>2, <2>5, <3>1, <3>2 DEF Memory, Switching
  <2>13. Channels'
    BY <2>5, <2>6 DEF Channels, Freeing, Asked
  <2>14. Permission'
    BY <1>8, <2>1, <2>3, <2>5 DEF Permission, Permitted, Pending, Unapplied, agent
  <2>15. Journal'
    BY DEF Bridge, Journal, agent
  <2> QED
    BY <2>3, <2>7, <2>8, <2>9, <2>10, <2>12, <2>13, <2>14, <2>15 DEF Bridge, InGame
<1> QED
  BY <1>3, <1>4, <1>6, <1>7, <1>8 DEF Pump

-----------------------------------------------------------------------------
(* The handlers of the native side.                                        *)
LEMMA AtRest ==
    ASSUME Bridge, Idle
    PROVE  /\ client \in Clients /\ client.phase = "none" /\ client.selected \in Page
           /\ client.named = client.selected
           /\ mem # None /\ mem = File(client.selected) /\ Quiet
           /\ Fits(window, client.selected) /\ TypeOK /\ window \in Windows
<1>1. InGame /\ TypeOK /\ Sound(window)
  BY DEF Bridge, Idle, Playing
<1>2. client \in Clients /\ client.phase = "none" /\ window \in Windows
  BY <1>1 DEF Idle, TypeOK
<1>3. client.named = client.selected /\ mem # None /\ Quiet
  BY <1>1, <1>2 DEF InGame, Switching, Channels, Freeing, Loading
<1> QED
  BY <1>1, <1>2, <1>3 DEF InGame, Memory, Fits, Clients

LEMMA InSwitch ==
    ASSUME Bridge, Playing, client.phase # "none"
    PROVE  /\ client \in Clients /\ window \in Windows /\ TypeOK
           /\ ~window.parked /\ lease = None /\ \A page : Fits(window, page)
BY DEF Bridge, Playing, InGame, Fits, Names, Frozen, TypeOK

LEMMA Changing ==
    ASSUME Bridge, Playing, NEW c \in Clients, SameSwitch(c), NEW v,
           client.phase = "none" => Fits(v, client.selected),
           client.phase # "none" => v = window,
           Pump(c, v), UNCHANGED <<agent, world, mem, toClient>>
    PROVE  Bridge'
<1>1. CASE client.phase = "none"
  <2>1. Idle
    BY <1>1 DEF Idle
  <2> QED
    BY <1>1, <2>1, AtRest, Pumping DEF SameSwitch, Quiet
<1>2. CASE client.phase # "none"
  <2>1. client' = c /\ window' = window /\ UNCHANGED <<toServer, faults>>
    BY <1>2 DEF Pump, SameSwitch
  <2>2. Fits(window, client.selected) /\ ~window.parked /\ faults \in 0 .. MaxFaults
    BY <1>2, InSwitch DEF TypeOK
  <2> QED
    BY <2>1, <2>2, Undisturbed
<1> QED
  BY <1>1, <1>2

(* What the window remembers besides its grant does not matter to it.      *)
LEMMA Remembering ==
    ASSUME NEW v, NEW page, Fits(v, page), NEW w \in Windows,
           w.enabled = v.enabled, w.parked <=> v.parked, w.loaded = v.loaded,
           w.market = v.market, w.access <=> v.access, w.shown = v.shown
    PROVE  Fits(w, page)
BY DEF Fits, Sound, Names, Frozen

LEMMA PageChanges ==
    ASSUME Bridge,
           TimerPump \/ (\E page \in Page : SelectPage(page)) \/ RestorePage
    PROVE  Bridge'
<1>1. Playing
  BY DEF TimerPump, SelectPage, RestorePage, Idle
<1>2. client \in Clients /\ TypeOK /\ faults \in 0 .. MaxFaults
  BY DEF Bridge, TypeOK
<1>3. client.phase = "none" => Fits(window, client.selected)
  BY <1>1, AtRest DEF Idle
<1>4. CASE TimerPump
  BY <1>1, <1>2, <1>3, <1>4, Changing DEF TimerPump, SameSwitch
<1>5. ASSUME NEW page \in Page, SelectPage(page)
      PROVE  Bridge'
  <2> DEFINE c == [[client EXCEPT !.restoreTo = 0] EXCEPT !.request = page]
  <2>1. c \in Clients /\ SameSwitch(c)
    BY <1>2 DEF Clients, SameSwitch, Slot
  <2>2. Pump(c, window) /\ UNCHANGED <<agent, world, mem, toClient>>
    BY <1>5 DEF SelectPage, Change
  <2> HIDE DEF c
  <2> QED
    BY <1>1, <1>3, <2>1, <2>2, Changing
<1>6. CASE RestorePage /\ client.restoreTo # client.selected
  <2> DEFINE c == [client EXCEPT !.request = client.restoreTo]
  <2>1. c \in Clients /\ SameSwitch(c)
    BY <1>2, <1>6 DEF Clients, SameSwitch, Slot, RestorePage
  <2>2. Pump(c, window) /\ UNCHANGED <<agent, world, mem, toClient>>
    BY <1>6 DEF RestorePage, Change
  <2> HIDE DEF c
  <2> QED
    BY <1>1, <1>3, <2>1, <2>2, Changing
<1>7. CASE RestorePage /\ client.restoreTo = client.selected
  <2>1. Fits(window, client.selected) /\ client.phase = "none"
    BY <1>3, <1>7 DEF RestorePage, Idle
  <2>2. client' = [client EXCEPT !.restoreTo = 0] /\ UNCHANGED <<window, toServer, faults>>
        /\ UNCHANGED <<agent, world, mem, toClient>>
    BY <1>7 DEF RestorePage
  <2>3. client' \in Clients /\ SameSwitch(client')
    BY <1>2, <2>2 DEF Clients, SameSwitch, Slot
  <2> QED
    BY <1>1, <1>2, <2>1, <2>2, <2>3, Undisturbed
<1> QED
  BY <1>4, <1>5, <1>6, <1>7

LEMMA BankOpens ==
    ASSUME Bridge, BankOpen
    PROVE  Bridge'
<1>0. Playing /\ TypeOK /\ client \in Clients /\ window \in Windows
      /\ client.selected \in Page /\ faults \in 0 .. MaxFaults
  BY DEF BankOpen, Bridge, TypeOK, Clients
<1> DEFINE v == IF Idle THEN Configure(window, client.selected) ELSE window
           r == IF v.enabled /\ (v.parked \/ ~Idle) THEN v.restore ELSE 0
<1>1. Fits(v, client.selected) /\ (~Idle => ~v.parked /\ v = window)
  <2>1. CASE Idle
    BY <1>0, <2>1, AtRest, Configuring
  <2>2. CASE ~Idle
    BY <1>0, <2>2, InSwitch DEF Idle
  <2> QED
    BY <2>1, <2>2
<1>2. v \in Windows /\ r \in Slot
  BY <1>1 DEF Fits, Sound, Windows, Slot
<1>3. PICK published \in BOOLEAN :
        /\ client' = [client EXCEPT !.panel = "open", !.restoreTo = r]
        /\ window' = [IF r = 0 /\ Idle /\ Configured(window, v)
                      THEN OpenGrant(v, client.selected, TRUE, published) ELSE v
                      EXCEPT !.restore = 0]
  BY DEF BankOpen
<1> HIDE DEF v, r
<1> DEFINE w == IF r = 0 /\ Idle /\ Configured(window, v)
                THEN OpenGrant(v, client.selected, TRUE, published) ELSE v
<1>4. Fits(w, client.selected) /\ (~Idle => w = window /\ ~w.parked)
  BY <1>0, <1>1, Granting
<1>5. window' = [w EXCEPT !.restore = 0]
  BY <1>3
<1> HIDE DEF w
<1>6. w \in Windows
  BY <1>4 DEF Fits, Sound
<1>7. /\ window' \in Windows /\ window'.enabled = w.enabled /\ window'.market = w.market
      /\ window'.parked <=> w.parked
      /\ Fits(window', client.selected)
  <2>1. window' \in Windows
    BY <1>5, <1>6 DEF Windows, Slot
  <2> QED
    BY <1>4, <1>5, <1>6, <2>1, Remembering DEF Windows
<1>8. client' \in Clients /\ SameSwitch(client')
  BY <1>0, <1>2, <1>3 DEF Clients, SameSwitch
<1>9. UNCHANGED <<agent, world, mem, toClient, toServer, faults>>
  BY DEF BankOpen
<1> QED
  BY <1>0, <1>4, <1>7, <1>8, <1>9, Undisturbed DEF Idle

LEMMA BankCloses ==
    ASSUME Bridge, BankClose
    PROVE  Bridge'
<1>0. Playing /\ TypeOK /\ client \in Clients /\ window \in Windows
      /\ client.selected \in Page /\ faults \in 0 .. MaxFaults
  BY DEF BankClose, Bridge, TypeOK, Clients
<1> DEFINE page == client.selected
           c == [client EXCEPT !.panel = "closed", !.restoreTo = 0, !.request = None]
           v == [window EXCEPT !.restore = IF ~window.enabled THEN @
                                           ELSE IF Refreshing THEN window.refresh ELSE page]
           w == IF Idle THEN Configure(v, page) ELSE v
           kept == [w EXCEPT !.restore = IF Refreshing THEN @ ELSE page]
<1>1. PICK cursor \in BOOLEAN, published \in BOOLEAN :
        IF ~Idle \/ ~Configured(v, w) \/ cursor
        THEN client' = c /\ window' = w /\ UNCHANGED <<toServer, faults>>
        ELSE IF MustPark(w, page)
        THEN Change(c, CloseWindow(kept, page, published), Parking(w.market))
        ELSE /\ client' = c /\ window' = CloseWindow(kept, page, published)
             /\ UNCHANGED <<toServer, faults>>
  BY DEF BankClose
<1>2. UNCHANGED <<agent, world, mem, toClient>>
  BY DEF BankClose
<1>3. Fits(window, page)
  BY <1>0, AtRest, InSwitch DEF Idle
<1>4. c \in Clients /\ SameSwitch(c) /\ c.phase = client.phase
  BY <1>0 DEF Clients, SameSwitch, Slot
<1>5. v \in Windows /\ Fits(v, page) /\ v.enabled = window.enabled
      /\ v.market = window.market /\ (v.parked <=> window.parked)
  <2>1. v \in Windows
    BY <1>0 DEF Windows, Slot
  <2>2. /\ v.enabled = window.enabled /\ (v.parked <=> window.parked)
        /\ v.loaded = window.loaded /\ v.market = window.market
        /\ (v.access <=> window.access) /\ v.shown = window.shown
    BY <1>0 DEF Windows
  <2> HIDE DEF v
  <2> QED
    BY <1>3, <2>1, <2>2, Remembering
<1> HIDE DEF v
<1>6. Fits(w, page) /\ (~Idle => w = v)
  BY <1>0, <1>5, Configuring
<1> HIDE DEF w
<1>7. kept \in Windows /\ Fits(kept, page)
  <2>0. w \in Windows
    BY <1>6 DEF Fits, Sound
  <2>1. kept \in Windows
    BY <1>0, <2>0 DEF Windows, Slot
  <2>2. /\ kept.enabled = w.enabled /\ (kept.parked <=> w.parked)
        /\ kept.loaded = w.loaded /\ kept.market = w.market
        /\ (kept.access <=> w.access) /\ kept.shown = w.shown
    BY <2>0 DEF Windows
  <2> HIDE DEF kept
  <2> QED
    BY <1>6, <2>1, <2>2, Remembering
<1> HIDE DEF kept
<1>8. Fits(CloseWindow(kept, page, published), page)
  BY <1>0, <1>7, Closing
<1>9. CASE ~Idle \/ ~Configured(v, w) \/ cursor
  <2>1. client' = c /\ window' = w /\ UNCHANGED <<toServer, faults>>
    BY <1>1, <1>9
  <2>2. window'.parked => client.phase = "none"
    BY <1>0, <1>5, <1>6, <2>1, InSwitch DEF Idle
  <2>3. client.phase # "none" => /\ window'.enabled = window.enabled
                                 /\ window'.market = window.market
    BY <1>0, <1>5, <1>6, <2>1 DEF Idle
  <2> HIDE DEF c
  <2> QED
    BY <1>0, <1>2, <1>4, <1>6, <2>1, <2>2, <2>3, Undisturbed
<1>10. CASE Idle /\ ~(~Configured(v, w) \/ cursor) /\ MustPark(w, page)
  <2> DEFINE d == [c EXCEPT !.request = Parking(w.market)]
  <2>1. Parking(w.market) \in Page
    BY <1>6, ParkingIsAPage DEF Fits, Sound
  <2>2. d \in Clients /\ SameSwitch(d)
    BY <1>4, <2>1 DEF Clients, SameSwitch
  <2>3. Pump(d, CloseWindow(kept, page, published))
    BY <1>1, <1>10 DEF Change
  <2> HIDE DEF d
  <2> QED
    BY <1>0, <1>2, <1>8, <1>10, <2>2, <2>3, Changing DEF Idle
<1>11. CASE Idle /\ ~(~Configured(v, w) \/ cursor) /\ ~MustPark(w, page)
  <2>1. client' = c /\ window' = CloseWindow(kept, page, published)
        /\ UNCHANGED <<toServer, faults>>
    BY <1>1, <1>11
  <2> HIDE DEF c
  <2> QED
    BY <1>0, <1>2, <1>4, <1>8, <1>11, <2>1, Undisturbed DEF Idle
<1> QED
  BY <1>9, <1>10, <1>11

LEMMA BankStaysClosed ==
    ASSUME Bridge, ContinueClosed
    PROVE  Bridge'
<1>0. Idle /\ Playing /\ UNCHANGED <<agent, world, mem, toClient>>
  BY DEF ContinueClosed, Idle
<1>1. /\ TypeOK /\ client \in Clients /\ client.selected \in Page /\ client.phase = "none"
      /\ Fits(window, client.selected) /\ faults \in 0 .. MaxFaults
  BY <1>0, AtRest DEF TypeOK
<1>2. \A published \in BOOLEAN :
        Fits(CloseWindow(window, client.selected, published), client.selected)
  BY <1>1, Closing
<1>3. CASE MustPark(window, client.selected)
  <2> DEFINE d == [client EXCEPT !.request = Parking(window.market)]
  <2>1. Parking(window.market) \in Page
    BY <1>1, ParkingIsAPage DEF Fits, Sound
  <2>2. d \in Clients /\ SameSwitch(d)
    BY <1>1, <2>1 DEF Clients, SameSwitch
  <2>3. Pump(d, CloseWindow(window, client.selected, TRUE))
    BY <1>3 DEF ContinueClosed, Change
  <2> HIDE DEF d
  <2> QED
    BY <1>0, <1>1, <1>2, <2>2, <2>3, Changing
<1>4. CASE ~MustPark(window, client.selected)
  <2>1. PICK published \in BOOLEAN :
          window' = CloseWindow(window, client.selected, published)
    BY <1>4 DEF ContinueClosed
  <2>2. UNCHANGED <<client, toServer, faults>>
    BY <1>4 DEF ContinueClosed
  <2>3. client' \in Clients /\ SameSwitch(client')
    BY <1>1, <2>2 DEF SameSwitch
  <2> QED
    BY <1>0, <1>1, <1>2, <2>1, <2>2, <2>3, Undisturbed
<1> QED
  BY <1>3, <1>4

LEMMA Connecting ==
    ASSUME Bridge, Connect
    PROVE  Bridge'
<1>0. Idle /\ Playing /\ UNCHANGED <<agent, world, mem, toClient, toServer, client, faults>>
  BY DEF Connect, Idle
<1>1. /\ TypeOK /\ client \in Clients /\ client.selected \in Page /\ client.phase = "none"
      /\ Fits(window, client.selected) /\ faults \in 0 .. MaxFaults
  BY <1>0, AtRest DEF TypeOK
<1> DEFINE v == Configure(window, client.selected)
           w == IF ~window.enabled /\ client.panel = "closed"
                THEN [v EXCEPT !.restore = client.selected] ELSE v
<1>2. PICK published \in BOOLEAN :
        window' = IF ~Configured(window, v) THEN v
                  ELSE IF client.panel = "open" /\ ~v.parked
                  THEN OpenGrant(w, client.selected, TRUE, published) ELSE w
  BY DEF Connect
<1>3. Fits(v, client.selected) /\ v \in Windows
  BY <1>1, Configuring DEF Fits, Sound
<1> HIDE DEF v
<1>4. Fits(w, client.selected)
  <2> DEFINE u == [v EXCEPT !.restore = client.selected]
  <2>1. u \in Windows
    BY <1>1, <1>3 DEF Windows, Slot
  <2>2. /\ u.enabled = v.enabled /\ (u.parked <=> v.parked)
        /\ u.loaded = v.loaded /\ u.market = v.market
        /\ (u.access <=> v.access) /\ u.shown = v.shown
    BY <1>3 DEF Windows
  <2> HIDE DEF u
  <2>3. Fits(u, client.selected)
    BY <1>3, <2>1, <2>2, Remembering
  <2> QED
    BY <1>3, <2>3 DEF u
<1> HIDE DEF w
<1>5. Fits(window', client.selected)
  BY <1>1, <1>2, <1>3, <1>4, Granting
<1>6. client' \in Clients /\ SameSwitch(client')
  BY <1>0, <1>1 DEF SameSwitch
<1> QED
  BY <1>0, <1>1, <1>5, <1>6, Undisturbed

LEMMA Refreshes ==
    ASSUME Bridge,
           BeginRefresh \/ (\E late \in BOOLEAN : RefreshTick(late)) \/ GoldDeposit
    PROVE  Bridge'
<1>0. Idle /\ Playing /\ UNCHANGED <<agent, world, mem, toClient>>
  BY DEF BeginRefresh, RefreshTick, GoldDeposit, Idle
<1>1. /\ TypeOK /\ client \in Clients /\ client.selected \in Page /\ client.phase = "none"
      /\ Fits(window, client.selected) /\ window \in Windows /\ faults \in 0 .. MaxFaults
  BY <1>0, AtRest DEF TypeOK
<1>2. Parking(window.market) \in Page
  BY <1>1, ParkingIsAPage DEF Fits, Sound
<1>3. CASE BeginRefresh
  <2> DEFINE c == [client EXCEPT !.request = Parking(window.market)]
             v == [window EXCEPT !.refresh = client.selected, !.asked = FALSE]
  <2>1. c \in Clients /\ SameSwitch(c)
    BY <1>1, <1>2 DEF Clients, SameSwitch
  <2>2. v \in Windows
    BY <1>1 DEF Windows, Slot
  <2>3. /\ v.enabled = window.enabled /\ (v.parked <=> window.parked)
        /\ v.loaded = window.loaded /\ v.market = window.market
        /\ (v.access <=> window.access) /\ v.shown = window.shown
    BY <1>1 DEF Windows
  <2>4. Pump(c, v)
    BY <1>3 DEF BeginRefresh, Change
  <2> HIDE DEF c, v
  <2>5. Fits(v, client.selected)
    BY <1>1, <2>2, <2>3, Remembering
  <2> QED
    BY <1>0, <1>1, <2>1, <2>4, <2>5, Changing
<1>4. ASSUME NEW late \in BOOLEAN, RefreshTick(late)
      PROVE  Bridge'
  <2>0. /\ Refreshing /\ Shared(window) /\ window.refresh \in Page
    BY <1>1, <1>4 DEF RefreshTick, Refreshing, Windows, Slot
  <2>1. lease = None
    BY <1>1, <2>0, SharedIsFree
  <2>2. ASSUME UNCHANGED <<client, toServer, faults>>, Fits(window', client.selected)
        PROVE  Bridge'
    <3>1. client' \in Clients /\ SameSwitch(client') /\ faults' \in 0 .. MaxFaults
      BY <1>1, <2>2 DEF SameSwitch
    <3> QED
      BY <1>0, <1>1, <2>2, <3>1, Undisturbed
  <2> DEFINE u == [window EXCEPT !.access = FALSE]
             v == [window EXCEPT !.access = TRUE]
             w == [v EXCEPT !.refresh = 0]
             c == [client EXCEPT !.request = window.refresh]
  <2>3. Fits(u, client.selected) /\ Fits(v, client.selected) /\ v \in Windows
    BY <1>1, <2>1 DEF Fits, Sound, Names, Frozen, Windows
  <2>4. Fits(w, client.selected)
    BY <1>1, <2>1 DEF Fits, Sound, Names, Frozen, Windows, Slot
  <2>5. c \in Clients /\ SameSwitch(c)
    BY <1>1, <2>0 DEF Clients, SameSwitch
  <2>6. \/ window' \in {u, v, w} /\ UNCHANGED <<client, toServer, faults>>
        \/ Pump(c, v)
    BY <1>4 DEF RefreshTick, Change
  <2> HIDE DEF u, v, w, c
  <2> QED
    BY <1>0, <1>1, <2>2, <2>3, <2>4, <2>5, <2>6, Changing
<1>5. CASE GoldDeposit
  <2>1. window' = [window EXCEPT !.asked = TRUE] /\ UNCHANGED <<toServer, client, faults>>
    BY <1>5 DEF GoldDeposit
  <2>2. window' \in Windows
    BY <1>1, <2>1 DEF Windows
  <2>3. /\ window'.enabled = window.enabled /\ (window'.parked <=> window.parked)
        /\ window'.loaded = window.loaded /\ window'.market = window.market
        /\ (window'.access <=> window.access) /\ window'.shown = window.shown
    BY <1>1, <2>1 DEF Windows
  <2>4. Fits(window', client.selected)
    BY <1>1, <2>2, <2>3, Remembering
  <2>5. client' \in Clients /\ SameSwitch(client') /\ faults' \in 0 .. MaxFaults
    BY <1>1, <2>1 DEF SameSwitch
  <2> QED
    BY <1>0, <1>1, <2>1, <2>4, <2>5, Undisturbed
<1> QED
  BY <1>3, <1>4, <1>5

LEMMA Beating ==
    ASSUME Bridge, Heartbeat
    PROVE  Bridge'
<1>1. /\ Playing /\ window.enabled /\ window.parked /\ window' = [window EXCEPT !.shown = View(window)]
      /\ UNCHANGED <<agent, world, mem, toClient, toServer, client, faults>>
  BY DEF Heartbeat
<1>2. InGame /\ client.phase = "none" /\ Idle
  BY <1>1 DEF Bridge, InGame, Playing, Idle
<1>3. /\ TypeOK /\ client \in Clients /\ client.selected \in Page
      /\ Fits(window, client.selected) /\ window \in Windows /\ faults \in 0 .. MaxFaults
  BY <1>2, AtRest DEF TypeOK
<1>4. window.loaded = client.selected
  BY <1>1, <1>3 DEF Fits, Names
<1>5. View(window) \in Shown
  BY <1>3, <1>4 DEF View, Shown, Windows
<1>6. View(window) # None /\ View(window).ours /\ View(window).loaded = client.selected
  BY <1>4, <1>5, BridgeAssumption DEF View
<1>7. Fits(window', client.selected)
  BY <1>1, <1>3, <1>5, <1>6 DEF Fits, Sound, Names, Frozen, Windows
<1>8. client' \in Clients /\ SameSwitch(client') /\ faults' \in 0 .. MaxFaults
  BY <1>1, <1>3 DEF SameSwitch
<1> QED
  BY <1>1, <1>2, <1>7, <1>8, Undisturbed

-----------------------------------------------------------------------------
(* The page change.                                                        *)
LEMMA MidSwitch ==
    ASSUME Bridge, Playing, client.phase # "none", client'.phase # "none",
           window' = window, UNCHANGED <<agent, world>>, client' \in Clients,
           mem' \in {None} \cup Data, faults' \in 0 .. MaxFaults,
           toServer' \in Seq([kind : {"changed", "loaded"}, page : Page,
                              data : {None} \cup Data]),
           toClient' \in Seq([kind : {"busy", "freed", "failed", "created"}, page : Page]),
           Memory', Switching', Channels', Permission'
    PROVE  Bridge'
<1>1. ~window.parked /\ lease = None /\ Sound(window)
  BY InSwitch DEF Bridge
<1>2. game' = "play" /\ Sound(window)' /\ ~window'.parked /\ lease' = None
  BY <1>1 DEF Playing, world, agent, Sound
<1>3. TypeOK' /\ Journal'
  BY DEF Bridge, TypeOK, Journal, agent, world
<1>4. Names(window', client'.selected) /\ Frozen(window, client.selected)'
  BY <1>2 DEF Names, Frozen
<1> QED
  BY <1>2, <1>3, <1>4 DEF Bridge, InGame

(* A save writes what the file already holds.                              *)
LEMMA SavesChangeNothing ==
    ASSUME Bridge, Playing
    PROVE  Saved = disk
<1>1. Memory /\ disk \in [Page -> 0 .. MaxWrites]
  BY DEF Bridge, InGame, Playing, TypeOK
<1> QED
  BY <1>1 DEF Memory, Saved, File

LEMMA AnAnswer ==
    ASSUME NEW kind \in {"busy", "freed", "failed", "created"}, NEW page \in Page
    PROVE  <<[kind |-> kind, page |-> page]>>
             \in Seq([kind : {"busy", "freed", "failed", "created"}, page : Page])
OBVIOUS

LEMMA ServerReceives ==
    ASSUME Bridge, ServerReceive
    PROVE  Bridge'
<1>0. /\ Playing /\ InGame /\ TypeOK /\ client \in Clients /\ client.selected \in Page
      /\ faults \in 0 .. MaxFaults /\ MaxFaults \in Nat
  BY BridgeAssumption DEF ServerReceive, Bridge, Playing, TypeOK, Clients
<1>1. UNCHANGED <<lease, pending, world, window, client>> /\ toServer # <<>>
      /\ toServer' = Tail(toServer)
  BY DEF ServerReceive
<1>2. Memory /\ Switching /\ Channels /\ Permission
  BY <1>0 DEF InGame
<1>3. client.phase # "none" /\ (Freeing \/ Loading)
  BY <1>1, <1>2 DEF Channels, Quiet, Freeing, Loading
<1>4. CASE Freeing
  <2>1. client.phase = "freed" /\ mem # None /\ toClient = <<>>
        /\ toServer = <<[kind |-> "changed", page |-> client.selected, data |-> None]>>
    BY <1>1, <1>4 DEF Freeing, Asked
  <2>2. toServer' = <<>> /\ Head(toServer).kind = "changed"
        /\ Head(toServer).page = client.selected
    BY <1>1, <2>1
  <2>3. disk' = disk /\ UNCHANGED faults
    BY <1>0, <2>2, SavesChangeNothing DEF ServerReceive
  <2>4. \/ /\ toClient' = <<[kind |-> "busy", page |-> client.selected]>> /\ mem' = mem
        \/ /\ toClient' = <<[kind |-> "freed", page |-> client.selected]>> /\ mem' = None
    BY <2>1, <2>2 DEF ServerReceive, Reply
  <2>5. Memory' /\ Switching' /\ Permission'
    BY <1>1, <1>2, <2>3, <2>4 DEF Memory, Switching, Permission, File, Unapplied
  <2>6. Channels'
    BY <1>1, <2>1, <2>2, <2>4 DEF Channels, Freeing, Sent
  <2>7. toClient' \in Seq([kind : {"busy", "freed", "failed", "created"}, page : Page])
    BY <1>0, <2>4, AnAnswer
  <2>8. mem' \in {None} \cup Data /\ client'.phase # "none" /\ client' \in Clients
        /\ faults' \in 0 .. MaxFaults /\ UNCHANGED <<agent, world>>
    BY <1>0, <1>1, <1>3, <2>3, <2>4 DEF TypeOK, agent
  <2>9. toServer' \in Seq([kind : {"changed", "loaded"}, page : Page,
                           data : {None} \cup Data])
    BY <2>2
  <2> QED
    BY <1>0, <1>1, <1>3, <2>5, <2>6, <2>7, <2>8, <2>9, MidSwitch
<1>5. CASE Loading
  <2>1. client.phase = "created" /\ mem = None /\ toClient = <<>> /\ client.packets # None
        /\ toServer = <<[kind |-> "loaded", page |-> client.selected,
                         data |-> client.packets]>>
    BY <1>1, <1>5 DEF Loading, Asked, Quiet
  <2>2. toServer' = <<>> /\ Head(toServer).kind = "loaded"
        /\ Head(toServer).page = client.selected /\ Head(toServer).data = client.packets
    BY <1>1, <2>1
  <2>3. PICK bad \in BOOLEAN :
          /\ mem' = IF bad THEN None ELSE client.packets
          /\ toClient' = Append(toClient, [kind |-> IF bad THEN "failed" ELSE "created",
                                           page |-> client.selected])
          /\ Fault(bad)
    BY <2>2 DEF ServerReceive, Reply
  <2>4. disk' = disk /\ faults' \in 0 .. MaxFaults
    BY <1>0, <2>2, <2>3 DEF ServerReceive, Fault
  <2>5. \/ /\ toClient' = <<[kind |-> "created", page |-> client.selected]>>
           /\ mem' = client.packets
        \/ /\ toClient' = <<[kind |-> "failed", page |-> client.selected]>> /\ mem' = None
    BY <2>1, <2>3
  <2>6. client.packets = File(client.selected) /\ client.named = client.selected
        /\ client.packets \in Data
    BY <1>0, <1>2, <2>1 DEF Switching, Clients
  <2>7. Memory' /\ Switching' /\ Permission'
    BY <1>1, <1>2, <2>4, <2>5, <2>6 DEF Memory, Switching, Permission, File, Unapplied
  <2>8. Channels'
    BY <1>1, <2>1, <2>2, <2>5 DEF Channels, Loading, Sent
  <2>9. toClient' \in Seq([kind : {"busy", "freed", "failed", "created"}, page : Page])
    BY <1>0, <2>5, AnAnswer
  <2>10. mem' \in {None} \cup Data /\ client'.phase # "none" /\ client' \in Clients
        /\ faults' \in 0 .. MaxFaults /\ UNCHANGED <<agent, world>>
    BY <1>0, <1>1, <1>3, <2>4, <2>5, <2>6 DEF agent
  <2>11. toServer' \in Seq([kind : {"changed", "loaded"}, page : Page,
                            data : {None} \cup Data])
    BY <2>2
  <2> QED
    BY <1>0, <1>1, <1>3, <2>7, <2>8, <2>9, <2>10, <2>11, MidSwitch
<1> QED
  BY <1>3, <1>4, <1>5

LEMMA ClientReceives ==
    ASSUME Bridge, ClientReceive
    PROVE  Bridge'
<1>0. /\ Playing /\ InGame /\ TypeOK /\ client \in Clients /\ client.selected \in Page
      /\ faults \in 0 .. MaxFaults /\ MaxFaults \in Nat
  BY BridgeAssumption DEF ClientReceive, Bridge, Playing, TypeOK, Clients
<1>1. /\ UNCHANGED <<agent, world, mem>> /\ toClient # <<>> /\ toClient' = Tail(toClient)
  BY DEF ClientReceive
<1>2. Memory /\ Switching /\ Channels /\ Permission
  BY <1>0 DEF InGame
<1>3. client.phase # "none" /\ (Freeing \/ Loading)
  BY <1>1, <1>2 DEF Channels, Quiet, Freeing, Loading
<1>4. \A page : Fits(window, page)
  BY <1>0, <1>3, InSwitch
<1>5. client.previous \in Page
  BY <1>2, <1>3 DEF Switching
<1>6. PICK kind \in {"busy", "freed", "failed", "created"} :
        /\ toClient = <<[kind |-> kind, page |-> client.selected]>> /\ toServer = <<>>
        /\ kind \in {"busy", "freed"} <=> client.phase = "freed"
        /\ kind \in {"busy", "created"} <=> mem # None
  BY <1>1, <1>3 DEF Freeing, Loading, Sent, Quiet
<1>7. /\ toClient' = <<>> /\ Head(toClient).kind = kind
      /\ Head(toClient).page = client.selected
      /\ client.phase \in {"freed", "created"}
  BY <1>0, <1>1, <1>3, <1>6 DEF Clients
<1>8. Expected(Head(toClient))
  BY <1>6, <1>7 DEF Expected
<1>9. \/ /\ kind = "busy"
         /\ client' = [Settle(client) EXCEPT !.selected = client.previous,
                        !.request = IF @ = None THEN client.selected ELSE @]
         /\ UNCHANGED <<window, toServer, faults>>
      \/ /\ kind = "freed"
         /\ LET n == [client EXCEPT !.named = client.selected]
                data == Fresh(n, client.selected)
            IN  IF data = None
                THEN \E bad \in BOOLEAN : Recover(n, bad) /\ Fault(bad)
                ELSE SendLoaded(n, data) /\ UNCHANGED faults
         /\ UNCHANGED window
      \/ /\ kind = "failed"
         /\ IF client.attempted THEN UNCHANGED <<client, toServer, faults>>
            ELSE \E bad \in BOOLEAN : Recover(client, bad) /\ Fault(bad)
         /\ UNCHANGED window
      \/ /\ kind = "created"
         /\ \E cursor, published \in BOOLEAN :
              LET n == LoadedClient(client, window, client.selected, cursor)
              IN  Pump(Settle(n), LoadedWindow(client, window, client.selected, cursor,
                                               published))
  BY <1>7, <1>8 DEF ClientReceive
<1>10. CASE kind = "busy"
  <2>1. /\ client' = [Settle(client) EXCEPT !.selected = client.previous,
                        !.request = IF @ = None THEN client.selected ELSE @]
        /\ UNCHANGED <<window, toServer, faults>>
    BY <1>9, <1>10
  <2>2. /\ client' \in Clients /\ client'.phase = "none" /\ client'.selected = client.previous
        /\ client'.named = client.named
    BY <1>0, <1>5, <2>1 DEF Settle, Clients, Slot
  <2>3. client.named = client.previous /\ mem # None /\ mem = File(client.named)
    BY <1>2, <1>6, <1>10 DEF Switching, Memory
  <2>4. Fits(window', client'.selected) /\ toServer' = <<>> /\ faults' \in 0 .. MaxFaults
    BY <1>0, <1>4, <1>6, <2>1
  <2> QED
    BY <1>0, <1>1, <1>7, <2>2, <2>3, <2>4, Resting
<1>11. CASE kind = "created"
  <2>1. PICK cursor \in BOOLEAN, published \in BOOLEAN :
          LET n == LoadedClient(client, window, client.selected, cursor)
          IN  Pump(Settle(n), LoadedWindow(client, window, client.selected, cursor, published))
    BY <1>9, <1>11
  <2> DEFINE n == LoadedClient(client, window, client.selected, cursor)
             v == LoadedWindow(client, window, client.selected, cursor, published)
  <2>2. n \in Clients /\ n.selected = client.selected /\ n.named = client.named
    BY <1>0, <1>4, LoadedClientRests
  <2>3. Fits(v, client.selected) /\ Pump(Settle(n), v)
    BY <1>0, <1>4, <2>1, LoadedFits
  <2> HIDE DEF n, v
  <2>4. /\ Settle(n) \in Clients /\ Settle(n).phase = "none"
        /\ Settle(n).selected = client.selected /\ Settle(n).named = client.named
    BY <2>2 DEF Settle, Clients, Slot
  <2>5. client.named = client.selected /\ mem # None /\ mem = File(client.selected)
    BY <1>2, <1>6, <1>11 DEF Switching, Memory
  <2> QED
    BY <1>0, <1>1, <1>6, <1>7, <2>3, <2>4, <2>5, Pumping
<1>12. ASSUME NEW c \in Clients, c.named = c.selected, c.previous = client.previous,
              c.packets # None, c.packets = File(c.selected), SendLoaded(c, c.packets),
              c.selected \in {client.selected, client.previous}, mem = None,
              UNCHANGED window, faults' \in 0 .. MaxFaults
       PROVE  Bridge'
  <2>1. /\ client' \in Clients /\ client'.phase = "created" /\ client'.selected = c.selected
        /\ client'.named = c.named /\ client'.previous = c.previous
        /\ client'.packets = c.packets /\ c.selected \in Page /\ c.packets \in Data
    BY <1>12 DEF SendLoaded, Clients
  <2>2. toServer' = <<[kind |-> "loaded", page |-> c.selected, data |-> c.packets]>>
    BY <1>6, <1>12 DEF SendLoaded
  <2>3. toServer' \in Seq([kind : {"changed", "loaded"}, page : Page,
                           data : {None} \cup Data])
    BY <2>1, <2>2
  <2>4. toClient' \in Seq([kind : {"busy", "freed", "failed", "created"}, page : Page])
    BY <1>7
  <2>5. Memory' /\ mem' \in {None} \cup Data
    BY <1>1, <1>12 DEF Memory
  <2>6. Switching'
    BY <1>1, <1>5, <1>12, <2>1 DEF Switching, File, agent
  <2>7. Channels'
    BY <1>1, <1>7, <1>12, <2>1, <2>2 DEF Channels, Loading, Asked
  <2>8. Permission'
    BY <1>1, <1>2, <1>3, <1>12, <2>1 DEF Permission, Unapplied, agent
  <2> QED
    BY <1>0, <1>1, <1>3, <1>12, <2>1, <2>3, <2>4, <2>5, <2>6, <2>7, <2>8, MidSwitch
<1>13. CASE kind = "freed"
  <2> DEFINE n == [client EXCEPT !.named = client.selected]
  <2>1. client.packets # None /\ client.packets = File(client.selected) /\ mem = None
    BY <1>2, <1>6, <1>13 DEF Switching
  <2>2. client.packets.page = client.selected
    BY <2>1 DEF File
  <2>3. /\ n \in Clients /\ n.named = client.selected /\ n.selected = client.selected
        /\ n.previous = client.previous /\ n.packets = client.packets
    BY <1>0 DEF Clients
  <2>4. Fresh(n, client.selected) = client.packets
    BY <2>1, <2>2, <2>3 DEF Fresh
  <2>5. SendLoaded(n, client.packets) /\ UNCHANGED <<faults, window>>
    BY <1>9, <1>13, <2>1, <2>4
  <2> HIDE DEF n
  <2> QED
    BY <1>0, <1>12, <2>1, <2>3, <2>5
<1>14. CASE kind = "failed"
  <2>1. client.phase = "created" /\ mem = None /\ client.named = client.selected
    BY <1>2, <1>6, <1>7, <1>14 DEF Switching
  <2>2. ASSUME client' \in Clients, client'.phase = "created", UNCHANGED <<window, toServer>>,
               client'.selected = client.selected, client'.named = client.named,
               client'.previous = client.previous, client'.packets \in {None, client.packets},
               faults' \in 0 .. MaxFaults
        PROVE  Bridge'
    <3>1. toServer' = <<>> /\ mem' = None
      BY <1>1, <1>6, <2>1, <2>2
    <3>2. toServer' \in Seq([kind : {"changed", "loaded"}, page : Page,
                             data : {None} \cup Data])
          /\ toClient' \in Seq([kind : {"busy", "freed", "failed", "created"}, page : Page])
      BY <1>7, <3>1
    <3>3. Memory' /\ mem' \in {None} \cup Data
      BY <3>1 DEF Memory
    <3>4. Switching'
      BY <1>1, <1>2, <1>5, <2>1, <2>2 DEF Switching, File, agent
    <3>5. Channels'
      BY <1>7, <2>2, <3>1 DEF Channels, Loading, Quiet
    <3>6. Permission'
      BY <1>1, <1>2, <1>3, <2>2 DEF Permission, Unapplied, agent
    <3> QED
      BY <1>0, <1>1, <1>3, <2>2, <3>2, <3>3, <3>4, <3>5, <3>6, MidSwitch
  <2>3. CASE client.attempted
    BY <1>0, <1>9, <1>14, <2>1, <2>2, <2>3
  <2>4. CASE ~client.attempted
    <3>1. PICK bad \in BOOLEAN : Recover(client, bad) /\ Fault(bad)
      BY <1>9, <1>14, <2>4
    <3>2. faults' \in 0 .. MaxFaults /\ UNCHANGED window
      BY <1>0, <1>9, <1>14, <3>1 DEF Fault
    <3>3. CASE bad
      <4>1. client' = [client EXCEPT !.attempted = TRUE, !.packets = None] /\ UNCHANGED toServer
        BY <3>1, <3>3 DEF Recover
      <4>2. /\ client' \in Clients /\ client'.phase = client.phase
            /\ client'.selected = client.selected /\ client'.named = client.named
            /\ client'.previous = client.previous /\ client'.packets = None
        BY <1>0, <4>1 DEF Clients
      <4> QED
        BY <2>1, <2>2, <3>2, <4>1, <4>2
    <3>4. CASE ~bad
      <4>1. SendLoaded(Rollback(client), Rollback(client).packets)
        BY <3>1, <3>4 DEF Recover
      <4>2. File(client.previous) \in Data /\ File(client.previous) # None
        BY <1>0, <1>5, FilesAreData
      <4>3. /\ Rollback(client) \in Clients /\ Rollback(client).named = client.previous
            /\ Rollback(client).selected = client.previous
            /\ Rollback(client).previous = client.previous
            /\ Rollback(client).packets = File(client.previous)
        BY <1>0, <1>5, <4>2 DEF Rollback, Clients
      <4> QED
        BY <1>12, <2>1, <3>2, <4>1, <4>2, <4>3
    <3> QED
      BY <3>3, <3>4
  <2> QED
    BY <2>3, <2>4
<1> QED
  BY <1>10, <1>11, <1>13, <1>14

-----------------------------------------------------------------------------
(* The game process, Setup and the enrollment.                             *)
LEMMA GameStarts ==
    ASSUME Bridge, Launch \/ Join
    PROVE  Bridge'
<1>0. TypeOK /\ MaxFaults \in Nat /\ game # "play" /\ OutOfGame /\ Sound(window) /\ Journal
      /\ UNCHANGED <<agent, settings, enrolled, window, client, toServer, toClient>>
  BY BridgeAssumption DEF Bridge, Launch, Join
<1>1. Sound(window)' /\ Journal'
  BY <1>0 DEF Sound, Journal, agent
<1>2. CASE Launch
  <2>1. game' = "menu" /\ mem' = mem /\ faults' \in 0 .. MaxFaults
    BY <1>0, <1>2 DEF Launch, Fault, TypeOK
  <2>2. TypeOK'
    BY <1>0, <2>1 DEF TypeOK, agent
  <2>3. OutOfGame'
    BY <1>0, <2>1 DEF OutOfGame, Quiet
  <2> QED
    BY <1>1, <2>1, <2>2, <2>3 DEF Bridge
<1>3. CASE Join
  <2>1. game' = "play" /\ lease = None /\ ~window.enabled /\ mem' = File(client.named)
        /\ faults' = faults
    BY <1>3 DEF Join
  <2>2. client.phase = "none" /\ client.named = client.selected /\ Quiet /\ ~window.parked
    BY <1>0, <2>1 DEF OutOfGame, Sound
  <2>3. File(client.named) \in Data /\ File(client.named) # None
    BY <1>0, FilesAreData DEF TypeOK, Clients
  <2>4. TypeOK'
    BY <1>0, <2>1, <2>3 DEF TypeOK, agent
  <2>5. Names(window, client.selected)' /\ Frozen(window, client.selected)'
    BY <1>0, <2>1, <2>2 DEF Names, Frozen, agent
  <2>6. (Memory /\ Switching /\ Channels /\ Permission)'
    BY <1>0, <2>1, <2>2, <2>3 DEF Memory, Switching, Channels, Permission, Quiet, File, agent
  <2>7. InGame'
    BY <1>0, <2>2, <2>5, <2>6 DEF InGame
  <2> QED
    BY <1>1, <2>1, <2>4, <2>7 DEF Bridge
<1> QED
  BY <1>2, <1>3

LEMMA GameEnds ==
    ASSUME Bridge, LeavesMidSwitch = FALSE, Leave \/ Exit
    PROVE  Bridge'
<1>0. TypeOK /\ Sound(window) /\ Journal /\ client \in Clients /\ 1 \in Page
  BY BridgeAssumption DEF Bridge, TypeOK, Page
<1>1. CASE Leave
  <2>1. /\ Playing /\ game' = "menu" /\ client.selected = client.named /\ mem' = None
        /\ disk' = Saved /\ toServer' = <<>> /\ toClient' = <<>>
        /\ client' = [Settle(client) EXCEPT !.request = None, !.panel = "fresh",
                                            !.restoreTo = 0]
        /\ UNCHANGED <<lease, pending, settings, enrolled, window, faults>>
    BY <1>1 DEF Leave
  <2>2. disk' = disk
    BY <2>1, SavesChangeNothing
  <2>3. /\ client' \in Clients /\ client'.phase = "none" /\ client'.request = None
        /\ client'.selected = client.selected /\ client'.named = client.named
    BY <1>0, <2>1 DEF Settle, Clients, Slot
  <2>4. Sound(window)' /\ Journal'
    BY <1>0, <2>1, <2>2 DEF Sound, Journal
  <2>5. TypeOK'
    BY <1>0, <2>1, <2>2, <2>3 DEF TypeOK
  <2>6. OutOfGame'
    BY <2>1, <2>3 DEF OutOfGame, Quiet
  <2> QED
    BY <2>1, <2>4, <2>5, <2>6 DEF Bridge
<1>2. CASE Exit
  <2>1. /\ game' = "off" /\ client' = InitClient /\ mem' = None
        /\ toServer' = <<>> /\ toClient' = <<>>
        /\ UNCHANGED <<agent, settings, enrolled, faults>>
    BY <1>2 DEF Exit
  <2>2. /\ client' \in Clients /\ client'.phase = "none" /\ client'.request = None
        /\ client'.selected = client'.named
    BY <1>0, <2>1 DEF InitClient, Clients, Slot
  <2> DEFINE s == IF window.shown = None THEN None ELSE [window.shown EXCEPT !.ours = FALSE]
  <2>3. s \in {None} \cup Shown /\ (s # None => ~s.ours)
    BY <1>0 DEF Sound, Windows, Shown
  <2>4. window' = [InitWindow EXCEPT !.shown = s]
    BY <1>2 DEF Exit
  <2> HIDE DEF s
  <2>5. /\ window' \in Windows /\ ~window'.parked /\ ~window'.enabled /\ ~window'.access
        /\ window'.market = {} /\ window'.shown = s
    BY <2>3, <2>4 DEF InitWindow, Windows, Slot
  <2>6. Sound(window)' /\ Journal'
    BY <1>0, <2>1, <2>3, <2>5 DEF Sound, Journal, agent
  <2>7. TypeOK'
    BY <1>0, <2>1, <2>2, <2>5 DEF TypeOK, agent
  <2>8. OutOfGame'
    BY <2>1, <2>2, <2>5 DEF OutOfGame, Quiet
  <2> QED
    BY <2>1, <2>6, <2>7, <2>8 DEF Bridge
<1> QED
  BY <1>1, <1>2

LEMMA MenuTicks ==
    ASSUME Bridge, MenuTick
    PROVE  Bridge'
<1>0. /\ TypeOK /\ Sound(window) /\ Journal /\ OutOfGame /\ game = "menu"
      /\ window \in Windows /\ Shared(window)
      /\ window' = [Revoke(window) EXCEPT !.access = TRUE, !.enabled = FALSE,
                                          !.refresh = 0, !.restore = 0]
      /\ UNCHANGED <<agent, world, client, mem, toServer, toClient, faults>>
  BY DEF Bridge, MenuTick, Sound
<1>1. /\ window' \in Windows /\ ~window'.parked /\ ~window'.enabled
      /\ window'.market = window.market
      /\ window'.shown = IF window.parked THEN None ELSE window.shown
  BY <1>0 DEF Revoke, Windows, Slot
<1>2. ~(lease # None /\ lease.live)
  BY <1>0 DEF Sound, Shared
<1>3. Sound(window)' /\ Journal'
  BY <1>0, <1>1, <1>2 DEF Sound, Journal, agent
<1>4. TypeOK' /\ OutOfGame' /\ game' = "menu"
  BY <1>0, <1>1 DEF TypeOK, OutOfGame, Quiet, agent, world
<1> QED
  BY <1>3, <1>4 DEF Bridge

LEMMA SetupChanges ==
    ASSUME Bridge, Enroll \/ ChangeRoute
    PROVE  Bridge'
<1>0. /\ UNCHANGED <<agent, game, window, client, mem, toServer, toClient>> /\ TypeOK
      /\ settings' \in Routes /\ enrolled' \in BOOLEAN /\ faults' \in 0 .. MaxFaults
  <2>1. CASE Enroll
    BY <2>1 DEF Bridge, TypeOK, Enroll
  <2>2. CASE ChangeRoute
    BY <2>2, BridgeAssumption DEF Bridge, TypeOK, ChangeRoute, Fault
  <2> QED
    BY <2>1, <2>2
<1>1. /\ TypeOK' /\ UNCHANGED <<agent, game, window, client, mem, toServer, toClient>>
  BY <1>0 DEF TypeOK, agent
<1>2. Sound(window)' /\ Journal'
  BY <1>1 DEF Bridge, Sound, Journal, agent
<1>3. OutOfGame => OutOfGame'
  BY <1>1 DEF OutOfGame, Quiet
<1>4. InGame => InGame'
  BY <1>1 DEF InGame, Names, Frozen, Memory, Switching, Channels, Freeing, Loading, Quiet,
              Asked, Sent, File, Permission, Unapplied, agent
<1> QED
  BY <1>1, <1>2, <1>3, <1>4 DEF Bridge

-----------------------------------------------------------------------------
(* The agent.                                                              *)
LEMMA Leasing ==
    ASSUME Bridge, NEW op \in {"journal", "apply", "ask"}, NEW pages \in SUBSET Page,
           SaveAccess(op, pages), UNCHANGED <<disk, rest>>,
           pending' \in {None} \cup Journals, Journal'
    PROVE  Bridge'
<1>1. TypeOK /\ Sound(window) /\ client \in Clients
  BY DEF Bridge, TypeOK
<1>2. /\ lease' \in Leases /\ lease' # None /\ lease'.pages = pages
      /\ lease'.live <=> game # "off"
  <2>1. lease' = [op |-> op, pages |-> pages, live |-> game # "off"]
    BY DEF SaveAccess
  <2>2. lease' \in Leases /\ lease'.pages = pages /\ (lease'.live <=> game # "off")
    BY <2>1 DEF Leases
  <2> QED
    BY <2>2, BridgeAssumption
<1>3. /\ UNCHANGED <<world, window, client, mem, toServer, toClient, faults>>
      /\ UNCHANGED <<disk, game>>
  BY DEF rest, world
<1>4. game # "off" => ~window.access /\ window.parked /\ window.shown.loaded \notin pages
  BY <1>1 DEF SaveAccess, LiveWindow, Sound
<1>5. TypeOK'
  BY <1>1, <1>2, <1>3 DEF TypeOK, world
<1>6. Sound(window)'
  BY <1>1, <1>2, <1>3, <1>4 DEF Sound
<1>7. ASSUME game = "play" PROVE InGame'
  <2>1. InGame /\ client.phase = "none" /\ client.selected \notin pages
    BY <1>4, <1>7 DEF Bridge, InGame, Names
  <2>2. Names(window, client.selected)' /\ Frozen(window, client.selected)'
    BY <1>2, <1>3, <1>4, <1>7, <2>1 DEF InGame, Names, Frozen
  <2>3. (Memory /\ Switching /\ Channels /\ Permission)'
    BY <1>3, <2>1 DEF InGame, Memory, Switching, Channels, Freeing, Loading, Quiet, Permission,
                      File
  <2> QED
    BY <1>3, <2>1, <2>2, <2>3 DEF InGame
<1>8. ASSUME game # "play" PROVE OutOfGame'
  BY <1>3, <1>8 DEF Bridge, OutOfGame, Quiet
<1> QED
  BY <1>3, <1>5, <1>6, <1>7, <1>8 DEF Bridge

LEMMA LeasesTaken ==
    ASSUME Bridge, (\E pages \in SUBSET Page : BeginJournal(pages)) \/ BeginApply \/ BeginAsk
    PROVE  Bridge'
<1>0. Journal /\ pending \in {None} \cup Journals /\ lease = None
  BY DEF Bridge, TypeOK, BeginJournal, BeginApply, BeginAsk, SaveAccess
<1>1. ASSUME NEW pages \in SUBSET Page, BeginJournal(pages) PROVE Bridge'
  <2>1. /\ pending = None /\ SaveAccess("journal", pages) /\ UNCHANGED <<pending, disk, rest>>
        /\ \A p \in Page : disk[p] < MaxWrites
    BY <1>1 DEF BeginJournal
  <2>2. lease' = [op |-> "journal", pages |-> pages, live |-> game # "off"]
    BY <2>1 DEF SaveAccess
  <2>3. Journal'
    BY <2>1, <2>2 DEF Journal
  <2> QED
    BY <1>0, <2>1, <2>3, Leasing
<1>2. CASE BeginApply
  <2>1. /\ pending # None /\ pending.phase # "applied" /\ SaveAccess("apply", pending.pages)
        /\ pending' = [pending EXCEPT !.phase = "applying"] /\ UNCHANGED <<disk, rest>>
    BY <1>2 DEF BeginApply
  <2>2. lease' = [op |-> "apply", pages |-> pending.pages, live |-> game # "off"]
    BY <2>1 DEF SaveAccess
  <2>3. /\ pending' \in Journals /\ pending'.phase = "applying"
        /\ pending'.pages = pending.pages /\ pending'.left = pending.left
    BY <1>0, <2>1 DEF Journals
  <2>4. pending.pages \in SUBSET Page /\ pending' # None
    BY <1>0, <2>1, <2>3, BridgeAssumption DEF Journals
  <2>5. Journal'
    BY <1>0, <2>1, <2>2, <2>3, <2>4 DEF Journal
  <2> QED
    BY <2>1, <2>3, <2>4, <2>5, Leasing
<1>3. CASE BeginAsk
  <2>1. SaveAccess("ask", {}) /\ UNCHANGED <<pending, disk, rest>>
    BY <1>3 DEF BeginAsk
  <2>2. lease' = [op |-> "ask", pages |-> {}, live |-> game # "off"]
    BY <2>1 DEF SaveAccess
  <2>3. Journal'
    BY <1>0, <2>1, <2>2 DEF Journal
  <2> QED
    BY <1>0, <2>1, <2>3, Leasing
<1> QED
  BY <1>1, <1>2, <1>3

(* An answer to a refresh leaves the grant as it is.                       *)
SameGrant(w) == /\ w \in Windows /\ w.enabled = window.enabled /\ (w.parked <=> window.parked)
                /\ w.loaded = window.loaded /\ w.market = window.market
                /\ (w.access <=> window.access) /\ w.shown = window.shown

LEMMA AnswersKeepTheGrant ==
    ASSUME window \in Windows
    PROVE  /\ SameGrant(window) /\ SameGrant(Answered)
           /\ SameGrant([window EXCEPT !.asked = window.parked])
BY DEF SameGrant, Answered, Windows

(* The end of a lease, or an answer without one: the page in memory was    *)
(* not written.                                                            *)
LEMMA Releasing ==
    ASSUME Bridge, lease' = None, lease # None \/ window.parked,
           UNCHANGED <<world, client, mem, toServer, toClient>>,
           SameGrant(window'),
           disk' \in [Page -> 0 .. MaxWrites],
           \A p \in Page : disk'[p] = disk[p] \/ (lease # None /\ p \in lease.pages),
           pending' \in {None} \cup Journals, Journal', faults' \in 0 .. MaxFaults
    PROVE  Bridge'
<1>1. TypeOK /\ Sound(window) /\ client \in Clients /\ client.selected \in Page
  BY DEF Bridge, TypeOK, Clients
<1>2. TypeOK'
  BY <1>1 DEF TypeOK, SameGrant, world
<1>3. Sound(window)'
  BY <1>1 DEF Sound, SameGrant
<1>4. ASSUME game = "play" PROVE InGame'
  <2>1. InGame /\ client.phase = "none"
    BY <1>4 DEF Bridge, InGame, Frozen
  <2>2. client.named = client.selected /\ disk'[client.selected] = disk[client.selected]
    BY <1>1, <2>1 DEF InGame, Switching, Frozen
  <2>3. Names(window, client.selected)' /\ Frozen(window, client.selected)'
    BY <2>1 DEF InGame, Names, Frozen, SameGrant
  <2>4. (Memory /\ Switching /\ Channels /\ Permission)'
    BY <2>1, <2>2 DEF InGame, Memory, Switching, Channels, Freeing, Loading, Quiet, Permission,
                      File
  <2> QED
    BY <2>1, <2>3, <2>4 DEF InGame, SameGrant
<1>5. ASSUME game # "play" PROVE OutOfGame'
  BY <1>5 DEF Bridge, OutOfGame, Quiet, SameGrant, world
<1> QED
  BY <1>2, <1>3, <1>4, <1>5 DEF Bridge, world

LEMMA WrittenPages ==
    ASSUME TypeOK, NEW pages \in SUBSET Page, \A p \in pages : disk[p] < MaxWrites
    PROVE  /\ Written(pages) \in [Page -> 0 .. MaxWrites]
           /\ \A p \in Page \ pages : Written(pages)[p] = disk[p]
BY BridgeAssumption DEF TypeOK, Written

LEMMA LeasesEnd ==
    ASSUME Bridge, Release \/ Report \/ AgentCrash
    PROVE  Bridge'
<1>0. /\ TypeOK /\ Journal /\ window \in Windows /\ lease \in {None} \cup Leases
      /\ pending \in {None} \cup Journals /\ disk \in [Page -> 0 .. MaxWrites]
      /\ faults \in 0 .. MaxFaults /\ MaxFaults \in Nat
      /\ SameGrant(window) /\ SameGrant(Answered)
      /\ SameGrant([window EXCEPT !.asked = window.parked])
  BY BridgeAssumption, AnswersKeepTheGrant DEF Bridge, TypeOK
<1>1. CASE Report
  <2>1. /\ lease' = None /\ lease = None /\ window.parked /\ window' = Answered
        /\ UNCHANGED <<pending, disk, faults>>
        /\ UNCHANGED <<world, client, mem, toServer, toClient>>
    BY <1>1 DEF Report, agent
  <2>2. Journal'
    BY <1>0, <2>1 DEF Journal
  <2>g. SameGrant(window')
    BY <1>0, <2>1
  <2> QED
    BY <1>0, <2>1, <2>2, <2>g, Releasing
<1>2. CASE Release /\ lease.op = "journal"
  <2>1. /\ lease # None /\ lease' = None /\ UNCHANGED <<disk, window, faults>>
        /\ UNCHANGED <<world, client, mem, toServer, toClient>>
        /\ pending' = [pages |-> lease.pages, phase |-> "intent", left |-> lease.pages]
    BY <1>2 DEF Release
  <2>2. /\ pending' \in Journals /\ pending'.left = lease.pages /\ pending'.pages = lease.pages
        /\ lease.pages \subseteq Page
    BY <1>0, <2>1 DEF Leases, Journals
  <2>3. Journal'
    BY <1>0, <1>2, <2>1, <2>2 DEF Journal
  <2>4. /\ disk' \in [Page -> 0 .. MaxWrites] /\ faults' \in 0 .. MaxFaults
        /\ \A p \in Page : disk'[p] = disk[p]
    BY <1>0, <2>1
  <2>5. pending' \in {None} \cup Journals
    BY <2>2
  <2>g. SameGrant(window')
    BY <1>0, <2>1
  <2> QED
    BY <2>1, <2>3, <2>4, <2>5, <2>g, Releasing
<1>3. CASE Release /\ lease.op = "apply"
  <2>1. /\ lease # None /\ lease' = None /\ UNCHANGED faults
        /\ UNCHANGED <<world, client, mem, toServer, toClient>>
        /\ pending' = [pending EXCEPT !.phase = "applied"]
        /\ disk' = Written(PagesLeft) /\ window' \in {window, Answered}
    BY <1>3 DEF Release
  <2>2. /\ pending # None /\ pending.phase = "applying" /\ pending.pages = lease.pages
        /\ pending.left \subseteq lease.pages /\ pending.left \subseteq Page
        /\ \A p \in pending.left : disk[p] < MaxWrites
    BY <1>0, <1>3, <2>1 DEF Journal, Journals
  <2>3. /\ pending' \in Journals /\ pending'.phase = "applied"
        /\ pending'.pages = pending.pages /\ pending'.left = pending.left
    BY <1>0, <2>1, <2>2 DEF Journals
  <2>4. /\ disk' \in [Page -> 0 .. MaxWrites]
        /\ \A p \in Page : disk'[p] = disk[p] \/ p \in lease.pages
    BY <1>0, <2>1, <2>2, WrittenPages DEF PagesLeft
  <2>5. Journal'
    BY <2>1, <2>2, <2>3 DEF Journal
  <2>6. /\ disk' \in [Page -> 0 .. MaxWrites] /\ faults' \in 0 .. MaxFaults
        /\ pending' \in {None} \cup Journals
        /\ \A p \in Page : disk'[p] = disk[p] \/ (lease # None /\ p \in lease.pages)
    BY <1>0, <2>1, <2>3, <2>4
  <2>g. SameGrant(window')
    BY <1>0, <2>1
  <2> QED
    BY <2>1, <2>5, <2>6, <2>g, Releasing
<1>4. CASE Release /\ lease.op = "ask"
  <2>1. /\ lease # None /\ lease' = None /\ UNCHANGED <<pending, disk, faults>>
        /\ UNCHANGED <<world, client, mem, toServer, toClient>>
        /\ window' = [window EXCEPT !.asked = window.parked]
    BY <1>4 DEF Release
  <2>2. Journal'
    BY <1>0, <2>1 DEF Journal
  <2>3. /\ disk' \in [Page -> 0 .. MaxWrites] /\ faults' \in 0 .. MaxFaults
        /\ pending' \in {None} \cup Journals
        /\ \A p \in Page : disk'[p] = disk[p] \/ (lease # None /\ p \in lease.pages)
    BY <1>0, <2>1
  <2>g. SameGrant(window')
    BY <1>0, <2>1
  <2> QED
    BY <2>1, <2>2, <2>3, <2>g, Releasing
<1>5. CASE AgentCrash /\ lease.op = "apply"
  <2>1. PICK done \in SUBSET PagesLeft :
          disk' = Written(done) /\ pending' = [pending EXCEPT !.left = @ \ done]
    BY <1>5 DEF AgentCrash
  <2>2. /\ lease # None /\ lease' = None
        /\ UNCHANGED <<world, window, client, mem, toServer, toClient>>
        /\ faults' \in 0 .. MaxFaults
    BY <1>0, <1>5 DEF AgentCrash, Fault
  <2>3. /\ pending # None /\ pending.phase = "applying" /\ pending.pages = lease.pages
        /\ pending.left \subseteq lease.pages /\ pending.left \subseteq Page
        /\ \A p \in pending.left : disk[p] < MaxWrites
    BY <1>0, <1>5, <2>2 DEF Journal, Journals
  <2>4. /\ pending' \in Journals /\ pending'.pages = pending.pages
        /\ pending'.left = pending.left \ done
    BY <1>0, <2>1, <2>3 DEF Journals
  <2>5. done \subseteq pending.left
    BY <2>1 DEF PagesLeft
  <2>6. /\ disk' \in [Page -> 0 .. MaxWrites]
        /\ \A p \in Page \ done : disk'[p] = disk[p]
    BY <1>0, <2>1, <2>3, <2>5, WrittenPages
  <2>7. Journal'
    BY <2>2, <2>3, <2>4, <2>6 DEF Journal
  <2>8. \A p \in Page : disk'[p] = disk[p] \/ p \in lease.pages
    BY <2>3, <2>5, <2>6
  <2>9. /\ disk' \in [Page -> 0 .. MaxWrites] /\ faults' \in 0 .. MaxFaults
        /\ pending' \in {None} \cup Journals
        /\ \A p \in Page : disk'[p] = disk[p] \/ (lease # None /\ p \in lease.pages)
    BY <1>0, <2>1, <2>2, <2>4, <2>6, <2>8
  <2>g. SameGrant(window')
    BY <1>0, <2>1, <2>2
  <2> QED
    BY <2>2, <2>7, <2>9, <2>g, Releasing
<1>6. CASE AgentCrash /\ lease.op # "apply"
  <2>1. /\ lease # None /\ lease' = None /\ UNCHANGED <<disk, pending>>
        /\ UNCHANGED <<world, window, client, mem, toServer, toClient>>
        /\ faults' \in 0 .. MaxFaults
    BY <1>0, <1>6 DEF AgentCrash, Fault
  <2>2. Journal'
    BY <1>0, <2>1 DEF Journal
  <2>3. /\ disk' \in [Page -> 0 .. MaxWrites] /\ faults' \in 0 .. MaxFaults
        /\ pending' \in {None} \cup Journals
        /\ \A p \in Page : disk'[p] = disk[p] \/ (lease # None /\ p \in lease.pages)
    BY <1>0, <2>1
  <2>g. SameGrant(window')
    BY <1>0, <2>1
  <2> QED
    BY <2>1, <2>2, <2>3, <2>g, Releasing
<1> QED
  BY <1>1, <1>2, <1>3, <1>4, <1>5, <1>6 DEF Release

LEMMA Retiring ==
    ASSUME Bridge, Retire
    PROVE  Bridge'
<1>1. /\ lease = None /\ pending' = None /\ UNCHANGED <<lease, disk>>
      /\ UNCHANGED <<world, window, client, mem, toServer, toClient, faults>>
  BY DEF Retire, rest
<1>2. TypeOK' /\ Sound(window)' /\ Journal'
  BY <1>1 DEF Bridge, TypeOK, Sound, Journal, world
<1>3. OutOfGame => OutOfGame'
  BY <1>1 DEF OutOfGame, Quiet, world
<1>4. InGame => InGame'
  BY <1>1 DEF InGame, Names, Frozen, Memory, Switching, Channels, Freeing, Loading, Quiet,
              Asked, Sent, File, Permission, Unapplied
<1> QED
  BY <1>1, <1>2, <1>3, <1>4 DEF Bridge, world

-----------------------------------------------------------------------------
LEMMA Beginning ==
    Init => Bridge
<1> SUFFICES ASSUME Init PROVE Bridge
  OBVIOUS
<1>1. 1 \in Page /\ MaxFaults \in Nat /\ MaxWrites \in Nat
  BY BridgeAssumption DEF Page
<1>2. InitWindow \in Windows /\ InitClient \in Clients
  BY <1>1 DEF InitWindow, InitClient, Windows, Clients, Slot
<1>3. TypeOK
  <2>1. disk \in [Page -> 0 .. MaxWrites] /\ faults \in 0 .. MaxFaults
    BY <1>1 DEF Init
  <2>2. window \in Windows /\ client \in Clients
    BY <1>2 DEF Init
  <2>3. /\ toServer \in Seq([kind : {"changed", "loaded"}, page : Page,
                             data : {None} \cup Data])
        /\ toClient \in Seq([kind : {"busy", "freed", "failed", "created"}, page : Page])
    BY DEF Init
  <2>4. /\ game \in {"off", "menu", "play"} /\ settings \in Routes /\ enrolled \in BOOLEAN
        /\ mem = None /\ lease = None /\ pending = None
    BY DEF Init
  <2> QED
    BY <2>1, <2>2, <2>3, <2>4 DEF TypeOK
<1>4. Sound(window)
  BY <1>2 DEF Init, Sound, InitWindow
<1>5. OutOfGame /\ Journal
  BY DEF Init, OutOfGame, Journal, Quiet, InitWindow, InitClient
<1> QED
  BY <1>3, <1>4, <1>5 DEF Bridge, Init

LEMMA Stuttering ==
    ASSUME Bridge, UNCHANGED vars
    PROVE  Bridge'
<1>1. TypeOK' /\ Sound(window)' /\ Journal'
  BY DEF Bridge, TypeOK, Sound, Journal, vars
<1>2. OutOfGame => OutOfGame'
  BY DEF OutOfGame, Quiet, vars
<1>3. InGame => InGame'
  BY DEF InGame, Names, Frozen, Memory, Switching, Channels, Freeing, Loading, Quiet,
         Asked, Sent, File, Permission, Unapplied, vars
<1> QED
  BY <1>1, <1>2, <1>3 DEF Bridge, vars

LEMMA Stepping ==
    ASSUME Bridge, LeavesMidSwitch = FALSE, [Next]_vars
    PROVE  Bridge'
<1>1. CASE Game
  BY <1>1, PageChanges, BankOpens, BankCloses, BankStaysClosed, Connecting, Refreshes, Beating,
     ServerReceives, ClientReceives, GameStarts, GameEnds, MenuTicks DEF Game
<1>2. CASE Agent
  BY <1>2, LeasesTaken, LeasesEnd, Retiring DEF Agent
<1>3. CASE Enroll \/ ChangeRoute
  BY <1>3, SetupChanges
<1>4. CASE UNCHANGED vars
  BY <1>4, Stuttering
<1> QED
  BY <1>1, <1>2, <1>3, <1>4 DEF Next

(* Lease, window file, page change and journal fit together at all times:  *)
(* while the agent holds its lease the game is parked on a page that the   *)
(* agent does not write, and every packet and every page in memory is the  *)
(* one the phase of the page change calls for.                             *)
THEOREM BridgeAlways ==
    ASSUME LeavesMidSwitch = FALSE
    PROVE  Spec => []Bridge
BY Beginning, Stepping, PTL DEF Spec

(* The agent never writes the page the game has in memory                  *)
(* (custody-agent.py, save_access; D2RHUD.cpp, the page change).           *)
THEOREM MemoryStaysCurrent ==
    ASSUME LeavesMidSwitch = FALSE
    PROVE  Spec => []MemoryIsCurrent
<1>1. Bridge => MemoryIsCurrent
  <2> SUFFICES ASSUME Bridge, mem # None PROVE mem.ver = disk[mem.page]
    BY DEF MemoryIsCurrent
  <2>1. mem = File(client.named)
    BY DEF Bridge, InGame, OutOfGame, Memory
  <2> QED
    BY <2>1 DEF File
<1> QED
  BY <1>1, BridgeAlways, PTL

(* No save puts one page into the file of another, also after a refused    *)
(* page change and after a rollback.                                       *)
THEOREM SavesAreNamed ==
    ASSUME LeavesMidSwitch = FALSE
    PROVE  Spec => []SavedUnderItsName
<1>1. Bridge => SavedUnderItsName
  <2> SUFFICES ASSUME Bridge, mem # None PROVE mem.page = client.named
    BY DEF SavedUnderItsName
  <2>1. mem = File(client.named)
    BY DEF Bridge, InGame, OutOfGame, Memory
  <2> QED
    BY <2>1 DEF File
<1> QED
  BY <1>1, BridgeAlways, PTL

(* While the game does not hold the lock, its window file names the page   *)
(* in memory.                                                              *)
THEOREM WindowStaysTrue ==
    ASSUME LeavesMidSwitch = FALSE
    PROVE  Spec => []WindowIsTrue
<1>1. Bridge => WindowIsTrue
  <2> SUFFICES ASSUME Bridge, game = "play", Grants
               PROVE  mem # None /\ window.shown.loaded = mem.page
    BY DEF WindowIsTrue
  <2>1. InGame /\ window.parked
    BY DEF Bridge, Sound, Grants
  <2>2. client.phase = "none" /\ window.shown.loaded = client.selected
    BY <2>1 DEF InGame, Names
  <2>3. mem # None /\ mem = File(client.selected)
    BY <2>1, <2>2 DEF InGame, Memory, Switching, Channels, Freeing, Loading
  <2> QED
    BY <2>2, <2>3 DEF File
<1> QED
  BY <1>1, BridgeAlways, PTL

(* A market page is loaded only when no journal is still to change it: the *)
(* permission of the page change still holds when the page arrives.        *)
THEOREM LoadsAwaitTheJournal ==
    ASSUME LeavesMidSwitch = FALSE
    PROVE  Spec => LoadsRespectJournal
<1> DEFINE Respected == (/\ game = "play" /\ mem' # mem /\ mem' # None /\ window.enabled
                         /\ mem'.page \in window.market \ {client.previous})
                        => ~Unapplied(mem'.page)
<1>1. ASSUME Bridge, [Next]_vars PROVE [Respected]_vars
  <2> SUFFICES ASSUME game = "play", mem' # mem, mem' # None, window.enabled,
                      mem'.page \in window.market \ {client.previous}
               PROVE  ~Unapplied(mem'.page)
    OBVIOUS
  <2>1. ServerReceive
    BY <1>1 DEF Next, Game, Agent, vars, world, agent, rest, TimerPump, SelectPage, RestorePage,
                BankOpen, BankClose, ContinueClosed, Connect, BeginRefresh, RefreshTick,
                GoldDeposit, Heartbeat, ClientReceive, Launch, Join, Leave, MenuTick, Exit,
                BeginJournal, BeginApply, BeginAsk, Release, Report, Retire, AgentCrash,
                Enroll, ChangeRoute
  <2>2. Playing /\ toServer # <<>> /\ InGame
    BY <1>1, <2>1 DEF ServerReceive, Bridge, Playing
  <2>3. Head(toServer).kind # "changed" /\ mem' = Head(toServer).data
    BY <2>1 DEF ServerReceive
  <2>4. client.phase = "created" /\ Head(toServer).data = client.packets
        /\ client.packets # None
    BY <2>2, <2>3 DEF InGame, Channels, Freeing, Loading, Quiet, Asked
  <2>5. mem'.page = client.selected
    BY <2>2, <2>3, <2>4 DEF InGame, Switching, File
  <2> QED
    BY <2>2, <2>4, <2>5 DEF InGame, Permission
<1>2. Spec => [][Respected]_vars
  BY <1>1, BridgeAlways, PTL DEF Spec
<1> QED
  BY <1>2, PTL DEF LoadsRespectJournal
===============================================================================
