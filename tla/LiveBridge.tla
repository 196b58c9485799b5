------------------------------ MODULE LiveBridge ------------------------------
(***************************************************************************)
(* The live bridge: how a running game lets the save agent write the two   *)
(* market pages of the shared stash.  The native side keeps one Window     *)
(* (MarketplaceLiveCustody.h) and a page-switch protocol with the game     *)
(* server (D2RHUD.cpp, MarketplaceLiveCustodyRuntime.inl); the agent       *)
(* (custody-agent.py) writes a page only under live.lock and only while    *)
(* live-window.json says that the page is not in the game's memory.        *)
(*                                                                         *)
(* Pages are numbered as in the settings (gSelectedPage + 1).  Contents    *)
(* are abstracted to the number of writes the agent has made to the page's *)
(* file.  Times are abstracted to choices: a poll that is due, a refresh   *)
(* that is older than 12 seconds.  A cursor that holds an item is a choice *)
(* wherever the code looks at it.                                          *)
(***************************************************************************)
EXTENDS Integers, Sequences, FiniteSets

CONSTANTS NPages,          \* pages of the stash
          None,
          Routes,          \* the pairs {page, withdraw_page} Setup may store
          MaxFaults,       \* bound on failed reads and loads, on crashes, and on
                           \* changes of the market pages in Setup
          MaxWrites,       \* bound on the agent's writes to a page
          LeavesMidSwitch  \* may a player leave before a page change is freed?

Page == 1 .. NPages
Slot == Page \cup {0}
Data == [page : Page, ver : 0 .. MaxWrites]
Shown == [ours : BOOLEAN, loaded : Page, market : SUBSET Page, passive : BOOLEAN,
          refresh : Slot]
Leases == [op : {"journal", "apply", "ask"}, pages : SUBSET Page, live : BOOLEAN]
Journals == [pages : SUBSET Page, phase : {"intent", "applying", "applied"},
             left : SUBSET Page]

ASSUME BridgeAssumption ==
    /\ NPages \in Nat /\ NPages >= 3
    /\ Routes \subseteq {r \in SUBSET Page : Cardinality(r) \in 1 .. 2}
    /\ Routes # {}
    /\ MaxFaults \in Nat /\ MaxWrites \in Nat
    /\ LeavesMidSwitch \in BOOLEAN
    /\ None \notin Page \cup Data \cup Shown \cup Leases \cup Journals

VARIABLES game,      \* "off", "menu" or "play"
          settings,  \* {page, withdraw_page} of the settings file
          enrolled,  \* the enrollment and capability files exist
          window,    \* Marketplace::LiveCustody::window and the files it writes
          client,    \* the page-switch globals of the game client
          mem,       \* the stash page in the game's memory, or None
          toServer,  \* client packets on their way to the game server
          toClient,  \* server packets on their way to the client
          lease,     \* the agent's lease and what it is for, or None
          pending,   \* the agent's pending.json and its record, or None
          disk,      \* agent writes in each page's file
          faults     \* how much of the budget is used

vars == <<game, settings, enrolled, window, client, mem, toServer, toClient,
          lease, pending, disk, faults>>
agent == <<lease, pending, disk>>
world == <<game, settings, enrolled>>

(* A choice that costs one fault unless it is the good one. *)
Fault(bad) == IF bad THEN faults < MaxFaults /\ faults' = faults + 1
                     ELSE UNCHANGED faults

Parking(market) == CHOOSE p \in Page : p \notin market /\ 1 .. p - 1 \subseteq market
File(p) == [page |-> p, ver |-> disk[p]]

InitWindow == [enabled |-> FALSE, parked |-> FALSE, passive |-> FALSE,
               loaded |-> 0, market |-> {}, restore |-> 0, refresh |-> 0,
               access |-> FALSE, asked |-> FALSE, ready |-> FALSE, shown |-> None]
InitClient == [selected |-> 1, named |-> 1, phase |-> "none", previous |-> 0,
               attempted |-> FALSE, request |-> None, packets |-> None,
               panel |-> "fresh", restoreTo |-> 0]

(* The end of a switch.  The previous page, the mark of the rollback and    *)
(* the prepared packets mean nothing until the next switch sets them.      *)
Settle(c) == [c EXCEPT !.phase = "none", !.previous = 0, !.attempted = FALSE,
                       !.packets = None]

Init == /\ game = "off" /\ settings \in Routes /\ enrolled = FALSE
        /\ window = InitWindow /\ client = InitClient /\ mem = None
        /\ toServer = <<>> /\ toClient = <<>>
        /\ lease = None /\ pending = None /\ disk = [p \in Page |-> 0]
        /\ faults = 0

-----------------------------------------------------------------------------
(* The methods of Window, on a value v of window.                          *)

(* Shared: live.lock can be had, shared, unless the agent holds it alone. *)
Shared(v) == v.access \/ ~(lease # None /\ lease.live)

\* Mutant: a journal that is being applied counts as applied.
PendingIntent(page) == pending # None /\ page \in pending.pages /\ pending.phase = "intent"
(* Pending: the journal covers the page and is not applied yet. *)
Pending(page) == pending # None /\ page \in pending.pages /\ pending.phase # "applied"

View(v) == [ours |-> TRUE, loaded |-> v.loaded, market |-> v.market,
            passive |-> v.passive, refresh |-> v.refresh]

\* Mutant: the window file is left behind.
RevokeMemory(v) == [v EXCEPT !.parked = FALSE, !.asked = FALSE, !.ready = FALSE]
(* What the agent has asked or answered is about the grant that ends.      *)
Revoke(v) == [v EXCEPT !.parked = FALSE, !.asked = FALSE, !.ready = FALSE,
                       !.shown = IF v.parked THEN None ELSE @]

Rerouted(v) == v.enabled /\ v.market # settings
Configurable(v) == enrolled /\ (Rerouted(v) => Shared(v))
Configure(v, page) ==
    LET w == [IF Rerouted(v) THEN [Revoke(v) EXCEPT !.access = TRUE] ELSE v
              EXCEPT !.enabled = TRUE, !.market = settings, !.loaded = page]
    IN  IF ~Configurable(v) THEN v
        ELSE [w EXCEPT !.access = @ \/ (~w.parked /\ Shared(v))]
(* What Configure returned, given the window it left. *)
Configured(v, w) == Configurable(v) /\ (w.parked \/ w.access)

OpenGrant(v, page, only, published) ==
    IF \/ ~v.enabled \/ (~only /\ page \in v.market)
       \/ v.parked /\ v.loaded = page /\ v.passive = only
       \/ ~Shared(v)
    THEN v
    ELSE LET w == [Revoke(v) EXCEPT !.loaded = page, !.passive = only, !.access = TRUE]
         IN  IF published
             THEN [w EXCEPT !.parked = TRUE, !.access = FALSE, !.shown = View(w)]
             ELSE w

Permitted(v, page) == v.enabled => /\ Shared(v)
                                   /\ ~(page \in v.market /\ Pending(page))
Permit(v, page) ==
    IF ~v.enabled \/ ~Shared(v) THEN v
    ELSE IF ~Permitted(v, page) THEN [v EXCEPT !.access = FALSE]
    ELSE [Revoke(v) EXCEPT !.access = TRUE, !.loaded = page]

Refreshing == window.refresh # 0
(* Panel::stashSyncing: set with the mask, cleared when the bank closes. *)
Syncing == client.panel = "open" /\ Refreshing

(* Close, and the OpenGrant or the parking request that every caller of    *)
(* Close makes of its answer.                                              *)
MustPark(v, page) == v.enabled /\ page \in v.market
CloseWindow(v, page, published) ==
    LET w == [v EXCEPT !.loaded = IF v.enabled THEN page ELSE @]
    IN  IF MustPark(v, page) THEN w ELSE OpenGrant(w, page, FALSE, published)
CloseClient(c, v, page) ==
    IF MustPark(v, page) THEN [c EXCEPT !.request = Parking(v.market)] ELSE c

(* MarketplaceLiveLoaded: the page in memory is known again. *)
LoadedWindow(c, v, page, cursor, published) ==
    LET done == [v EXCEPT !.refresh = IF page = @ THEN 0 ELSE @]
        w    == Configure(done, page)
    IN  IF c.panel = "closed" /\ ~cursor THEN CloseWindow(w, page, published)
        ELSE OpenGrant(w, page, TRUE, published)
LoadedClient(c, v, page, cursor) ==
    IF c.panel = "closed" /\ ~cursor THEN CloseClient(c, Configure(v, page), page) ELSE c

-----------------------------------------------------------------------------
(* MarketplaceLivePumpRequests, the end of every handler that asks for a   *)
(* page: c and v are the client and the window the handler has left.       *)
Pump(c, v) ==
    LET p == c.request
        w == Permit(v, p)
    IN  \/ /\ c.phase # "none" \/ p = None      \* another switch, or no request
           /\ client' = c /\ window' = v /\ UNCHANGED <<toServer, faults>>
        \/ /\ c.phase = "none" /\ p = c.selected
           /\ client' = [c EXCEPT !.request = None] /\ window' = v
           /\ UNCHANGED <<toServer, faults>>
        \/ /\ c.phase = "none" /\ p \notin {None, c.selected}
           /\ \/ /\ client' = c /\ window' = v   \* the cursor is busy, or too early
                 /\ UNCHANGED <<toServer, faults>>
              \/ /\ client' = c /\ window' = w   \* refused, or busy after the lease
                 /\ UNCHANGED <<toServer, faults>>
              \/ /\ Permitted(v, p)              \* the page's file cannot be read
                 /\ faults < MaxFaults /\ faults' = faults + 1
                 /\ \E cursor, published \in BOOLEAN :
                      /\ client' = LoadedClient([c EXCEPT !.request = None], w,
                                                c.selected, cursor)
                      /\ window' = LoadedWindow(c, w, c.selected, cursor, published)
                 /\ UNCHANGED toServer
              \/ /\ Permitted(v, p)
                 /\ client' = [c EXCEPT !.request = None, !.packets = File(p),
                                        !.previous = c.selected, !.attempted = FALSE,
                                        !.phase = "freed", !.selected = p,
                                        !.restoreTo = IF @ = p THEN 0 ELSE @]
                 /\ window' = w
                 /\ toServer' = Append(toServer, [kind |-> "changed", page |-> p,
                                                  data |-> None])
                 /\ UNCHANGED faults

(* OnStashPageChanged, from a handler that has left the window at v. *)
Change(c, v, page) == Pump([c EXCEPT !.request = page], v)

Playing == game = "play"
Idle == Playing /\ client.phase = "none"

TimerPump == /\ Playing /\ Pump(client, window)
             /\ UNCHANGED <<agent, world, mem, toClient>>

(* MarketplaceLivePollPage: the player picks a page. *)
SelectPage(page) ==
    /\ Playing /\ client.panel = "open" /\ ~Syncing
    /\ Change([client EXCEPT !.restoreTo = 0], window, page)
    /\ UNCHANGED <<agent, world, mem, toClient>>

(* MarketplaceLivePaint, last part: return to the remembered page. *)
RestorePage ==
    /\ Idle /\ client.panel = "open" /\ ~Syncing /\ client.restoreTo # 0
    /\ IF client.restoreTo # client.selected
       THEN Change(client, window, client.restoreTo)
       ELSE /\ client' = [client EXCEPT !.restoreTo = 0]
            /\ UNCHANGED <<window, toServer, faults>>
    /\ UNCHANGED <<agent, world, mem, toClient>>

(* MarketplaceLiveOpened and the first opening in a game.  The page to     *)
(* restore has been read; it means nothing until the bank closes.          *)
BankOpen ==
    /\ Playing /\ client.panel # "open"
    /\ \E published \in BOOLEAN :
         LET v == IF Idle THEN Configure(window, client.selected) ELSE window
             r == IF v.enabled /\ (v.parked \/ ~Idle) THEN v.restore ELSE 0
         IN  /\ client' = [client EXCEPT !.panel = "open", !.restoreTo = r]
             /\ window' = [IF r = 0 /\ Idle /\ Configured(window, v)
                           THEN OpenGrant(v, client.selected, TRUE, published) ELSE v
                           EXCEPT !.restore = 0]
    /\ UNCHANGED <<agent, world, mem, toClient, toServer, faults>>

(* MarketplaceLiveClosed. *)
BankClose ==
    /\ Playing /\ client.panel = "open"
    /\ \E cursor, published \in BOOLEAN :
         LET page == client.selected
             c == [client EXCEPT !.panel = "closed", !.restoreTo = 0, !.request = None]
             v == [window EXCEPT !.restore = IF ~window.enabled THEN @
                                             ELSE IF Refreshing THEN window.refresh ELSE page]
             w == IF Idle THEN Configure(v, page) ELSE v
             kept == [w EXCEPT !.restore = IF Refreshing THEN @ ELSE page]
         IN  IF ~Idle \/ ~Configured(v, w) \/ cursor
             THEN client' = c /\ window' = w /\ UNCHANGED <<toServer, faults>>
             ELSE IF MustPark(w, page)
             THEN Change(c, CloseWindow(kept, page, published), Parking(w.market))
             ELSE /\ client' = c /\ window' = CloseWindow(kept, page, published)
                  /\ UNCHANGED <<toServer, faults>>
    /\ UNCHANGED <<agent, world, mem, toClient>>

(* MarketplaceLiveContinueClosed, from the native timer. *)
ContinueClosed ==
    /\ Idle /\ client.panel = "closed" /\ window.enabled
    /\ IF MustPark(window, client.selected)
       THEN Change(client, CloseWindow(window, client.selected, TRUE), Parking(window.market))
       ELSE /\ \E published \in BOOLEAN :
                 window' = CloseWindow(window, client.selected, published)
            /\ UNCHANGED <<client, toServer, faults>>
    /\ UNCHANGED <<agent, world, mem, toClient>>

(* MarketplaceLiveConnect: the handshake is retried every two seconds. *)
Connect ==
    /\ Idle /\ client.panel # "fresh"
    /\ \E published \in BOOLEAN :
         LET v == Configure(window, client.selected)
             w == IF ~window.enabled /\ client.panel = "closed"
                  THEN [v EXCEPT !.restore = client.selected] ELSE v
         IN  /\ window' = IF ~Configured(window, v) THEN v
                          ELSE IF client.panel = "open" /\ ~v.parked
                          THEN OpenGrant(w, client.selected, TRUE, published) ELSE w
    /\ UNCHANGED <<agent, world, mem, toClient, toServer, client, faults>>

(* BeginRefresh, and the switch to the parking page that Paint makes of it. *)
BeginRefresh ==
    /\ Idle /\ client.panel = "open" /\ ~Refreshing
    /\ LET page == client.selected
       IN  /\ window.enabled /\ window.parked /\ window.passive /\ window.asked
           /\ page = window.loaded /\ page \in window.market
           /\ Change(client, [window EXCEPT !.refresh = page, !.asked = FALSE],
                     Parking(window.market))
    /\ UNCHANGED <<agent, world, mem, toClient>>

\* Mutant: the refresh waits for its answer without a bound.
AnsweredOnly(late) == window.ready
Answer(late) == window.ready \/ late

(* RefreshReady in MarketplaceLiveRefreshTick; late: 12 seconds are over. *)
RefreshTick(late) ==
    /\ Idle /\ Refreshing
    /\ window.loaded = Parking(window.market) /\ window.parked /\ Shared(window)
    /\ IF ~Answer(late) \/ Pending(window.refresh)
       THEN /\ window' = [window EXCEPT !.access = FALSE]
            /\ UNCHANGED <<client, toServer, faults>>
       ELSE LET v == [window EXCEPT !.access = TRUE]
            IN  IF client.panel = "closed"
                THEN /\ window' = [v EXCEPT !.refresh = 0]
                     /\ UNCHANGED <<client, toServer, faults>>
                ELSE \/ Change(client, v, window.refresh)
                     \/ /\ window' = v          \* the cursor is busy
                        /\ UNCHANGED <<client, toServer, faults>>
    /\ UNCHANGED <<agent, world, mem, toClient>>

(* RequestGoldDeposit: the game itself asks for a refresh. *)
GoldDeposit ==
    /\ Idle /\ client.panel = "open" /\ ~Refreshing
    /\ window.enabled /\ window.parked /\ window.passive
    /\ client.selected = window.loaded /\ window.loaded \in window.market
    /\ window' = [window EXCEPT !.asked = TRUE]
    /\ UNCHANGED <<agent, world, mem, toClient, toServer, client, faults>>

(* Window.Tick in a game: publish again, with what has changed since. *)
Heartbeat ==
    /\ Playing /\ window.enabled /\ window.parked
    /\ window' = [window EXCEPT !.shown = View(window)]
    /\ UNCHANGED <<agent, world, mem, toClient, toServer, client, faults>>

-----------------------------------------------------------------------------
(* The page switch: PageChanged, OldSharedStashFreed, the new page's data, *)
(* NewSharedStashUnitsCreated.                                             *)

(* GAME_SaveClients writes the page in memory under the current file name. *)
Saved == IF mem = None THEN disk ELSE [disk EXCEPT ![client.named] = mem.ver]

Reply(kind, page) == toClient' = Append(toClient, [kind |-> kind, page |-> page])

(* CCMD_HandleSharedStashMessage *)
ServerReceive ==
    /\ Playing /\ toServer # <<>>
    /\ toServer' = Tail(toServer)
    /\ LET m == Head(toServer)
       IN  IF m.kind = "changed"
           THEN /\ \/ /\ Reply("busy", m.page) /\ UNCHANGED mem
                      /\ disk' \in {disk, Saved}
                   \/ /\ Reply("freed", m.page) /\ mem' = None /\ disk' = Saved
                /\ UNCHANGED faults
           ELSE /\ UNCHANGED disk
                /\ \E bad \in BOOLEAN :
                     /\ mem' = IF bad THEN None ELSE m.data
                     /\ Reply(IF bad THEN "failed" ELSE "created", m.page)
                     /\ Fault(bad)
    /\ UNCHANGED <<lease, pending, world, window, client>>

(* MarketplaceLiveSendFreshPage: the prepared packets, or the native read  *)
(* of the named file; None where a protected page has no packets.          *)
Fresh(c, page) ==
    IF c.packets # None /\ c.packets.page = page THEN c.packets
    ELSE IF window.enabled /\ page \in window.market THEN None
    ELSE File(c.named)

SendLoaded(c, data) ==
    /\ client' = [c EXCEPT !.phase = "created"]
    /\ toServer' = Append(toServer, [kind |-> "loaded", page |-> c.selected, data |-> data])

\* Mutant: the previous page is loaded under the file name of the new one.
RollbackUnnamed(c) == [c EXCEPT !.attempted = TRUE, !.selected = c.previous,
                                !.packets = File(c.previous)]
Rollback(c) == [c EXCEPT !.attempted = TRUE, !.selected = c.previous,
                         !.named = c.previous, !.packets = File(c.previous)]

(* MarketplaceLiveRecoverPage: back to the previous page, once. *)
Recover(c, bad) ==
    IF bad THEN /\ client' = [c EXCEPT !.attempted = TRUE, !.packets = None]
                /\ UNCHANGED toServer
    ELSE SendLoaded(Rollback(c), Rollback(c).packets)

\* Mutant: only the answer that is waited for is taken.
ExpectedExactly(m) == m.kind = client.phase /\ m.page = client.selected
Expected(m) == /\ client.phase # "none" /\ m.page = client.selected
               /\ \/ m.kind = client.phase
                  \/ m.kind = "failed" /\ client.phase = "created"
                  \/ m.kind = "busy" /\ client.phase = "freed"

(* SCMD_HandleSharedStashMessage *)
ClientReceive ==
    /\ Playing /\ toClient # <<>>
    /\ toClient' = Tail(toClient)
    /\ LET m == Head(toClient)
           c == client
           p == m.page
       IN  \/ ~Expected(m) /\ UNCHANGED <<client, window, toServer, faults>>
           \/ /\ Expected(m) /\ m.kind = "busy"
              /\ client' = [Settle(c) EXCEPT !.selected = c.previous,
                                             !.request = IF @ = None THEN p ELSE @]
              /\ UNCHANGED <<window, toServer, faults>>
           \/ /\ Expected(m) /\ m.kind = "freed"
              /\ LET n == [c EXCEPT !.named = p]
                     data == Fresh(n, p)
                 IN  IF data = None
                     THEN \E bad \in BOOLEAN : Recover(n, bad) /\ Fault(bad)
                     ELSE SendLoaded(n, data) /\ UNCHANGED faults
              /\ UNCHANGED window
           \/ /\ Expected(m) /\ m.kind = "failed"
              /\ IF c.attempted THEN UNCHANGED <<client, toServer, faults>>
                 ELSE \E bad \in BOOLEAN : Recover(c, bad) /\ Fault(bad)
              /\ UNCHANGED window
           \/ /\ Expected(m) /\ m.kind = "created"
              /\ \E cursor, published \in BOOLEAN :
                   LET n == LoadedClient(c, window, p, cursor)
                   IN  Pump(Settle(n), LoadedWindow(c, window, p, cursor, published))
    /\ UNCHANGED <<agent, world, mem>>

-----------------------------------------------------------------------------
(* The game process.                                                       *)

(* The launch guard waits for a closed write, and may give up waiting. *)
Launch == /\ game = "off" /\ game' = "menu" /\ Fault(lease # None)
          /\ UNCHANGED <<agent, settings, enrolled, window, client, mem,
                         toServer, toClient>>

(* The native load of the named page.  It takes longer than the agent's    *)
(* short writes and than a frame: both have ended.                         *)
Join == /\ game = "menu" /\ lease = None /\ ~window.enabled
        /\ game' = "play" /\ mem' = File(client.named)
        /\ UNCHANGED <<agent, settings, enrolled, window, client,
                       toServer, toClient, faults>>

(* The game saves and ends; MarketplaceLiveTick resets the switch. *)
Leave == /\ Playing /\ game' = "menu"
         /\ LeavesMidSwitch \/ client.selected = client.named
         /\ mem' = None /\ disk' = Saved /\ toServer' = <<>> /\ toClient' = <<>>
         /\ client' = [Settle(client) EXCEPT !.request = None, !.panel = "fresh",
                                             !.restoreTo = 0]
         /\ UNCHANGED <<lease, pending, settings, enrolled, window, faults>>

(* Window.Tick outside a game. *)
MenuTick == /\ game = "menu" /\ window.enabled /\ Shared(window)
            /\ window' = [Revoke(window) EXCEPT !.access = TRUE, !.enabled = FALSE,
                                                !.refresh = 0, !.restore = 0]
            /\ UNCHANGED <<agent, world, client, mem, toServer, toClient, faults>>

(* The process ends; its window file stays, under a process that is gone. *)
Exit == /\ game # "off" /\ game' = "off"
        /\ window' = [InitWindow EXCEPT !.shown = IF window.shown = None THEN None
                                        ELSE [window.shown EXCEPT !.ours = FALSE]]
        /\ client' = InitClient /\ mem' = None /\ toServer' = <<>> /\ toClient' = <<>>
        /\ UNCHANGED <<agent, settings, enrolled, faults>>

Enroll == /\ ~enrolled /\ enrolled' = TRUE
          /\ UNCHANGED <<agent, game, settings, window, client, mem,
                         toServer, toClient, faults>>

(* Setup, in the game or on the website, stores other market pages. *)
ChangeRoute == /\ settings' \in Routes \ {settings} /\ Fault(TRUE)
               /\ UNCHANGED <<agent, game, enrolled, window, client, mem,
                              toServer, toClient>>

-----------------------------------------------------------------------------
(* The agent.                                                              *)

\* Mutant: the loaded page is not compared with the pages to write.
LiveWindowAnyPage(pages) ==
    LET w == window.shown
    IN  w # None /\ w.ours /\ w.market = settings /\ pages \subseteq settings
(* live_window: what the agent demands of live-window.json for the pages.  *)
LiveWindow(pages) ==
    LET w == window.shown
    IN  /\ w # None /\ w.ours
        /\ w.market = settings /\ pages \subseteq settings
        /\ w.loaded \notin pages
        /\ ~w.passive => w.loaded \notin settings

(* save_access: the closed game, or live.lock and an unloaded window. *)
SaveAccess(op, pages) ==
    /\ enrolled /\ lease = None
    /\ game # "off" => ~window.access /\ LiveWindow(pages)
    /\ lease' = [op |-> op, pages |-> pages, live |-> game # "off"]

rest == <<world, window, client, mem, toServer, toClient, faults>>

(* start: the intent of a transaction. *)
BeginJournal(pages) ==
    /\ pending = None /\ pages # {} /\ pages \subseteq settings
    /\ \A p \in Page : disk[p] < MaxWrites
    /\ SaveAccess("journal", pages) /\ UNCHANGED <<pending, disk, rest>>

(* recover, once the service has authorized the transaction. *)
BeginApply ==
    /\ pending # None /\ pending.phase # "applied"
    /\ SaveAccess("apply", pending.pages)
    /\ pending' = [pending EXCEPT !.phase = "applying"] /\ UNCHANGED <<disk, rest>>

(* request_refresh, for queued deliveries to the page in view. *)
BeginAsk ==
    /\ SaveAccess("ask", {}) /\ lease'.live
    /\ window.shown.loaded \in settings /\ window.shown.refresh = 0
    /\ UNCHANGED <<pending, disk, rest>>

\* Mutant: after a crash every page is written, whatever it contains.
EveryPage == pending.pages
PagesLeft == pending.left
Written(pages) == [p \in Page |-> IF p \in pages THEN disk[p] + 1 ELSE disk[p]]
Answered == [window EXCEPT !.ready = @ \/ (window.parked /\ window.shown.refresh # 0)]

(* The write, and the release of the lease. *)
Release ==
    /\ lease # None /\ lease' = None
    /\ \/ /\ lease.op = "journal" /\ pending' = [pages |-> lease.pages, phase |-> "intent",
                                                         left |-> lease.pages]
          /\ UNCHANGED <<disk, window>>
       \/ /\ lease.op = "apply" /\ pending' = [pending EXCEPT !.phase = "applied"]
          /\ disk' = Written(PagesLeft)
          /\ window' \in {window, Answered}
       \/ /\ lease.op = "ask" /\ UNCHANGED <<pending, disk>>
          /\ window' = [window EXCEPT !.asked = window.parked]
    /\ UNCHANGED <<world, client, mem, toServer, toClient, faults>>

(* live_result and report_failure: an answer to the refresh on show. *)
Report == /\ lease = None /\ window.parked /\ window' = Answered
          /\ UNCHANGED <<agent, world, client, mem, toServer, toClient, faults>>

(* The service commits or refuses; the journal is retired. *)
Retire == /\ lease = None /\ pending # None /\ pending.phase # "applying"
          /\ pending' = None
          /\ UNCHANGED <<lease, disk, rest>>

(* The agent dies with the lease, between two pages of a write perhaps. *)
AgentCrash == /\ lease # None /\ lease' = None
              /\ IF lease.op = "apply"
                 THEN \E done \in SUBSET PagesLeft :
                        /\ disk' = Written(done)
                        /\ pending' = [pending EXCEPT !.left = @ \ done]
                 ELSE UNCHANGED <<disk, pending>>
              /\ Fault(TRUE)
              /\ UNCHANGED <<world, window, client, mem, toServer, toClient>>

-----------------------------------------------------------------------------
Game == \/ TimerPump \/ \E p \in Page : SelectPage(p)
        \/ RestorePage \/ BankOpen \/ BankClose \/ ContinueClosed \/ Connect
        \/ BeginRefresh \/ \E late \in BOOLEAN : RefreshTick(late)
        \/ GoldDeposit \/ Heartbeat \/ ServerReceive \/ ClientReceive
        \/ Launch \/ Join \/ Leave \/ MenuTick \/ Exit
Agent == \/ \E pages \in SUBSET Page : BeginJournal(pages)
         \/ BeginApply \/ BeginAsk \/ Release \/ Report \/ Retire \/ AgentCrash
Next == Game \/ Agent \/ Enroll \/ ChangeRoute

Spec == Init /\ [][Next]_vars

(* The game's frames and the native timer keep running.  They look for the *)
(* lease far more often than the agent takes it, so what they try again    *)
(* and again succeeds at last: an empty cursor, a file that can be written.*)
Sends == client'.phase = "freed"
Timers == \/ MenuTick
          \/ TimerPump /\ Sends
          \/ ContinueClosed /\ (Sends \/ window'.parked)
          \/ Connect /\ window'.parked
Fairness == /\ WF_vars(ClientReceive \/ ServerReceive)
            /\ SF_vars(ServerReceive /\ mem' # mem)
            /\ SF_vars(Timers)
            /\ SF_vars(RefreshTick(TRUE) /\ (Sends \/ window'.refresh = 0))
            /\ WF_vars(Release \/ AgentCrash) /\ SF_vars(BeginApply) /\ WF_vars(Retire)

FairSpec == Spec /\ Fairness
===============================================================================
