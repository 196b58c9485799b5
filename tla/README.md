# Verification of the D2RHUD marketplace and journal protocols

This directory holds TLA+ modules that model the protocols of D2RHUD which move
valuable state between processes, the TLC configurations that check them on small
instances, and proofs of the most important properties for every instance, checked
by TLAPS. Source paths below are relative to the repository; `PROJECT.json` maps
every definition to the lines it stands for.

## 1. The system

D2RHUD is a DLL that is injected into Diablo II: Resurrected and draws an overlay,
plus tools around it. Most of it renders, formats or hooks the game. The parts with
a protocol of their own are the player market and the journals.

| Component | State it keeps | Operations | Properties that make it correct |
|---|---|---|---|
| Save agent (`tools/marketplace/custody-agent.py`) | stash page file, `pending.json`, one `record.json` per transaction | deposit, claim items, claim gold, start, recover, finish, watch loop | a page is replaced once per committed ticket; no edit of the player is overwritten; a journaled transfer ends |
| Vault service (`tools/marketplace/server/Escrow.php`, `Wallet.php`) | tickets, ledger of items, balances, withdrawals | prepare, status, cancel, authorize, commit, price, return, withdraw | one open ticket per player; tickets only move forward; goods are conserved |
| Market (`Market.php`, `Trading.php`, `Bundles.php`, `Escrow.php`) | listings, offers, agreements, owners, balances | list, offer, counter, accept, revise, pay, settle | nothing is sold twice; a trade has the terms both sides accepted; a sweep leaves no funded trade |
| Publication and identity (`Publication.php`, `ItemIdentity.php`) | rows with an identity, published items, reservations | publish, withdraw, admit, reserve, record a sale | an item is hosted once, by its owner |
| Live custody bridge (`MarketplaceLiveCustody.h`, `...Runtime.inl`) | `live.json` window, `live.lock`, page-change phase, refresh request | heartbeat, Permit, Pending, page change, refresh | a page is never loaded while a journal still needs it; a page change always ends |
| Page switching hooks (`D2RHUD.cpp`) | loaded page, switch flag | load, save and free the shared stash | the page is saved before it is freed |
| Launch guard (`MarketplaceLaunchGuard.h`) | lease on `live.lock` | acquire for the life of the process | no closed-game write while the game runs |
| Quest journal (`QuestJournal*.h/.cpp`) | host session, acknowledged revision, client store and its worker, journal file | observe, send, receive, update, commit, acknowledge, claim | a claimed reward is on disk before the next one; nothing rolls back |
| Spectate (`SpectateRelay.h`, `SpectateTransport.cpp`) | viewers, authority, profile, stream identities, bounded queues | subscribe, authorize, capture, relay, recover | no predictive frame gets lost between encoder and decoder but one that a later capture overtook; viewers see pictures again after every fault; nobody captures for nobody |
| Jobs and sessions (`BackgroundJob.h`, `SessionEpoch.h`) | one job, a generation | start, poll, advance | a stale completion is not applied |
| Hooks and start-up (`HookTransaction.h`, injector) | attached hooks | attach, commit, roll back | all or none |
| Preferences (`HudPreferences.cpp`, `HudConfigStore.cpp`) | settings files | migrate, save | atomic replacement, nothing lost |
| Rendering, item filter, gameplay features | engine state | drawing and engine hooks | depend on native code outside the repository |

How they interact. The game loads and writes the stash page; the agent writes the
same file, but only while the game is closed or, with the native bridge, while the
live window says that the market page is not loaded. The agent and the service
exchange HTTP requests that can be lost, time out, and arrive after the agent has
given up on them. The service runs each request in a database transaction under the
lock of its scope and settles trades at the end of it. The hard behaviours are the
crash between any two durable steps of a transfer, the repeated or overtaken
request, the page that changes between plan and write, the command of the player
that arrives in the middle of a transfer, and, for the journal, acknowledgements
that are older than the state they acknowledge. `PROJECT.json` lists them as
hazards at their lines, with the properties that watch them.

## 2. Plan

Done, in this order:

1. **Custody**: agent, service, game and page of one player, the abstract transfer
   ledger it implements, the inductive invariant and its proof.
2. **Quest journal**: host session, packets, client store, worker, file.
3. **Live bridge**: lease, heartbeat windows, page switches and their rollback, refresh
   requests, launch guard. It examines the windows that Custody only opens and closes.
4. **Market**: listings, offers, agreements, bundles and the settlement sweep between
   players.
5. **Spectate**: subscriptions, authority, streams and queues.
6. **Identity**: publication, admission and reservation of copies of one item by several
   owners. It closes the gap between Custody (one player) and Market (items that are what
   they are called).

Left, in this order:

1. **Browser's queued requests** and the owner's reset of the market.
2. **Jobs, sessions, hooks, preferences, companion update**: stale completions,
   all-or-nothing attachment, atomic replacement.
3. **Algorithms**: terror-zone rotation, gold-deposit detector, page requests, stack
   splits, checked against reference definitions.
4. **Proofs**: `PicturesFollow` of spectating.

## 3. Custody

### Modules

| Module | Content |
|---|---|
| `Custody` | the state, one action per step of the agent, request of the service, command of the player, and step of the game |
| `CustodyProperties` | what custody promises |
| `CustodyInvariant` | the inductive invariant, in five layers |
| `CustodyRefinement` | the refinement mapping to `TransferLedger` |
| `TransferLedger` | the abstract specification: exactly-once transfers between a player and a vault |
| `CustodyProofs` | theorems about every behaviour (types, position, tickets, open tickets); when no edit is mistaken for the agent's work: pages written once, items in one place; sums over finite sets; gold is conserved; custody implements the transfer ledger |
| `TransferLedgerProofs` | the ledger conserves goods |
| `MCCustody` | the instance for TLC |

### How the model corresponds to the code

*Files.* `page` is the stash page of the market; `pointer` and `safe` are
`pending.json` (the transaction and `reload_safe`); `phase`, `req`, `img` are the
fields of each transaction's `record.json`. `start` writes the record first and the
pointer second, so `Journal` has an outcome in which only the record exists.

*Agent.* `pc` is the position in `recover`/`finish`; a call in progress has the name
of its request and waits until `reply` is set. `PlanDeposit`, `PlanItemClaim` and
`PlanWithdrawalClaim` are `deposit`/`fund_agreed_trade` and `claim`; `Journal` is
`start`; `Recover` dispatches on the durable phase; `OnPrepare` ... `OnCommit` are
the branches on the answers; `Acquire`, `WritePage`, `MarkApplied`, `Release` are the
gate around the page replacement; `Finish` is `finish`. `Abort` is a crash, a lost or
timed-out answer or an exception that unwinds to the watch loop: the position is
lost, only files remain, and (with `LateRequests`) the abandoned request may still be
handled later.

*Service.* Each request is one action because the code runs it in one transaction
under the scope lock. A request is repeated as often as the agent repeats it;
`PrepareAgain` is the answer to a repetition. `Settle` is the end of every
transaction that can make trades possible: its net effect on this player is kept, and
which trade happens is left open, so every exchange both sides can afford is
explored.

*Game.* `game` is what the agent can learn of it. A game starts without a window
(`away`: the menu, and a game whose stash has not been opened yet), and the agent has no
access then: the launch guard holds the closed-game lease, and `live.lock` may stay held
(`MarketplaceLiveCustody.h:236`). `OpenGrant` publishes the window (`parked`) and `Revoke`
takes it back. `LoadPage` is the page change that asks `Permit` and `Pending`;
`LoadNatively` is the load that asks nobody: the page named when a game is joined, and every
page while the window is not enabled (`MarketplaceLiveCustody.h:223`). `UnloadPage` is the
save before the shared stash is freed. `Accessible` is `save_access`: the game closed, or
parked. Permissions for other pages are outside: the model has one market page.

*Goods* are a set of identified items and an amount of gold. Digest comparisons of
the code become equalities of goods: two pages with the same goods have the same
bytes here.

### Assumptions

- `UnmistakenSpec`. The agent knows its own write by the bytes of the page
  (`custody-agent.py:711-719`). Two of the player's edits can look like it: the save of a
  page that was loaded natively while a journal was pending, and an edit between the plan
  of a deposit and its journal. If the page then is exactly the planned image before the
  write, or exactly the old one after it, the agent takes it for its own write, or for
  none. `Coincidence` is that step, and `UnmistakenSpec` are the behaviours without it
  (`UnmistakenNext`: the game saves a page without being mistaken for the agent). The
  code does not exclude it; every other load and edit is in `UnmistakenSpec`, with or
  without permission. The runs and theorems that need it say so.
- `LateRequests`: a request the agent gave up on may still reach the service.
- `OperatorSales`: operators record sales (`Market::sale`).
- `MaxFaults` bounds the aborts; `GoldCap`, `ItemCap` are what the page can hold.
- `Launch` waits for the agent's write gate: the launch guard's lease. `Revoke`,
  `LoadPage` wait for it as well: they take `live.lock`.

### What is left out

Pairing and re-pairing of the agent, catalog and schema checks, `supportsEscrowItem`,
identity reservations between owners (see `Identity`), retained gold and lineage bookkeeping, shrinking
`item_limit`, gift commands, offers, bundles and stack splits, the limit of 32
withdrawals, the refresh hand-off to the game, and an exception inside a settlement
(the balance limit of `Escrow.php:91`) that rolls a commit back. The bit format of
pages is outside TLC's reach; the page editor appears by what it takes and places.

### Runs

| Run | Question | Bounds |
|---|---|---|
| `custody` | do goods stay in one place, is gold conserved, is every page written once, does the inductive invariant hold, with crash, repetition, late requests and loads without permission? | `UnmistakenSpec`, 2 transactions, 1 item, 1 withdrawal, 1 abort, 1 gold on the page and 1 elsewhere, a page that holds 1: 1,182,359 states |
| `custody_unguarded` | what survives every behaviour, edits that look like the agent's work and operator sales included? | `Spec`, 2 transactions, 1 abort: 1,438,330 states |
| `custody_live` | does custody implement the ledger; can a ticket be left open that the agent has forgotten, or a deposit be taken that cannot be committed; does every journaled transfer and every ticket end while the service answers and the page is accessible in the end, and does a written page return to the player even without either? | `OfflineSpec`, 2 transactions, 1 abort: 202,306 states |
| `custody_rejected` | is a rejected deposit cleared? (It is not, see below.) | 2 transactions, 1 abort |

Why the bounds are enough: two transactions give every overlap of a transfer with the
next one (the service admits one at a time, so a third adds only history); one item and
one piece of gold suffice to lose or duplicate either; two pieces of gold against a page
that holds one make a withdrawal be delivered in parts; one abort can hit every step.
Symmetry is used on transactions, items and withdrawals in safety runs only.

`CHECK_DEADLOCK FALSE`: transaction identities are finite, so a behaviour may end.

*Fairness.* `OfflineSpec` assumes `WF_vars(AgentStep)`: the watch loop of `main`/`run`
(`custody-agent.py:1371-1431`) calls the agent again for ever. `ServiceAnswers`,
`WF_vars(Respond)`, says that a reachable service answers a request, and `AccessStays`
that from some time on the game is closed or has a published window and the page unloaded.
Both are premises of `PendingResolves` and `OpenTicketEnds` and not of
`AppliedPageReturns`, which therefore covers a service that is down for ever and a page
that stays loaded. Nothing in the code gives `AccessStays`: a player who leaves a game in
the menu, or never opens the stash, keeps a pending journal and its ticket waiting as
long as that game runs. The two properties have one more exception, `NeedsReconciliation`:
a page that the player has edited into neither image stops the transfer until somebody
repairs it. Neither plans, game steps, commands nor late requests are fair. Aborts end
because of `MaxFaults`: after the last one, the agent is not interrupted any more.

### What disagrees with the documents

`custody_rejected` is a run: "A rejected deposit must not leave an unnecessary pending
journal" (`custody-agent.py:645`), but a crash between the phase `rejected` and the
removal of the pointer leaves one that is never cleared.

Four more show up as soon as the specification or a constant admits the situation. They
have no run of their own; TLC finds each with what the first column gives.

| Checked with | Statement in the repository | What the code does |
|---|---|---|
| `Spec`, `WrittenOnce` | the agent writes the complete page and then commits (`tools/marketplace/CUSTODY.md:189-190`) | an edit between plan and journal that leaves exactly the planned page is taken for the agent's write, and the ticket is committed without one |
| `Spec`, `writes[t] <= 1` for every ticket | exactly-once recovery in either access mode (`CUSTODY.md:276-277`) | a page that was loaded when the game was joined and is saved exactly as it was before the write is written a second time |
| `LateRequests = TRUE`, `OpenTicketIsPending` | a rejected prepare is cleared only after a 404 (`CUSTODY.md:320-321`) | a timed-out prepare can be admitted after the 404 and after the journal is gone; the ticket stays open |
| `OperatorSales = TRUE`, `TakenDepositIsCommittable` | a rejected listing leaves the physical item untouched (`server/Escrow.php:150-151`) | an operator's sale between prepare and commit makes the commit fail after the item left the page |

### Proofs

The inductive invariant has five layers.

1. `Structure`: types, one open ticket, the agent works for the pointer, a
   withdrawal in delivery is covered by what it reserves. Inductive in every
   behaviour. The arithmetic types need `Reservations`: without it a commit could
   take more than a withdrawal has left.
2. `Position`: where the agent is, what the journal says and what the service has on
   record fit together (`Journaled`, `Truthful`, `Tickets`, `LateCalls`). Inductive
   in every behaviour too: late requests are harmless because a ticket's images
   are those of a journal that never changes.
3. `Exclusion`: the agent is inside `save_access` only while the game cannot load the page;
   until the receipt, the image on the page says whether it has been written, and a page
   that is neither image says nothing and stops the transfer; a plan in memory is never
   what the page already is. Inductive in the behaviours of `UnmistakenSpec`.
4. `Whereabouts`: the ledger places an item with the player exactly when the item is on
   the page, carried, or taken by a deposit that is not committed yet; goods promised to
   the player are on no page before the claim is written. In the same behaviours.
5. `Accounts` adds the gold: what a claim brings is reserved by withdrawals, what a deposit
   takes lay on its page, and the balance, the carried gold, the page, the withdrawals under
   way and the written claims add up to what there was. In the same behaviours. The run
   `custody` checks the whole of it before anything is proved about it.

| Theorem | Establishes | Assumes |
|---|---|---|
| `CustodyTypes` | types; no amount is negative (the runs check it as a part of `Accounts` or `Position`) | nothing |
| `OneTicketAtATime` | at most one open ticket | nothing |
| `TicketsMoveForward` | a decided ticket is final, an authorized one can only commit | nothing |
| `WritesAreAuthorized` | while it is not loaded, the page changes only from before to after image of an authorized ticket | nothing |
| `PagesAreWrittenOnce` | a committed ticket wrote the page exactly once | `UnmistakenSpec` |
| `ReceiptsCanBeTrusted` | `applied` and `complete` are never ahead of the truth | `UnmistakenSpec` |
| `PositionAlways` | agent, journal and tickets agree: no receipt before the authorization, no commit before the receipt, no images but the journal's | nothing |
| `WhereaboutsAlways` | the first four layers | `UnmistakenSpec` |
| `AccountsAlways` | the whole inductive invariant | `UnmistakenSpec` |
| `GoldIsConserved` | no gold is created or destroyed | `UnmistakenSpec` |
| `CustodyImplementsLedger` | agent, service and game together implement the transfer ledger | `UnmistakenSpec` |
| `ItemsAreInOnePlace` | no item is duplicated or lost | `UnmistakenSpec` |
| `TakenDepositsCommit` | a deposit that left the page passes every check of its commit | `UnmistakenSpec`, no operator sales |
| `OpenTicketsArePending` | every open ticket is named by `pending.json` | no late requests |
| `LedgerConserves` | the abstract ledger conserves goods, keeps items in one place and moves one transfer at a time | `Gold` is a natural number |

`UnmistakenSpec` is no promise of the code: see "Assumptions".

("Nothing" means: nothing beyond the named assumptions on the constants: `None` is not a
transaction, withdrawal or image, the numbers are naturals, and transactions, items and
withdrawals are finite sets, as identities of 128 bits are.)

*Items.* `Whereabouts` is proved step by step on top of the other layers, one lemma per
action that moves goods; `OpenTicketsArePending` needs only the first two
layers and a small strengthening about the agent's position.

*Gold.* `GoldConserved` adds up what every withdrawal still owes and what every written
but uncommitted claim has brought, and no step may change the total. The module first proves
the laws of such sums (a term changes, two terms change, a sum of zeroes, a sum is at
least each of its terms) for every finite set. The argument then needs one fact about
each action: `OneOnItsWay` (at most one written transfer is not committed, from
`OneOpenTicket`), `ClaimsAreReserved` (the commit of a claim takes from each withdrawal
what the ticket reserved there, which is never more than it has left) and
`ReservedCommit` (what the commit takes altogether is the gold of the claim).

*Refinement.* A transfer of the ledger is a ticket; its stage comes from the ticket's
phase and from whether its page was written; what the player has is what is on the page,
carried or in the game. `Prepare` begins a transfer, `WritePage` takes or gives the goods,
`Commit` credits the vault, `Cancel` voids it, and every other step of the agent, of the
service and of the game (crashes, repetitions and late requests included) moves goods
within one side or changes nothing the ledger sees. `OneStage` shows that at most one
ticket changes its stage in a step; what makes the mapping a step of the ledger is the
inductive invariant: the write happens once, and a commit is never ahead of it.

Only model-checked: liveness (`PendingResolves`, `AppliedPageReturns`, `OpenTicketEnds`),
which is outside the prover's reach.

## 4. Quest journal

`QuestJournal` models one character: the host's session, the connection, the client's
receiver, the background worker of its store, and the two files (the journal and the
character the game saves). `QuestJournalProperties` states what it promises,
`QuestJournalInvariant` holds the inductive invariants behind it, `QuestJournalProofs` the
proofs, and `MCQuestJournal` instantiates it all.

### How the model corresponds to the code

*Host* (`QuestJournal.cpp`). `progress`, `published`, `revision`, `acked`, `awaiting`
and `paused` are `state`, `published`, `history.revision`, `acknowledgedState`,
`awaiting` and `storageBlocked` of the session. `Join` is `AfterLoad`; `Observe` is
`Tick` and the recipe and deposit callbacks: evidence, then `AdvanceEvents`, then
`Send`. With no evidence it is the periodic repetition, and also the refresh command.
`Kill` sends only when the boundary moves. `TurnIn` and `ObjectiveRecipe` are
`CreateQuest` with `Begin`, the native cube operation and `Finish`, on one thread; the
cube operation commits, is rejected or ends halfway (`Locked`). `Saved` puts the
snapshot in front of the game's own save. `OnTransfer` ... `OnReward` are the branches
of `Command`; `OnStale` and `OnUnsafe` drop the commands of another session and of a
dead player. `OnFailed` leaves open whether the sequence number still matches.

*Client.* `Receive` runs on the game's thread and may wait for the worker, so one
update is two steps: `ReceiveUpdate` queues the request (`ProgressStore::Update` up to
its wait) and `Complete` ends it; no other packet is handled between them.
`ReceiveAwaiting` opens the store, dropping the old one first: its destructor leaves
accepted counters to the worker (`Detach`), and the lease is then not free.
`Expire` is `CurrentView` after six seconds without a player.

*Worker.* `Take`, `Write`, `WriteFails`, `Stop` are the steps of `Run` under its lock
and outside it. `worker->durable` and `worker->revision` are read from `disk`: while a
store or its worker holds the lease nobody else writes the file, and `Write` changes
both together. `recent` abstracts the ten-second clock.

*Data.* A state keeps what the rewards depend on: completed quests, readiness, the
start of the journal, the lock, one counter and the evidence. The recipe evidence of
the countess quest, menus and messages are left out, as are the sequence numbers of
the view: the page may ask for any bonus reward, stale pages included. Revisions do
not reach 2^64 here. Channels start empty with each connection.

Left out: import of legacy progress and of old host-held journals, proof recovery,
acknowledge and menu quests, version mismatch, journals without events, an unreadable
file, and a folder that cannot be opened for other reasons than the lease.

### Runs

| Run | Question | Bounds |
|---|---|---|
| `journal` | do rewards stay behind the file, is none granted twice, does the save follow the journal, and is the inductive invariant `Claims` one? | a bonus quest with the cube recipe, a milestone quest that needs 2 kills, 2 games, 1 lost host or client, 2 packets: 1,464,525 states |
| `journal_faults` | with failing writes and a binding that expires early: is a durable claim still on disk, does the file never go back, does a player who stays get a durable journal again and again, does an accepted counter reach the file? | `FairSpec`, 1 milestone quest, 1 kill, 2 games, 1 fault, 1 packet: 156,523 states |

Why the bounds are enough: two games are one that writes and one that reads what the
first left; the second one's opening meets the worker of the first. Two quests with
different kinds of reward are the least for one reward to run ahead of another. The
packets in flight are those the code sends on its own; answers are not bounded, so a
snapshot, its acknowledgement and a command cross in every order.

`KillQuest` are the quests whose evidence is a number of kills, `KillTarget` the number.
A kill that does not move the boundary stays in memory until the next tick or save; one
that does is sent at once. Two kills are needed: the first counter is written at once,
and only the second can still wait in the store when the save is sent.

`DiskFails` and `Prompt` are assumptions. With failing writes the game's save of a
reward can be written although its claim was not: the code only pauses further rewards
(`QuestJournal.cpp:199`), so `SaveBarrier`, `OneRewardAhead` and `RewardOnce` are
checked with `DiskFails = FALSE`. With `Prompt = FALSE` the binding may expire before
the last packets of a game, with the same effect. `journal_faults` checks what holds
without either assumption.

*Fairness.* The tick, the command and packet hooks, each frame of the client, the
worker thread and the clock go on; the game removes a player whose client is gone. The
tick has strong fairness because only the model's bound on packets disables it.
`OnTransfer` and `OnAck` have it because `Safe` drops the commands of a dead player:
the client sends both again, and a player does not stay dead for ever. Joining,
leaving, kills, rewards and saves are not fair. A player who kills without a pause
changes the revision all the time; `MaxKills` ends that, and the code relies on counters
leaving the boundary alone.

### Proofs

Every copy of the journal is a version: a revision and a state. `Follows(v, w)` says that
w has the higher revision and has lost nothing of v, or is v. The first inductive
invariant, `Journaled`, is an order of the copies: the file, the requests of the worker,
the client's store (or the request it waits for), the updates under way, the host. It needs
no assumption, so writes may fail, processes may be lost and bindings expire at any time.

- `Queued` and `Accepted`: the file, the request being written and the next one follow
  each other, and the client's store follows all three. This is what the lease of the
  file is for: without it an older store's worker could hold a version the new store never
  had. While an update waits for the disk its request is ahead of the store, so every copy
  is behind one of the two (`Held`).
- `Packets`: the updates under way are of the last session, in the order of their
  revisions, and not behind what the client has; an acknowledgement names a revision that
  the file has reached.
- `Unopened`, `Waiting`: until the client has opened the file for a session it sends no
  journal; until the journal arrives no update is under way, and each journal on its way
  is what the file holds.
- `Leading`: from then on the host is ahead of every copy, and what was acknowledged is
  behind the file. The acknowledged boundary is then between the file's and the host's own,
  so `Durable`, which compares the first with the last, speaks of the file.

The second one, `Claims`, adds the rewards. It holds when `DiskFails = FALSE` and
`Prompt = TRUE` (`Reliable`), which it needs: the run would show a reward without its claim
otherwise (see above).

- `Granted`: the rewards in the game are accounted for by the host's state, those in the
  character's file by the journal file, and at most one is ahead of it. A reward is
  granted only while the boundary is durable, so by the first invariant every earlier one is
  on disk.
- `Reached`: an update never meets a client that has left its binding.
- `Served`: the request that an update waits for is with the worker or on disk. When the
  worker stops, it has therefore been written.
- `SavesBacked`: each save of the game on its way is covered by the file, or by the update
  right in front of it, which is forced, or by the request that the client waits for
  before it comes to the save.

| Theorem | Establishes | Assumes |
|---|---|---|
| `JournaledAlways` | the order of all copies | nothing |
| `DurableClaimsAreOnDisk` | a durable claim boundary is on disk | nothing |
| `FileNeverGoesBack` | the file loses no revision, claim, counter or evidence | nothing |
| `ClaimsAlways` | the whole second invariant | `Reliable` |
| `OneRewardAtATime` | at most one reward is ahead of the file | `Reliable` |
| `RewardsOnce` | no reward is granted twice | `Reliable` |
| `JournalBeforeSave` | the journal is on disk before the save behind it is written | `Reliable` |

The proofs have a lemma for each way a step changes the copies (`HostNotes`,
`HostPublishes`, `HostAsks`, `ClientReads`, `UpdateTaken`, `StoreOpens`,
`ClientDetaches`, `SessionEnds`), and each handler's lemma says which of these it is. That
`Advance` loses nothing (`AdvanceGrows`) rests on the greatest element of a finite set of
numbers, which is the one place where the order of the naturals is used (`Greatest`).

Only model-checked: `RewardsReturn` and `AcceptedReachesDisk`, which are liveness.

## 5. Live bridge

`LiveBridge` models how a running game lets the agent write the two market pages:
`MarketplaceLiveCustody.h` (the `Window`), `MarketplaceLiveCustodyRuntime.inl` and the
page hooks of `D2RHUD.cpp` (the switch), `MarketplaceLaunchGuard.h`, and the agent's side
(`live_window`, `save_access`, refresh requests). `LiveBridgeProperties` states what it
promises, `LiveBridgeInvariant` holds the inductive invariant behind it,
`LiveBridgeProofs` the proofs, and `MCLiveBridge` instantiates it all.

### How the model corresponds to the code

*Window.* `window` holds the fields of `Marketplace::LiveCustody::Window` and what its
files show: `access` is the lease on `live.lock`, `shown` the window file, `asked` and
`ready` the refresh request and its answer. `Configure`, `OpenGrant`, `Permit`, `Revoke`
and `CloseWindow` are its methods, as operators from one window to the next; each handler
composes them in the order of the code.

*Switch.* `client` holds the globals of the page switch (`gSelectedPage`, the name of the
stash file, the phase, the previous page, the prepared packets). `Pump` is
`MarketplaceLivePumpRequests`, which ends every handler that asks for a page.
`ServerReceive` and `ClientReceive` are the four packets of a switch: page changed, old
page freed (or busy), page loaded, page created (or failed), with the single rollback.

*Game.* `BankOpen`, `BankClose`, `ContinueClosed`, `Connect`, `RestorePage`,
`RefreshTick`, `GoldDeposit`, `Heartbeat` are the callbacks and timers; `Launch`, `Join`,
`Leave`, `MenuTick`, `Exit` the life of the process.

*Agent.* A lease is taken for one of three purposes (journal, apply, ask), and the work
under it ends with `Release` or `AgentCrash`; a crash of a write leaves any part of the
pages written.

*Data.* The content of a page is the number of writes of the agent to its file. Ages of
files and timers become choices, with their order kept.

Left out: the expiry of a window by its age of five seconds (a window of a dead process is
refused by its identity here), failures to delete a window file, duplicated or reordered
packets (the game's connection is reliable and ordered), Setup changing the market pages
while a journal is pending on them, and a native load that is slower than the agent's
short write.

### Runs

| Run | Question | Bounds |
|---|---|---|
| `bridge` | is the inductive invariant one: does the agent never write the loaded page, does the game never save a page under another name, is the window true, is no page loaded while its journal waits? | 3 pages, one or two of them for the market, 1 fault, 1 write, nobody leaves in the middle of a switch: 583,567 states |
| `bridge_live` | do a page switch and a parked refresh end? | `FairSpec`, 3 pages, one for the market, 1 fault, 1 write: 63,499 states |
| `bridge_left` | what if a player leaves in the middle of a switch? | 3 pages, no fault, 1 write |

Why the bounds are enough: three pages are a market page, another one and a parking page,
and with two market pages a switch between them; page 1, where each game starts, is among
them. One write is enough for a memory to be out of date. The fault is a failed load or
rollback, a crash of the agent, other market pages from Setup, or a launch that gave up
waiting.

*Fairness.* Packets arrive, frames and timers go on, the agent ends what it began and
retires what the service answered. Timers and the agent's start of a write have strong
fairness: each tries again and again something that another holds for a short time only
(the lease, a cursor, a file). Nothing the player does is fair, so a stash may stay open or
closed for ever.

### What disagrees with the documents

`bridge_left`: "It never writes the loaded page" (`CUSTODY.md:255`). The selected page is
the destination from the moment the change is sent, the file name only when the old page is
freed. A player who leaves in between keeps both; the next game loads the previous page
and the window names the destination.

Three more were met while modelling and have no run. "Closing the stash can still park its
inventory on an ordinary page, making both routes available" (`CUSTODY.md:267`): a stash
that is closed while a refresh is parked ends the refresh, but the lease that the refresh
took is not given back (`MarketplaceLiveCustodyRuntime.inl:62-64`), and the agent waits until
the stash is opened again. A refresh that was deferred, and whose stash was closed and
opened again before the timer looked, leaves its mask on (`CUSTODY.md:264`). Market pages that
are changed in Setup during a refresh lock the refresh until the player leaves the game.

### Proofs

The inductive invariant `Bridge` is checked by the run `bridge` and proved by
`LiveBridgeProofs`. Its parts, and why none can be left out:

- `Sound`, `Names`: the window file speaks for this process exactly while the window is
  parked, and then names the selected page. This is what the agent decides on.
- `Frozen`: while the agent holds its lease in a game, the window is parked, the game does
  not hold the lock, and the page in memory is not among those the lease is for. Every
  method of the window that could change the page needs the lock first (`SharedIsFree`).
- `Memory`: what is in memory is what the file holds under the name a save uses. Together
  with `Frozen` a write of the agent leaves it true.
- `Switching`, `Channels`: at most one packet of a page change is under way, and it is the
  one the phase waits for. Until the old page is freed the game still saves under its name;
  the packets prepared are those of the new file.
- `Permission`: the page a switch goes to has no journal left to apply.
- `Journal`: what is to be written can be written, for the types.

| Theorem | Establishes | Assumes |
|---|---|---|
| `BridgeAlways` | the whole inductive invariant | nobody leaves in the middle of a switch |
| `MemoryStaysCurrent` | the agent never writes the page in memory | the same |
| `SavesAreNamed` | the game never saves a page under the name of another | the same |
| `WindowStaysTrue` | a window file that speaks of the game names the page in memory | the same |
| `LoadsAwaitTheJournal` | no page is loaded that a journal is still to change | the same |

The assumption is `LeavesMidSwitch = FALSE`, and it is needed: `bridge_left` shows the
state that follows without it. The proof has one lemma for each method of the window
(`Configuring`, `Granting`, `Closing`, `Permitting`), which says that what fits a page
before the method fits it after, and one for each way a handler can end: the window alone
changes (`Undisturbed`), no page change is under way (`Resting`), a request is pumped
(`Pumping`), a packet moves a change on (`MidSwitch`), the agent's lease ends
(`Releasing`). A handler's lemma says which of these it is.

Only model-checked: `SwitchEnds` and `ParkedRefreshEnds`, which are liveness.

## 6. Market

`Market` models the trades between players: `Trading.php`, `Market.php`, `Bundles.php`,
the escrow commands and `settleReady` of `Escrow.php`, and the parts of `Publication.php`
that open and close listings. `MarketProperties` states what it promises,
`MarketInvariant` the inductive invariant behind it; `MarketTableProofs` proves what the
operators that commands are built from do to a database, `MarketProofs` that every command
keeps the invariant, and what follows.

### How the model corresponds to the code

`db` is the database. Each command is one action because the code runs it in one
transaction under `lockScope`; a command that is refused or repeated changes nothing. What
races is what a client has seen with what it sends: an answer to an offer names the
revision its sender has seen (`seen`), any revision so far may be named, and `lrev` is the
revision of the listing an offer was made for.

`Settle` ends a command with the sweep of `settleReady`: `Pass` reads the offers of one
selector in the order of their creation (`Read`), at most `PassLimit` of those whose listing
is held for sale (`Eligible`), funded or not: 256 in the code (`Escrow.php:388`). It settles
each that is `Ready` when its turn comes (`Visit`), and wakes the buyer and seller of each
trade (`Wake`); `Drain` repeats it until the queue or the budget is used up. Each trade costs budget and adds two entries to the
queue at most, so the 513 passes of the code (`Passes` for its 256 trades) are never what
ends it. Commands that do not sweep in the code (`publish`, `withdrawPhysical`,
bundles, wanted posts) use `Commit` alone.

`signed` is a history variable inside an offer: what each side put forward or accepted.

Offers that were rejected, withdrawn or superseded are forgotten at the end of the command:
nothing reads them again. Payments take the first available item of a kind
(`Allocation`); creation order stands for the code's order by time and, within a second,
identity.

Left out: stack splits and bag resources, listings by operators, expiry of publications and
spent source keys, compatibility of mods, limits of counts (256 offers, 32 posts), roles,
blocks and messages' text, statistics and notices. An item that an operator sold before it
was in the Vault is `stray`: its old owner's identity stands in the way of a deposit
(`ItemIdentity.php:103`). `keeper` is the owner in the Vault record, which an operator's sale
leaves alone; `owner` is the one in the items table.

### Run

| Run | Question | Bounds |
|---|---|---|
| `market` | is every item for sale at most once and by its owner, has a listing one agreement, does a trade have the terms both sides accepted, does a sweep leave no funded trade? | 2 players, 3 items of one kind, 1 gold, 1 payment, 2 listings, 2 live offers, 1 wanted post, 2 commands that move or list goods, any number of answers within 3 revisions and 2 terms, 2 trades per command, 1 offer read per pass: 153,960 states |

Why the bounds are enough: two players are both sides of every trade; with three items one
is sold, one pays, and one is the payment's alternative or the other half of a bundle. What
ann pays with is what ben can pay with, so the proceeds of a trade fund the next, in the
same sweep. A budget of 2 lets a sweep stop in the middle, as 256 does in the code, and with 2
offers a pass that reads 1 leaves the other out, as one that reads 256 does in the code:
an offer nobody can pay keeps a funded one from being seen. Two
commands set up any pair of listings or offers; answers, deposits that return and
settlements follow freely.

`CHECK_DEADLOCK FALSE`: bounded commands end. Nothing is promised about liveness: the
service acts only on requests.

One disagreement was met while modelling: "authenticated commands and deposits trigger
bounded settlement sweeps" (`tools/marketplace/README.md:21`), but the end of a bundle frees
its items for payments without one, and a claim from a gift campaign adds goods without one.
The limit of a pass is such a gap too: 256 older offers that nobody can fund hide a
later one that is funded from a sweep over all offers (the end of an escrow command,
`Escrow.php:330`), whose budget is then not used. A pass over one buyer's offers can be
full only with answers to his wanted posts and gifts, because his own proposals are refused
from 256 on (`Market.php:231`; the model has no such limit). `left` is a history variable: the players whose ready offers wait for a later command
for one of these reasons, a bundle that ended, an offer that its pass did not read
(`Unread`), or the budget used up. `NothingReadyWaits` says that there is no fourth.

The run checks `Orderly`, the inductive invariant, in place of the types alone.

### Proofs

All results hold for any finite or infinite set of players, any list of items and kinds, any
gold, payments and places, any positive budget and limit of a pass and any bounds of the model; the assumptions
are those of `MarketAssumption`: the special values (no owner, free, open to offers, no
place) are none of the ordinary ones, and amounts are naturals.

| Theorem | States |
|---|---|
| `OrderlyTables` | the inductive invariant `Orderly` |
| `OneListing` | an item listed in the Vault is for sale in exactly one listing, its owner's; no item is for sale twice (`OneActiveListing`) |
| `UniqueAgreements` | a listing is agreed with one offer and sold with at most one (`AgreementsAreUnique`) |
| `SettledOnTerms` | a trade settles on what both sides have put forward or accepted (`SettledAsAgreed`) |
| `NothingWaits` | a command leaves no funded trade behind, but for the players in `left`: by a budget used up, a pass with more offers than it reads, or a bundle that ended (`NothingReadyWaits`) |

None of the promises is inductive alone. That nothing is sold twice needs that what is for
sale is held by its seller in the right state (`Placed`): items change hands by other
listings, by payment and by operators, and only this says that no active listing still names
them. That a published place belongs to one listing is needed where a page is published
again. That an agreement is unique needs the link between offer and listing in both
directions (`Agreed`), and that the terms were agreed needs `signed` for offers that are
still open (`Consented`). `Linked` says that no offer names its own player's listing or a
revision that is still to come.

The parts are predicates on a database, not on the state, because one command takes the
tables through several of them: `Withdraw`, `List`, `Retired`, `Held`, `Settled` each have a
lemma that says what they keep, and between them an item may be without the listing its
state asks for (`ForSale(d, X)` lets the items in `X` wait) or in two (`Exclusive(d, Y)`
leaves out the listings in `Y`, for an item that moved to another published place). A
command is a chain of those lemmas.

The sweep is the other half. `Settled` keeps the tables sound and makes no other buyer's
offer ready than the two it wakes: everybody else has at most what he had. A pass therefore
keeps the invariant of the sweep, that every ready offer is selected by an entry of the
queue or belongs to a player who is left, by an earlier command or by an earlier pass that
did not read the offer (`Between`), and along its offers the part that it has read and has
yet to visit (`Sweeping`). The measure is
`Len(queue) + 2 * budget`, which every pass decreases; after `Passes` of them the queue or the
budget is empty. `Pass`, `Drain`, `Unended` and `PublishRows` are recursive functions on an
interval of numbers, and one lemma (`RecursionIn`) says that a function defined step by step
stays in a set that every step preserves: it is the induction that the proofs about `Pass`,
`Drain` and `PublishRows` share.

No property of this section is only model-checked; liveness is not promised.

## 7. Spectate

`Spectate` models how one player watches another: the viewer's and the source's transports
(`SpectateTransport.cpp`), the relay on the host (`SpectateRelay.h`), and the consent in the
game (`SpectateNative.cpp`). `SpectateProperties` states what it promises, `SpectateProofs` proves
a part of it.

### How the model corresponds to the code

*Transport.* `link`, `used`, `demand`, `incoming` are a transport's connection, the options it
sent, the stream it is asked for, and the frames it has received. A lost connection
(`Failed`) clears them; `Connect` authenticates and sends the options again.

*Video.* `TakeCapture`, `Queue`, `Submit`, `Decode` are the render thread and the two video
threads. Up to two captures are under way, one for each readback slot. The render thread
looks at the slots in the order of their index, whatever order the captures have
(`SpectateVideo.cpp:404-417`), so `First` lets either of two captures be found first; an
overtaken one is found at the next look, before any that is captured later. A capture that
is found waits for the encoder. Its queue has one place (`SpectateVideo.cpp:26-34`), and
`Queue` is the capture that is found while another waits, and drops it; a capture that
nothing drops goes from its slot to the encoder in one step, `Submit`. A frame that was
captured for an old generation is encoded and thrown away, a full queue resets the
connection, and a predictive frame of an unknown stream makes the viewer connect again.

*Relay.* `Hear` is one message of one socket, `Turn` the end of the relay's loop: `Refresh`
decides which streams start again and with which number, and tells the sources. `Stale` sets
a stream to 0, so that the next turn gives it a new number. `Reset` is a changed port or an
authority that is too old.

*Frames* have a stream, the number of their capture (`n`: `Frame.sequence`, counted in
`Spectate.cpp:282-295`), which is what relay and decoder compare, and their place in the
encoder's chain: every `Gop`-th frame that is encoded is a key frame, the others are
predicted from the frame that was encoded before them. The field `after` is history: the
latest capture in the chain before the frame. Captures that fail on the way (the GPU, the
readback, the codec) are left out; the code then connects again. What a frame shows, bit rates and the adaption of bit rates are left out
(congestion happens once per scenario instead), as are heartbeats, acknowledgements, notices,
and the tokens (`expiry` stands for a lost authorization). Options and subscription are one
message; a batch is decoded frame by frame; the client's outgoing queue is one with its
socket's. Viewers and sources are disjoint sets.

### Run

| Run | Question | Bounds |
|---|---|---|
| `spectate` | has a new stream a new number; does no predictive frame get lost between encoder and decoder; do viewers see pictures in the end, and does nobody capture for nobody? | `FairSpec`, 1 source, 2 other players, groups of 3 frames, 2 to 4 captures per stream, 2 readback slots, queues of 1 frame, one of 14 scenarios: 132,795 states |

A scenario is who watches at first, one move of a player (open, close or change a view,
switch sharing off or on), and one fault (a lost connection, a full queue, a lost
authorization, a relay that starts over), in every order with everything else. The scenario
with two viewers is the full queue at the source, which must restart the stream for both.
Three captures per stream have a key frame and two that depend on it, and let a capture be
overtaken, or dropped, before and after another; four reach the next key frame. Two, which
the scenarios with most streams have, let the second overtake or drop the first. With one,
the last capture of an old stream could drop the only one of the new stream, and viewers
would wait for a picture for no other reason than the bound.

*Fairness.* The relay's loop, the game on the host, the transports and the video threads go
on. No move and no fault is fair.

`PicturesFollow` says what is kept of "Never drop a predictive frame and then continue its
dependent stream" (`SpectateTransport.cpp:161-162`): the picture before a predictive frame is
the latest capture that is in the chain before that frame. It does not say that every frame
of the chain is shown, because the code does not keep that. Two readback slots may hand
captures to the encoder out of order. With capture 2 encoded before capture 1, frame 1 comes
second in the chain, the relay drops it for its number (`SpectateRelay.h:239`), and frame 3,
which is predicted from frame 1, is forwarded and shown after frame 2. The run has this case
(the picture after 2 is 3, and `after` of 3 is 2): the property allows the overtaken capture
to be missing, and nothing else.

Two more gaps contradict the same comment. A change of the profile clears
the frames that wait for the decoder (`SpectateTransport.cpp:646-648`) while the old stream
goes on, which is why `PicturesFollow` leaves out views whose profile was changed. And a
source that switches sharing off and on again before the relay has refreshed drops the captures
on the way to its encoder while the stream goes on; with `Flaps = TRUE` TLC finds `PicturesFollow`
violated.

A viewer makes at most one move in a scenario, so a profile that is changed and changed back
is outside the run: `PicturesFollow` is not claimed for it.

A fourth gap, of the stream numbers, is not modelled: when the relay throws, `SafeRun` (`SpectateTransport.cpp:471`)
starts a new one whose numbers begin at 1, although stream numbers are to be kept "monotonic
across port/session changes in this host" (`SpectateRelay.h:86`). The model's resets are
those of `Relay::Reset`, which keep the serial.

### Proofs

All results hold for any number of players and sources, any group length, room and (positive)
number of captures, with or without `Flaps`, and for any moves and faults; the assumptions are
those of `SpectateAssumption`.

| Theorem | States |
|---|---|
| `SpectateTypes` | `TypeOK`: types, and every stream number that is anywhere has been given by the relay |
| `NumbersAreFresh` | a stream that starts gets a number that nobody knows, also after a reset, and that no other source gets (`FreshStreams`) |

Relay and decoder recognize frames of the present stream by its number alone
(`SpectateRelay.h:239`), and frames of earlier streams stay for any time in a capture, an
encoder, a socket, a decoder's queue or on the screen. So `TypeOK` types the queues as well:
`Upward` and `Downward` are the messages under way, with the streams up to `serial`, and it
is inductive as it stands. A reset is safe because it clears the
streams and keeps the serial. In one turn the numbers differ because a source's number counts
the restarted sources up to it, and these sets grow strictly (`Numbers`). Only a turn starts
a stream (`StartsInTurn`): whatever a message does to a stream can only end it.

Only model-checked: `CaptureFollowsWatchers`, which is liveness, and `PicturesFollow`, whose
inductive invariant must say of each stream where in encoder, queues, relay and decoder its
frames are. The run has one source; that two sources never get the same number is the
theorem's part.

## 8. Identity

`Identity` models one persistent identity (a saved UUID, or a seed with a base code) and
the players who hold copies of the item that carries it. Saves are the players' own files,
so a restored or copied save brings an item back; only the service can tell whether a copy
is the item. `IdentityProperties` states what it promises, `IdentityProofs` proves it.

### How the model corresponds to the code

*Rows.* A row is an entry of `items` with this identity. `owner` and `keeper` are
`items.owner` and `escrow_items.owner`, `state` is `escrow_items.state`, `sold` the rows with a
`completed_sale`. A copy that the service does not recognise gets a new row, from the finite
set `Row`.

*Publications.* `page[p][s]` is the entry of `published_items` for the place `s` (page, tab and
bytes, which include the position), with the status of its listing; `spent` is
`custody_sources`. `Publish` maps the copy to the entry of its place, else to the row that
decides, else to the only row of its owner, else to a new one; `Unpublish` is a page without
the item, with two copies of it, or with one that is not admitted.

*Admission.* `Admits` and `AdmitsPage` are `identityAdmission` for the agent and for
discovery: a row that was in the Vault or was sold decides alone, and its copy must be
delivered to its owner. `reserved` is `identity_reservations`.

*Tickets.* A deposit is prepared, authorized and committed (or cancelled) in separate
requests, with any requests of others in between; the commit repeats the checks of the
publication and of the Vault record and not the admission. `Settle` is the sweep at the end
of a command: any row in the Vault that is free, or listed by its owner, may change hands.

Left out: imports by operators (`Market.php:173-199`), which create listings without an
identity; splits of stacks, which draw a new identity for a part (`Escrow.php:418-427`);
compact items, which have none; gift campaigns; several items in one deposit, which are
admitted one by one; expiry of publications; agents and catalogs.

### Run

| Run | Question | Bounds |
|---|---|---|
| `identity` | does the Vault host an item once, whoever publishes and deposits copies of it, and only for its owner? | 3 players, 2 rows, 2 places per player, no sale by an operator while a deposit is under way: 122,445 states |

Why the bounds are enough: two rows are the item and the copy that the service failed to
recognise; two places are where it lies and where it was moved; three players are an owner,
a buyer and one with a restored copy. With three rows (401,223 states) both properties hold too.

`RacingSales` is an assumption of `OwnersHost` only; `HostedOnce` holds with such sales.

### Proofs

`HostedOnce` is inductive. Its parts need one another: that no second row enters the Vault
needs to know that what a deposit was admitted for stays true until its commit
(`AdmissionLasts`), which needs that nobody else's deposit of the identity is under way
(`ReservedByDeposit`) and that a cancelled or committed claim returns the row it took
(`ClaimsAreKept`). `OwnersHost` is inductive relative to it.

| Theorem | Establishes | Assumes |
|---|---|---|
| `HostedOnceAlways` | one row at most has a Vault record, one deposit at most is under way, none while the Vault holds the item | nothing |
| `OwnersHostAlways` | the Vault holds an item for its owner in the items table; only the owner deposits it again | `RacingSales = FALSE` |

("Nothing": nothing beyond that `None` is neither a player nor a row.)

### What disagrees with the documents

These were met while modelling and have no run.

- "Only its current owner can re-deposit a delivered item" (`CUSTODY.md:315-316`), and a sale
  recorded by an operator "cannot override custody ownership" (`server/README.md:141-142`). With
  `RacingSales = TRUE` TLC finds `OwnersHost` violated: a sale that is recorded between the
  prepare and the commit of such a deposit changes `items.owner`, and the commit, which
  compares `escrow_items.owner` only (`Escrow.php:220`), puts the item into the Vault of the
  seller.
- "Prevent simultaneous public copies" (`ItemIdentity.php:107-108`): an entry of
  `published_items` outlives its listing, and a copy that is found by it keeps its row, although
  the admission named another one (`Publication.php:86`). A player who has published a copy and
  later buys the item advertises the row of the copy again; her deposit of the item is refused
  as "Published item ownership changed" (`Escrow.php:204`), from every place; and once an operator
  records the sale of the bought row, two owners can advertise the identity.
- After a sale that an operator recorded of an item that was never in the Vault, the buyer's
  deposit is refused as "already held in Vault" (`ItemIdentity.php:103`), because no Vault
  record exists that could be delivered.

## 9. Running

    tlc -workers 2 -config MCCustody.cfg MCCustody.tla
    tlapm CustodyProofs.tla

`tlapm` 1.4.5 misreads an `@` on the right-hand side of an `EXCEPT` that is nested in another
`EXCEPT`; the modules with proofs avoid that form. A few leaves that take the solver long
carry `SMTT(20)`.

Each run names its configuration in `PROJECT.json`. Definitions commented as mutants
are deliberate bugs: substituting one for the definition it follows makes the named
property fail, which shows that the property depends on that part of the code.
