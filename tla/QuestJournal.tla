----------------------------- MODULE QuestJournal -----------------------------
(***************************************************************************)
(* The quest journal of one character: the host's game session validates   *)
(* progress and grants rewards, the owner's computer keeps the journal     *)
(* file.  The host sends snapshots, the client stores them through a       *)
(* background worker and acknowledges the ones that are on disk; a reward  *)
(* needs an acknowledged claim boundary.  Counters alone are accepted      *)
(* without an acknowledgement and written later.                           *)
(*                                                                         *)
(* A host or a client can be lost between any two steps.  The game's own   *)
(* save of the character travels behind the journal snapshot and is        *)
(* written by the client's game.                                           *)
(***************************************************************************)
EXTENDS Naturals, Sequences, FiniteSets

CONSTANTS
    N,            \* quests of the mod, numbered from 1
    Bonus,        \* quests whose reward is claimed from the journal
    Milestone,    \* quests whose reward is claimed by a cube recipe
    RecipeQuest,  \* quests whose objective is a cube recipe of the journal
    KillQuest,    \* quests whose objective is a number of kills
    KillTarget,   \* that number
    None,         \* absence of a session, a store, a request
    MaxSessions,  \* bound on the number of games joined
    MaxKills,     \* bound on the kill counter
    MaxPackets,   \* bound on the packets in flight in either direction
    MaxFaults,    \* bound on lost hosts, lost clients and failed writes
    DiskFails,    \* a write of the journal file, or the start of its thread, may fail
    Prompt        \* the last packets of a game arrive within six seconds

Quests    == 1..N
Rewarding == Bonus \cup Milestone

State == [completed : 0..N, ready : BOOLEAN, closed : BOOLEAN,
          uncertain : BOOLEAN, kills : 0..MaxKills, evidence : SUBSET Quests]
Fresh == [completed |-> 0, ready |-> FALSE, closed |-> FALSE,
          uncertain |-> FALSE, kills |-> 0, evidence |-> {}]

Version == [rev : Nat, state : State]
Calls   == [request : Version, wait : BOOLEAN, live : BOOLEAN]

ASSUME JournalAssumption ==
    /\ {N, MaxSessions, MaxKills, MaxPackets, MaxFaults} \subseteq Nat
    /\ Bonus \subseteq Quests /\ Milestone \subseteq Quests \ Bonus
    /\ RecipeQuest \subseteq Quests \ Milestone
    /\ KillQuest \subseteq Quests \ RecipeQuest /\ KillTarget \in Nat
    /\ {DiskFails, Prompt} \subseteq BOOLEAN
    /\ None \notin State \cup Version \cup Calls

VARIABLES
    \* Session on the host.
    epoch,        \* identity of the session, 0 without one
    joined,       \* sessions so far
    progress,     \* s.state
    published,    \* s.published: the state of the revision
    revision,     \* s.history.revision
    acked,        \* s.acknowledgedState, None without an acknowledgement
    awaiting,     \* s.awaiting: the journal has not arrived yet
    paused,       \* s.storageBlocked
    rewards,      \* rewards the character in the game has received
    \* The connection.
    down,         \* packets from the host
    up,           \* commands from the client
    \* Client.
    player,       \* the local player exists
    store,        \* clientStore->history: the accepted snapshot, or None
    bound,        \* storageSession
    call,         \* a packet whose update of the store has not returned, or None
    \* Worker of the store; it outlives the store it was started by.
    busy,         \* worker->busy; the thread holds the lease of the file
    next,         \* worker->next
    running,      \* the request being written
    trouble,      \* worker->error
    recent,       \* the last counter write is less than ten seconds ago
    \* Files.
    disk,         \* the journal file
    saved,        \* rewards in the character file written by the game
    faults        \* lost hosts and clients and failed writes so far

hostVars   == <<epoch, joined, progress, published, revision, acked, awaiting,
                paused, rewards>>
clientVars == <<player, store, bound, call>>
workerVars == <<busy, next, running, trouble, recent>>
fileVars   == <<disk, saved>>
vars == <<hostVars, down, up, clientVars, workerVars, fileVars, faults>>

----------------------------------------------------------------------------
\* What a reward depends on: Durable compares these fields only.
Boundary(s) == [completed |-> s.completed, ready |-> s.ready,
                closed |-> s.closed, uncertain |-> s.uncertain]

CountersOnly(old, new) == old = [new EXCEPT !.kills = old.kills]

\* AdvanceEvents: quests without a reward complete as soon as their evidence is
\* there; the first one with a reward, or without evidence, stops the advance.
AutoDone(s) == {k \in s.completed..N :
                  \A q \in (s.completed + 1)..k : q \in s.evidence \ Rewarding}

Advance(s) ==
    IF ~s.closed \/ s.uncertain THEN s
    ELSE LET k == CHOOSE k \in AutoDone(s) : \A j \in AutoDone(s) : j <= k
         IN [s EXCEPT !.completed = k,
                      !.ready = \/ k + 1 \in s.evidence \cap Quests
                                \/ k = s.completed /\ s.ready]

Claimed(s) == [s EXCEPT !.completed = @ + 1, !.ready = FALSE, !.closed = TRUE]

\* Mutant: any acknowledgement opens the next reward.
AnyAck == ~awaiting /\ ~paused /\ acked # None

\* Durable: the client has stored the current claim boundary.
Durable == ~awaiting /\ ~paused /\ acked # None /\ Boundary(acked) = Boundary(progress)

Live == epoch # 0

Snapshot == [kind : {"snapshot"}, session : 1..MaxSessions, awaiting : BOOLEAN,
             flush : BOOLEAN, rev : Nat, state : State]
Save     == [kind : {"save"}, rewards : SUBSET Quests, rev : Nat]
Command  == [kind : {"transfer"}, session : 1..MaxSessions, content : Version]
            \cup [kind : {"ack"}, session : 1..MaxSessions, rev : Nat]
            \cup [kind : {"failed", "start"}, session : 1..MaxSessions]
            \cup [kind : {"reward"}, session : 1..MaxSessions, quest : Quests]

TypeOK ==
    /\ epoch \in 0..MaxSessions /\ joined \in 0..MaxSessions
    /\ progress \in State /\ published \in State
    /\ acked \in State \cup {None}
    /\ revision \in Nat
    /\ {awaiting, paused, player, busy, trouble, recent} \subseteq BOOLEAN
    /\ rewards \subseteq Quests /\ saved \subseteq Quests
    /\ down \in Seq(Snapshot \cup Save) /\ up \in Seq(Command)
    /\ store \in Version \cup {None} /\ disk \in Version
    /\ bound \in 0..MaxSessions
    /\ call \in Calls \cup {None}
    /\ next \in Version \cup {None} /\ running \in Version \cup {None}
    /\ faults \in 0..MaxFaults

Init ==
    /\ epoch = 0 /\ joined = 0
    /\ progress = Fresh /\ published = Fresh /\ revision = 0
    /\ acked = None /\ awaiting = TRUE /\ paused = FALSE /\ rewards = {}
    /\ down = <<>> /\ up = <<>>
    /\ player = FALSE /\ store = None /\ bound = 0 /\ call = None
    /\ busy = FALSE /\ next = None /\ running = None
    /\ trouble = FALSE /\ recent = FALSE
    /\ disk = [rev |-> 1, state |-> Fresh] /\ saved = {} /\ faults = 0

----------------------------------------------------------------------------
(***************************************************************************)
(* The host.                                                               *)
(***************************************************************************)
Emit(packets) == down' = down \o packets

\* Bound: a step that is not the answer to a packet needs room for its own.
Room(n) == Len(down) + Len(up) + n <= MaxPackets

\* Send: a changed state gets the next revision; anything else is sent again.
Packet(s, rev, waiting, flush) ==
    [kind |-> "snapshot", session |-> epoch, awaiting |-> waiting,
     flush |-> flush, rev |-> rev, state |-> s]

Revise(s, old, rev) == IF s = old THEN rev ELSE rev + 1

Send(s, flush, behind) ==
    LET rev == IF awaiting THEN revision ELSE Revise(s, published, revision) IN
    /\ progress' = s /\ revision' = rev
    /\ published' = IF awaiting THEN published ELSE s
    /\ Emit(<<Packet(s, rev, awaiting, flush)>> \o behind)

HostOnly == UNCHANGED <<clientVars, workerVars, fileVars, faults>>

\* AfterLoad: a new session that waits for the journal of the player's computer.
Join ==
    /\ ~Live /\ ~player /\ call = None /\ joined < MaxSessions
    /\ joined' = joined + 1 /\ epoch' = joined + 1
    /\ progress' = Fresh /\ published' = Fresh /\ revision' = 0
    /\ acked' = None /\ awaiting' = TRUE /\ paused' = FALSE
    /\ rewards' = saved
    /\ player' = TRUE /\ down' = <<>> /\ up' = <<>>
    /\ UNCHANGED <<store, bound, call, workerVars, fileVars, faults>>

Evident(s, got) == Advance([s EXCEPT !.evidence = @ \cup got])

\* Tick, Crafted, DepositedRune: observe, advance, send.
Observe(got) ==
    /\ Live /\ Room(1)
    /\ got \subseteq Quests \ KillQuest
    /\ got # {} => ~awaiting /\ ~progress.uncertain
    /\ Send(IF awaiting THEN progress ELSE Evident(progress, got), FALSE, <<>>)
    /\ UNCHANGED <<epoch, joined, acked, awaiting, paused, rewards, up>>
    /\ HostOnly

\* The quests a number of kills completes.
Slain(kills) == IF kills >= KillTarget THEN KillQuest ELSE {}

\* Killed: the counter waits for the next tick unless the boundary moved.
Kill ==
    /\ Live /\ Room(1) /\ ~awaiting /\ ~progress.uncertain
    /\ progress.kills < MaxKills
    /\ LET kills == progress.kills + 1
           s == Evident([progress EXCEPT !.kills = kills], Slain(kills)) IN
       IF s.completed # progress.completed \/ s.ready # progress.ready
       THEN Send(s, FALSE, <<>>)
       ELSE progress' = s /\ UNCHANGED <<published, revision, down>>
    /\ UNCHANGED <<epoch, joined, acked, awaiting, paused, rewards, up>>
    /\ HostOnly

\* Begin: the active quest, an open and durable journal.
Begins(q) == Live /\ Durable /\ ~progress.uncertain /\ q = progress.completed + 1

\* Mutant: a transaction that ended halfway only closes the journal.
ClosedOnly(s) == [s EXCEPT !.closed = TRUE]

\* Finish(Ambiguous): some outputs may exist; the journal locks.
Locked(s) == [s EXCEPT !.uncertain = TRUE, !.closed = TRUE]

\* Begin, the native cube transaction and Finish, on the game thread, for the
\* reward of a milestone quest.
TurnIn(q) ==
    /\ q \in Milestone /\ Room(1) /\ Begins(q) /\ progress.ready
    /\ \/ Send(Claimed(progress), FALSE, <<>>) /\ rewards' = rewards \cup {q}
       \/ Send(progress, FALSE, <<>>) /\ UNCHANGED rewards
       \/ Send(Locked(progress), FALSE, <<>>) /\ rewards' \in {rewards, rewards \cup {q}}
    /\ UNCHANGED <<epoch, joined, acked, awaiting, paused, up>>
    /\ HostOnly

\* The same for an objective that is a recipe.
ObjectiveRecipe(q) ==
    /\ q \in RecipeQuest /\ Room(1) /\ Begins(q) /\ ~progress.ready
    /\ \E s \in {Evident(progress, {q}), progress, Locked(progress)} :
        Send(s, FALSE, <<>>)
    /\ UNCHANGED <<epoch, joined, acked, awaiting, paused, rewards, up>>
    /\ HostOnly

\* Saved: the snapshot goes out before the game's own save of the character.
Saved ==
    /\ Live /\ Room(2)
    /\ Send(progress, TRUE,
            <<[kind |-> "save", rewards |-> rewards, rev |-> revision']>>)
    /\ UNCHANGED <<epoch, joined, acked, awaiting, paused, rewards, up>>
    /\ HostOnly

\* The session and the character in the game are gone, with all they held.
Erase ==
    /\ epoch' = 0
    /\ progress' = Fresh /\ published' = Fresh /\ revision' = 0
    /\ acked' = None /\ awaiting' = TRUE /\ paused' = FALSE /\ rewards' = {}

\* Removed, Destroyed: the player leaves; what was sent still arrives.
Removed ==
    /\ Live /\ Erase
    /\ UNCHANGED <<joined, down, up>>
    /\ HostOnly

\* The host or the connection is lost, with the packets it had not delivered.
HostLost ==
    /\ Live /\ faults < MaxFaults
    /\ Erase /\ faults' = faults + 1
    /\ \E n \in 0..Len(down) : down' = SubSeq(down, 1, n)
    /\ UNCHANGED <<joined, up, clientVars, workerVars, fileVars>>

Arrived(kind) ==
    /\ Live /\ up # <<>> /\ Head(up).kind = kind /\ Head(up).session = epoch
    /\ up' = Tail(up)

\* A session takes one journal.
Expected == awaiting

\* Command 7: the journal of the player's computer becomes the session's.
OnTransfer ==
    /\ Arrived("transfer")
    /\ IF ~Expected
       THEN UNCHANGED <<progress, published, revision, acked, awaiting, down>>
       ELSE LET loaded == Head(up).content
                s      == Advance(loaded.state)
                rev    == Revise(s, loaded.state, loaded.rev)
            IN /\ acked' = loaded.state /\ awaiting' = FALSE
               /\ progress' = s /\ published' = s /\ revision' = rev
               /\ Emit(<<Packet(s, rev, FALSE, FALSE)>>)
    /\ UNCHANGED <<epoch, joined, paused, rewards>>
    /\ HostOnly

\* Mutant: an acknowledgement of an older revision counts for the current one.
AckAnyRevision == ~awaiting

\* Command 8 counts for the revision published last only.
AckMatches == ~awaiting /\ Head(up).rev = revision

OnAck ==
    /\ Arrived("ack")
    /\ IF AckMatches THEN acked' = published /\ paused' = FALSE
                     ELSE UNCHANGED <<acked, paused>>
    /\ UNCHANGED <<epoch, joined, progress, published, revision, awaiting, rewards,
                   down>>
    /\ HostOnly

\* Command 9: taken when nothing was reported to the player since the packet it
\* answers (sequence), which the model leaves open.
OnFailed ==
    /\ Arrived("failed")
    /\ paused' \in {paused, TRUE}
    /\ UNCHANGED <<epoch, joined, progress, published, revision, acked, awaiting,
                   rewards, down>>
    /\ HostOnly

\* Command 2: a new journal is started.
OnStart ==
    /\ Arrived("start")
    /\ IF Durable /\ ~progress.uncertain
       THEN Send(IF progress.closed THEN progress
                 ELSE Advance([progress EXCEPT !.closed = TRUE]), FALSE, <<>>)
       ELSE UNCHANGED <<progress, published, revision, down>>
    /\ UNCHANGED <<epoch, joined, acked, awaiting, paused, rewards>>
    /\ HostOnly

\* The active quest of a started journal, its objective met, claimed from the page.
Claimable(q) ==
    /\ progress.closed /\ progress.ready
    /\ q = progress.completed + 1 /\ q \in Bonus

\* Command 5: the reward of a bonus quest, granted in the handler.
OnReward ==
    /\ Arrived("reward")
    /\ IF Durable /\ ~progress.uncertain
       THEN LET q == Head(up).quest IN
            \/ /\ Claimable(q)
               /\ rewards' = rewards \cup {q}
               /\ Send(Advance(Claimed(progress)), FALSE, <<>>)
            \/ UNCHANGED rewards /\ Send(progress, FALSE, <<>>)
       ELSE UNCHANGED <<progress, published, revision, down, rewards>>
    /\ UNCHANGED <<epoch, joined, acked, awaiting, paused>>
    /\ HostOnly

\* Command: a command of another session is dropped.
OnStale ==
    /\ up # <<>> /\ (~Live \/ Head(up).session # epoch)
    /\ up' = Tail(up)
    /\ UNCHANGED <<hostVars, down>>
    /\ HostOnly

\* Safe: so is every command of a player who is dead.
OnUnsafe ==
    /\ Live /\ up # <<>> /\ Head(up).session = epoch
    /\ up' = Tail(up)
    /\ UNCHANGED <<hostVars, down>>
    /\ HostOnly

----------------------------------------------------------------------------
(***************************************************************************)
(* The client: Receive, one packet at a time on the game's thread.         *)
(***************************************************************************)
ClientStep == UNCHANGED <<hostVars, fileVars, faults>>

\* Receive answers only while the local player exists.
Reply(command) == up' = IF player THEN Append(up, command) ELSE up

TransferOf(p, v) == [kind |-> "transfer", session |-> p.session, content |-> v]
AckOf(p)         == [kind |-> "ack", session |-> bound, rev |-> p.rev]
FailedOf(ses)    == [kind |-> "failed", session |-> ses]

\* Mutant: a store that is dropped writes nothing more.
NothingLeft == FALSE

\* ~ProgressStore: accepted counters that are not on disk are left to the worker.
Behind == store # None /\ disk.rev < store.rev
Detach ==
    /\ busy' = (busy \/ Behind)
    /\ next' = IF Behind THEN store ELSE next

\* Mutant: the file is opened while another store or worker still writes it.
OpenAnyway == TRUE

\* Store::Open takes the lease of the file, which an older store keeps until its
\* worker is done.
LeaseFree == ~(busy \/ Behind)

\* A snapshot of a session that has not got the journal yet.
ReceiveAwaiting ==
    /\ call = None /\ down # <<>> /\ Head(down).kind = "snapshot" /\ Head(down).awaiting
    /\ LET p == Head(down) IN
       \/ /\ ~player
          /\ UNCHANGED <<up, store, bound, workerVars>>
       \/ /\ player /\ bound = p.session /\ store # None
          /\ Reply(TransferOf(p, store))
          /\ UNCHANGED <<store, bound, workerVars>>
       \/ /\ player /\ (bound # p.session \/ store = None)
          /\ IF LeaseFree
             THEN /\ store' = disk /\ bound' = p.session
                  /\ trouble' = FALSE /\ recent' = TRUE
                  /\ Reply(TransferOf(p, disk))
                  /\ UNCHANGED <<busy, next, running>>
             ELSE /\ Detach
                  /\ store' = None
                  /\ Reply(FailedOf(p.session))
                  /\ UNCHANGED <<bound, running, trouble, recent>>
    /\ down' = Tail(down)
    /\ UNCHANGED <<player, call>> /\ ClientStep

\* Mutant: a snapshot that is sent again is not looked at.
TakenNewer(p) == bound = p.session /\ store # None /\ store.rev < p.rev

\* A packet the client takes for its bound session; anything else is dropped.
Taken(p) == bound = p.session /\ store # None /\ store.rev <= p.rev

ReceiveDropped ==
    /\ call = None /\ down # <<>> /\ Head(down).kind = "snapshot"
    /\ ~Head(down).awaiting /\ ~Taken(Head(down))
    /\ down' = Tail(down)
    /\ UNCHANGED <<up, clientVars, workerVars>> /\ ClientStep

\* Mutant: the packet with the game's save may leave counters in memory.
NeverForced(p, value) == ~CountersOnly(disk.state, value.state)

\* Update waits for the disk unless only counters differ from what is there.
Waits(p, value) ==
    p.flush \/ ~player \/ ~CountersOnly(disk.state, value.state)

Older(value) ==
    \/ value.state.completed < store.state.completed
    \/ value.rev = store.rev /\ value.state # store.state

\* Start: an idle worker is launched, which may fail.
Start(value) ==
    \/ busy' = TRUE /\ next' = value /\ UNCHANGED <<trouble, faults>>
    \/ /\ ~busy /\ DiskFails /\ faults < MaxFaults
       /\ faults' = faults + 1 /\ trouble' = TRUE /\ UNCHANGED <<busy, next>>

\* ProgressStore::Update.
ReceiveUpdate ==
    /\ call = None /\ down # <<>> /\ Head(down).kind = "snapshot"
    /\ ~Head(down).awaiting /\ Taken(Head(down))
    /\ LET p == Head(down)
           value == [rev |-> p.rev, state |-> p.state]
           wait == Waits(p, value)
       IN
       \/ /\ Older(value) /\ Reply(FailedOf(bound))
          /\ UNCHANGED <<store, call, workerVars, faults>>
       \/ /\ ~Older(value) /\ disk = value /\ Reply(AckOf(p))
          /\ UNCHANGED <<store, call, workerVars, faults>>
       \/ /\ ~Older(value) /\ disk # value /\ ~wait /\ recent
          /\ store' = value
          /\ next' = IF next # None THEN value ELSE None
          /\ up' = IF trouble /\ player THEN Append(up, FailedOf(bound)) ELSE up
          /\ UNCHANGED <<call, busy, running, trouble, recent, faults>>
       \/ /\ ~Older(value) /\ disk # value /\ (wait \/ ~recent)
          /\ store' = IF wait THEN store ELSE value
          /\ recent' = TRUE
          /\ Start(value)
          /\ call' = [request |-> value, wait |-> wait, live |-> player]
          /\ UNCHANGED <<up, running>>
    /\ down' = Tail(down)
    /\ UNCHANGED <<player, bound, hostVars, fileVars>>

\* Mutant: the end of a write is taken for its success.
Attempted == disk.rev >= call.request.rev \/ ~busy

\* What Update waits for.
Written == disk.rev >= call.request.rev

\* The end of Update: acknowledge what is on disk, report an error, or neither.
Complete ==
    /\ call # None /\ (call.wait => Written \/ ~busy)
    /\ store' = IF Written THEN call.request ELSE store
    /\ up' = IF ~call.live THEN up
             ELSE IF Written THEN Append(up, AckOf(call.request))
             ELSE IF trouble THEN Append(up, FailedOf(bound)) ELSE up
    /\ call' = None
    /\ UNCHANGED <<down, player, bound, workerVars>> /\ ClientStep

\* External: the client's game writes the character it receives from the host.
SaveArrives ==
    /\ call = None /\ down # <<>> /\ Head(down).kind = "save"
    /\ saved' = Head(down).rewards /\ down' = Tail(down)
    /\ UNCHANGED <<hostVars, up, clientVars, workerVars, disk, faults>>

\* Submit: the buttons of the journal page.  The page offers the reward of the
\* quest it last saw ready; any bonus quest stands for every such page.
Submit(command) ==
    /\ player /\ call = None /\ bound # 0 /\ Room(1)
    /\ up' = Append(up, command)
    /\ UNCHANGED <<down, clientVars, workerVars>> /\ ClientStep

SubmitStart     == Submit([kind |-> "start", session |-> bound])
SubmitReward(q) == q \in Bonus /\ Submit([kind |-> "reward", session |-> bound, quest |-> q])

\* The local player is destroyed: save and exit, or the connection is gone.
UnitGone ==
    /\ player /\ call = None /\ player' = FALSE
    /\ UNCHANGED <<down, up, store, bound, call, workerVars>> /\ ClientStep

\* CurrentView: the binding of a game that ended is kept for six seconds.
Expire ==
    /\ ~player /\ call = None /\ bound # 0
    /\ Prompt => down = <<>> /\ ~Live
    /\ Detach
    /\ store' = None /\ bound' = 0
    /\ UNCHANGED <<down, up, player, call, running, trouble, recent>> /\ ClientStep

\* The client's process dies; the system releases the lease.
ClientLost ==
    /\ faults < MaxFaults /\ faults' = faults + 1
    /\ player \/ store # None \/ busy
    /\ Erase /\ down' = <<>> /\ up' = <<>>
    /\ player' = FALSE /\ store' = None /\ bound' = 0 /\ call' = None
    /\ busy' = FALSE /\ next' = None /\ running' = None
    /\ trouble' = FALSE /\ recent' = FALSE
    /\ UNCHANGED <<joined, fileVars>>

----------------------------------------------------------------------------
(***************************************************************************)
(* The worker: Run, one request after another, newest first.               *)
(***************************************************************************)
WorkerStep == UNCHANGED <<hostVars, down, up, clientVars, recent, saved>>

Take ==
    /\ busy /\ running = None /\ next # None
    /\ running' = next /\ next' = None
    /\ UNCHANGED <<busy, trouble, disk, faults>> /\ WorkerStep

Stop ==
    /\ busy /\ running = None /\ next = None
    /\ busy' = FALSE
    /\ UNCHANGED <<next, running, trouble, disk, faults>> /\ WorkerStep

\* Store::Commit: neither an older revision nor fewer completed quests.
Committable(value) ==
    /\ value.rev > disk.rev /\ value.state.completed >= disk.state.completed

\* Store::Commit of the request, and its result under the lock.
Write ==
    /\ running # None
    /\ disk' = IF Committable(running) THEN running ELSE disk
    /\ trouble' = ~(Committable(running) \/ running = disk)
    /\ running' = None
    /\ UNCHANGED <<busy, next, faults>> /\ WorkerStep

\* The backup, the write or the thread fails; the file stays as it was.
WriteFails ==
    /\ running # None /\ DiskFails /\ faults < MaxFaults
    /\ faults' = faults + 1 /\ trouble' = TRUE /\ running' = None
    /\ UNCHANGED <<busy, next, disk>> /\ WorkerStep

\* Ten seconds without a counter write.
Elapse ==
    /\ recent /\ recent' = FALSE
    /\ UNCHANGED <<hostVars, down, up, clientVars, busy, next, running, trouble,
                   fileVars, faults>>

----------------------------------------------------------------------------
Handle  == OnTransfer \/ OnAck \/ OnFailed \/ OnStart \/ OnReward \/ OnStale
Receive == ReceiveAwaiting \/ ReceiveDropped \/ ReceiveUpdate
Worker  == Take \/ Stop \/ Write

\* What the client's packet hook does next.
ClientHook == Receive \/ Complete \/ SaveArrives

\* What is left to do of a game that is over on one side.
Leave ==
    \/ ~Live /\ UnitGone
    \/ ~player /\ Removed
    \/ Expire

Next ==
    \/ Join \/ Kill \/ Saved \/ Removed \/ HostLost
    \/ \E got \in SUBSET Quests : Observe(got)
    \/ \E q \in Quests : TurnIn(q) \/ ObjectiveRecipe(q) \/ SubmitReward(q)
    \/ Handle \/ OnUnsafe \/ ClientHook
    \/ SubmitStart \/ UnitGone \/ Expire \/ ClientLost
    \/ Worker \/ WriteFails \/ Elapse

Spec == Init /\ [][Next]_vars

\* The host's tick and command hooks, the client's packet hook and frame, the
\* worker thread and the clock go on; a client whose game is gone leaves it, and
\* the host removes a player whose client has left.  Strong fairness for the tick,
\* which runs every 750 ms whatever the traffic (the bound on packets alone
\* disables it), and for the two commands that the journal needs: a dead player's
\* are dropped, and sent again until the player lives.
Fairness ==
    /\ SF_vars(Observe({})) /\ SF_vars(OnTransfer) /\ SF_vars(OnAck)
    /\ WF_vars(Handle) /\ WF_vars(ClientHook) /\ WF_vars(Leave)
    /\ WF_vars(Worker) /\ WF_vars(Elapse)

FairSpec == Spec /\ Fairness
=============================================================================
