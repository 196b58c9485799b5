------------------------- MODULE QuestJournalProperties -------------------------
(***************************************************************************)
(* What the quest journal promises, of module QuestJournal.                *)
(***************************************************************************)
EXTENDS QuestJournal

\* Rewards the journal file accounts for: claimed, or locked with everything
\* else because a transaction ended halfway.
Recorded == IF disk.state.uncertain THEN Quests ELSE 1..disk.state.completed

\* While the host takes the claim boundary for durable, the file of the player's
\* computer has it: neither a late acknowledgement, nor the worker, nor a lost
\* session may let the gate (Durable, QuestJournal.cpp) run ahead of the disk.
DurableIsOnDisk == Live /\ Durable => Boundary(disk.state) = Boundary(progress)

\* At most one reward in the game is not on disk as claimed: the write is
\* acknowledged before another reward can advance (README, quest journal).
OneRewardAhead == Live => Cardinality(rewards \ Recorded) <= 1

\* No reward the host would grant has been received by this character before, in
\* this game or in one whose save was written (Begin, Command 5).
RewardOnce ==
    \A q \in Rewarding :
        Begins(q) /\ progress.ready => q \notin rewards

\* When the client comes to the game's save of the character, the journal that
\* was sent before it is on disk, counters included (Saved, Receive).
SaveBarrier ==
    down # <<>> /\ Head(down).kind = "save" /\ call = None
        => disk.rev >= Head(down).rev /\ Head(down).rewards \subseteq Recorded

\* The file never loses a claim, a counter or a revision, whichever session or
\* thread writes it (Store::Commit, the lease of Store::Open).
NoRollback ==
    [][/\ disk'.rev >= disk.rev
       /\ disk'.state.completed >= disk.state.completed
       /\ disk'.state.kills >= disk.state.kills
       /\ disk.state.evidence \subseteq disk'.state.evidence]_disk

\* A session of a player who stays gets a durable journal again, after each lost
\* packet, failed write and occupied lease (Tick, Receive).
RewardsReturn == Live /\ player ~> Durable \/ ~Live \/ ~player

\* A counter the client accepted reaches the file, unless something failed
\* (Update, ~ProgressStore).
AcceptedReachesDisk ==
    \A k \in 1..MaxKills :
        (store # None /\ store.state.kills >= k)
            ~> (disk.state.kills >= k \/ faults > 0)
=============================================================================
