--------------------------- MODULE QuestJournalInvariant ---------------------------
(***************************************************************************)
(* The inductive invariant of the quest journal.  Every copy of the        *)
(* journal is an earlier or a later version of one history; Journaled says *)
(* which copy is behind which, for every configuration.  Claims adds the   *)
(* rewards and the game's saves, when writes do not fail and packets       *)
(* arrive while the client is bound.                                       *)
(***************************************************************************)
EXTENDS QuestJournalProperties

(* A state never loses what it has; a quest that is ready stays so until it *)
(* is completed.                                                           *)
Grows(s, t) ==
    /\ s.completed <= t.completed /\ s.kills <= t.kills
    /\ s.evidence \subseteq t.evidence
    /\ s.closed => t.closed
    /\ s.uncertain => t.uncertain
    /\ s.completed = t.completed /\ s.ready => t.ready

(* A later version has a higher revision, or is the same.                  *)
Follows(v, w) ==
    /\ v.rev <= w.rev /\ Grows(v.state, w.state)
    /\ v.rev = w.rev => v.state = w.state

Current    == [rev |-> revision, state |-> published]
Content(p) == [rev |-> p.rev, state |-> p.state]

(* The client is bound to the last session.                                *)
Attached    == bound = joined /\ joined # 0
IsUpdate(p) == p.kind = "snapshot" /\ ~p.awaiting
Updates     == {i \in DOMAIN down : IsUpdate(down[i])}
Transfers   == {i \in DOMAIN up : up[i].kind = "transfer"}

(* The worker has what the client accepted, oldest first.                  *)
Queued ==
    /\ ~busy => next = None /\ running = None
    /\ running # None => Follows(disk, running)
    /\ next # None => Follows(disk, next)
    /\ running # None /\ next # None => Follows(running, next)

(* What the client accepted: while an update waits for the disk, its       *)
(* request is newer than the store.                                        *)
Held(v) ==
    IF call = None THEN store # None => Follows(v, store)
    ELSE Follows(v, store) \/ v = call.request
Accepted ==
    /\ Held(disk)
    /\ running # None => Held(running)
    /\ next # None => Held(next)
    /\ call # None => /\ Attached /\ Follows(store, call.request)
                      /\ ~call.wait => store = call.request
    /\ Attached => store # None
    /\ call # None => store # None

(* Packets are of the last session, in order, and not older than what the  *)
(* client has.                                                             *)
Newest == IF call = None THEN store ELSE call.request
Packets ==
    /\ \A i \in DOMAIN down : down[i].kind = "snapshot" => down[i].session = joined
    /\ \A i, j \in Updates : i < j => Follows(Content(down[i]), Content(down[j]))
    /\ Attached => \A i \in Updates : Follows(Newest, Content(down[i]))
    /\ \A i \in DOMAIN up : up[i].kind = "ack" => up[i].rev <= disk.rev

(* A client that has not opened the store of this session has neither      *)
(* sent a journal nor been sent an update.                                 *)
Unopened ==
    player /\ ~Attached
        => Updates = {} /\ Transfers = {} /\ (Live => awaiting)

(* Until the journal arrives nothing but the file has changed hands.       *)
Waiting ==
    /\ revision = 0 /\ Updates = {}
    /\ Attached \/ Transfers # {} => ~busy /\ call = None /\ store \in {None, disk}
    /\ \A i \in Transfers : up[i].content = disk

(* From then on the host is ahead of every copy; what was acknowledged is  *)
(* on disk.                                                                *)
Leading ==
    /\ Follows(disk, Current)
    /\ \A v \in {running, next, Newest} \ {None} : Follows(v, Current)
    /\ \A i \in Updates : Follows(Content(down[i]), Current)
    /\ Boundary(progress) = Boundary(published) /\ Grows(published, progress)
    /\ acked # None => Grows(acked, disk.state)

Journaled ==
    /\ TypeOK
    /\ Queued /\ Accepted /\ Packets /\ Unopened
    /\ bound <= joined
    /\ Live => epoch = joined /\ joined # 0
    /\ Live /\ awaiting => Waiting
    /\ Live /\ ~awaiting => Leading

(* Rewards that a state accounts for.                                      *)
Accounted(s) == IF s.uncertain THEN Quests ELSE 1..s.completed

(* A save of the game is backed by the file, by the packet before it, or   *)
(* by the update that waits for the disk.                                  *)
Carries(v, save) == v.rev = save.rev /\ save.rewards \subseteq Accounted(v.state)
OnDisk(save)     == save.rev <= disk.rev /\ save.rewards \subseteq Recorded
Backed(i) ==
    \/ OnDisk(down[i])
    \/ /\ i > 1 /\ IsUpdate(down[i - 1]) /\ down[i - 1].flush
       /\ Carries(Content(down[i - 1]), down[i])
    \/ i = 1 /\ call # None /\ call.wait /\ Carries(call.request, down[i])

(* What the character has, in the game and in its file, is accounted for.   *)
Granted ==
    /\ saved \subseteq Recorded
    /\ Live /\ awaiting => rewards \subseteq Recorded
    /\ Live /\ ~awaiting => rewards \subseteq Accounted(progress)
    /\ OneRewardAhead

(* No packet arrives at a client that has left its binding.                 *)
Reached ==
    /\ Live /\ (~awaiting \/ Transfers # {}) => Attached
    /\ Updates # {} => Attached

(* The worker does not lose the request an update waits for.                *)
Served == call # None /\ call.wait => call.request \in {running, next, disk}

SavesBacked == \A i \in DOMAIN down : down[i].kind = "save" => Backed(i)

Claims == Journaled /\ Granted /\ Reached /\ Served /\ SavesBacked

(* The conditions of Claims: writes succeed, and the last packets of a game *)
(* arrive within the six seconds that the client stays bound.               *)
Reliable == ~DiskFails /\ Prompt
===============================================================================
