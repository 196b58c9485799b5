-------------------------- MODULE QuestJournalProofs --------------------------
(***************************************************************************)
(* Every copy of the quest journal is a version of one history, for every  *)
(* mod, every number of games and packets and whatever is lost.  The first *)
(* part is about versions and queues, the second has a lemma for each way  *)
(* a step changes the copies, the third the steps of host, client and      *)
(* worker, the fourth the rewards.                                         *)
(***************************************************************************)
EXTENDS QuestJournalInvariant, Integers, SequenceTheorems, FiniteSetTheorems,
        WellFoundedInduction, TLAPS

USE JournalAssumption

----------------------------------------------------------------------------
(* Versions. *)
LEMMA StateFields ==
    ASSUME NEW s \in State
    PROVE  /\ s.completed \in 0..N /\ s.completed \in Nat
           /\ s.kills \in 0..MaxKills /\ s.kills \in Nat
           /\ s.ready \in BOOLEAN /\ s.closed \in BOOLEAN /\ s.uncertain \in BOOLEAN
           /\ s.evidence \subseteq Quests
BY DEF State

LEMMA FreshState == Fresh \in State
BY DEF Fresh, State

LEMMA SameGrows ==
    ASSUME NEW s \in State
    PROVE  Grows(s, s)
BY StateFields DEF Grows

LEMMA GrowsOn ==
    ASSUME NEW s \in State, NEW t \in State, NEW u \in State, Grows(s, t), Grows(t, u)
    PROVE  Grows(s, u)
BY StateFields DEF Grows

LEMMA Same ==
    ASSUME NEW v \in Version
    PROVE  Follows(v, v)
BY SameGrows DEF Follows, Version

LEMMA FollowsOn ==
    ASSUME NEW v \in Version, NEW w \in Version, NEW x \in Version,
           Follows(v, w), Follows(w, x)
    PROVE  Follows(v, x)
<1>1. v.state \in State /\ w.state \in State /\ x.state \in State
      /\ v.rev \in Nat /\ w.rev \in Nat /\ x.rev \in Nat
  BY DEF Version
<1>2. Grows(v.state, x.state)
  BY <1>1, GrowsOn DEF Follows
<1>3. v.rev = x.rev => v.rev = w.rev /\ w.rev = x.rev
  BY <1>1 DEF Follows
<1> QED
  BY <1>1, <1>2, <1>3 DEF Follows

\* Of two versions with the same revision one is the other.
LEMMA SameVersion ==
    ASSUME NEW v \in Version, NEW w \in Version, Follows(v, w), w.rev <= v.rev
    PROVE  v = w
<1>1. v.rev = w.rev
  BY DEF Follows, Version
<1> QED
  BY <1>1 DEF Follows, Version

\* A set of naturals up to a bound has a greatest one.
LEMMA Greatest ==
    ASSUME NEW n \in Nat, NEW T, T # {}, T \subseteq 0..n
    PROVE  \E k \in T : \A j \in T : j <= k
<1> DEFINE Lt == {ss \in Nat \X Nat : ss[1] < ss[2]}
           Short == {n - j : j \in T}
<1>1. \A i, j \in Nat : i < j => <<i, j>> \in Lt
  OBVIOUS
<1>2. IsWellFoundedOn(Lt, Nat)
  BY NatLessThanWellFounded DEF OpToRel
<1>3. Short \subseteq Nat /\ Short # {}
  <2>1. PICK j \in T : TRUE
    OBVIOUS
  <2>2. \A i \in T : n - i \in Nat
    OBVIOUS
  <2>3. n - j \in Short
    BY <2>1
  <2> QED
    BY <2>2, <2>3
<1>4. \A j \in T : n - j \in Short
  OBVIOUS
<1>5. \A m \in Short : \E j \in T : m = n - j
  OBVIOUS
<1> HIDE DEF Short, Lt
<1>6. PICK m \in Short : \A i \in Short : <<i, m>> \notin Lt
  BY <1>2, <1>3, WFMin
<1>7. PICK k \in T : m = n - k
  BY <1>5, <1>6
<1>8. \A j \in T : ~(n - j < n - k)
  BY <1>1, <1>3, <1>4, <1>6, <1>7
<1> QED
  BY <1>7, <1>8

LEMMA AdvanceGrows ==
    ASSUME NEW s \in State
    PROVE  /\ Advance(s) \in State /\ Grows(s, Advance(s))
           /\ Advance(s).uncertain = s.uncertain
<1>1. CASE ~s.closed \/ s.uncertain
  BY <1>1, SameGrows DEF Advance
<1>2. CASE ~(~s.closed \/ s.uncertain)
  <2>1. s.completed \in AutoDone(s)
    BY StateFields DEF AutoDone
  <2>2. AutoDone(s) \subseteq 0..N
    BY StateFields DEF AutoDone
  <2>3. \E k \in AutoDone(s) : \A j \in AutoDone(s) : j <= k
    BY <2>1, <2>2, Greatest
  <2>4. PICK k \in AutoDone(s) :
          /\ \A j \in AutoDone(s) : j <= k
          /\ Advance(s) = [s EXCEPT !.completed = k,
                                    !.ready = \/ k + 1 \in s.evidence \cap Quests
                                              \/ k = s.completed /\ s.ready]
    BY <1>2, <2>3 DEF Advance
  <2>5. k \in 0..N /\ s.completed <= k
    BY <2>1, <2>2, <2>4
  <2>6. PICK r \in BOOLEAN : Advance(s) = [s EXCEPT !.completed = k, !.ready = r]
                             /\ (k = s.completed /\ s.ready => r)
    BY <2>4
  <2>7. Advance(s) \in State
    BY <2>5, <2>6, StateFields DEF State
  <2>8. Advance(s).completed = k /\ Advance(s).kills = s.kills
        /\ Advance(s).evidence = s.evidence
    BY <2>6 DEF State
  <2>9. Advance(s).ready = r /\ Advance(s).closed = s.closed
        /\ Advance(s).uncertain = s.uncertain
    BY <2>6 DEF State
  <2>10. Grows(s, Advance(s))
    BY <2>5, <2>6, <2>7, <2>8, <2>9, StateFields DEF Grows
  <2> QED
    BY <2>7, <2>9, <2>10
<1> QED
  BY <1>1, <1>2

LEMMA ClaimedGrows ==
    ASSUME NEW s \in State, s.completed + 1 \in Quests
    PROVE  /\ Claimed(s) \in State /\ Grows(s, Claimed(s))
           /\ Claimed(s).uncertain = s.uncertain
           /\ Claimed(s).completed = s.completed + 1
<1> s.completed + 1 \in 0..N
  BY StateFields DEF Quests
<1>1. Claimed(s) \in State
  BY DEF Claimed, State
<1>2. Claimed(s).completed = s.completed + 1 /\ Claimed(s).kills = s.kills
      /\ Claimed(s).evidence = s.evidence
  BY DEF Claimed, State
<1>3. Claimed(s).closed /\ Claimed(s).uncertain = s.uncertain
  BY DEF Claimed, State
<1>4. Grows(s, Claimed(s))
  BY <1>1, <1>2, <1>3, StateFields DEF Grows
<1> QED
  BY <1>1, <1>2, <1>3, <1>4

LEMMA LockedGrows ==
    ASSUME NEW s \in State
    PROVE  Locked(s) \in State /\ Grows(s, Locked(s)) /\ Locked(s).uncertain
<1>1. Locked(s) \in State
  BY DEF Locked, State
<1>2. Locked(s).completed = s.completed /\ Locked(s).kills = s.kills
      /\ Locked(s).evidence = s.evidence
  BY DEF Locked, State
<1>3. Locked(s).closed /\ Locked(s).uncertain
  BY DEF Locked, State
<1>4. Locked(s).ready = s.ready
  BY DEF Locked, State
<1>5. Grows(s, Locked(s))
  BY <1>1, <1>2, <1>3, <1>4, StateFields DEF Grows
<1> QED
  BY <1>1, <1>3, <1>5

LEMMA EvidentGrows ==
    ASSUME NEW s \in State, NEW got \in SUBSET Quests
    PROVE  Evident(s, got) \in State /\ Grows(s, Evident(s, got))
           /\ Evident(s, got).uncertain = s.uncertain
<1> DEFINE t == [s EXCEPT !.evidence = @ \cup got]
<1>1. t \in State /\ Grows(s, t) /\ t.uncertain = s.uncertain
  BY StateFields DEF State, Grows
<1>2. Advance(t) \in State /\ Grows(t, Advance(t)) /\ Advance(t).uncertain = t.uncertain
  BY <1>1, AdvanceGrows
<1> QED
  BY <1>1, <1>2, GrowsOn DEF Evident

LEMMA EvidentCloses ==
    ASSUME NEW s \in State, NEW got \in SUBSET Quests
    PROVE  Evident(s, got).closed = s.closed
<1> DEFINE t == [s EXCEPT !.evidence = @ \cup got]
<1>1. t \in State /\ t.closed = s.closed
  BY StateFields DEF State
<1> HIDE DEF t
<1>2. Advance(t).closed = t.closed
  BY <1>1 DEF Advance, State
<1> QED
  BY <1>1, <1>2 DEF Evident, t

----------------------------------------------------------------------------
(* Queues. *)
LEMMA QueueHead ==
    ASSUME NEW S, NEW q \in Seq(S), q # <<>>
    PROVE  /\ Len(q) \in Nat /\ DOMAIN q = 1..Len(q) /\ 1 \in DOMAIN q
           /\ Head(q) = q[1] /\ Head(q) \in S
           /\ Tail(q) \in Seq(S) /\ DOMAIN Tail(q) = 1..(Len(q) - 1)
           /\ \A i \in DOMAIN Tail(q) : i + 1 \in DOMAIN q /\ Tail(q)[i] = q[i + 1]
<1>1. Len(q) \in Nat \ {0} /\ DOMAIN q = 1..Len(q)
  BY EmptySeq, LenProperties
<1>2. Head(q) \in S /\ Tail(q) \in Seq(S) /\ Len(Tail(q)) = Len(q) - 1
      /\ \A i \in 1..Len(Tail(q)) : Tail(q)[i] = q[i + 1]
  BY HeadTailProperties
<1>3. DOMAIN Tail(q) = 1..Len(Tail(q))
  BY <1>2, LenProperties
<1>4. Head(q) = q[1]
  OBVIOUS
<1> QED
  BY <1>1, <1>2, <1>3, <1>4

LEMMA QueueEnd ==
    ASSUME NEW S, NEW q \in Seq(S), NEW e \in S
    PROVE  /\ Len(q) \in Nat /\ DOMAIN q = 1..Len(q)
           /\ Append(q, e) \in Seq(S) /\ DOMAIN Append(q, e) = 1..(Len(q) + 1)
           /\ \A i \in DOMAIN q : Append(q, e)[i] = q[i]
           /\ Append(q, e)[Len(q) + 1] = e
OBVIOUS

\* A packet and the saves behind it enter the connection.
LEMMA Emission ==
    ASSUME TypeOK, NEW p \in Snapshot, NEW behind \in Seq(Save), Emit(<<p>> \o behind)
    PROVE  /\ Len(down) \in Nat /\ DOMAIN down = 1..Len(down)
           /\ down' \in Seq(Snapshot \cup Save)
           /\ DOMAIN down' = 1..(Len(down) + 1 + Len(behind)) /\ Len(behind) \in Nat
           /\ \A i \in DOMAIN down : down'[i] = down[i]
           /\ down'[Len(down) + 1] = p
           /\ \A i \in DOMAIN down' : i > Len(down) + 1 => down'[i] = behind[i - Len(down) - 1]
<1> DEFINE P == Snapshot \cup Save
           new == <<p>> \o behind
<1>1. down \in Seq(P)
  BY DEF TypeOK
<1>2. <<p>> \in Seq(P) /\ Len(<<p>>) = 1 /\ <<p>>[1] = p
  OBVIOUS
<1>3. behind \in Seq(P)
  BY SeqMonotonic
<1>4. Len(down) \in Nat /\ DOMAIN down = 1..Len(down) /\ Len(behind) \in Nat
  BY <1>1, LenProperties
<1> HIDE DEF P
<1>5. /\ new \in Seq(P) /\ Len(new) = 1 + Len(behind)
      /\ \A i \in 1..(1 + Len(behind)) : new[i] = IF i <= 1 THEN p ELSE behind[i - 1]
  <2>1. /\ <<p>> \o behind \in Seq(P)
        /\ Len(<<p>> \o behind) = Len(<<p>>) + Len(behind)
        /\ \A i \in 1..(Len(<<p>>) + Len(behind)) :
              (<<p>> \o behind)[i] = IF i <= Len(<<p>>) THEN <<p>>[i] ELSE behind[i - Len(<<p>>)]
    BY <1>2, <1>3, ConcatProperties
  <2>2. \A i \in 1..(1 + Len(behind)) : i <= 1 => i = 1
    BY <1>4
  <2> QED
    BY <1>2, <2>1, <2>2
<1> HIDE DEF new
<1>6. /\ down \o new \in Seq(P) /\ Len(down \o new) = Len(down) + Len(new)
      /\ \A i \in 1..(Len(down) + Len(new)) :
            (down \o new)[i] = IF i <= Len(down) THEN down[i] ELSE new[i - Len(down)]
  <2>1. new \in Seq(P)
    BY <1>5
  <2> QED
    BY <1>1, <2>1, ConcatProperties
<1>7. down' = down \o new
  BY DEF Emit, new
<1>8. DOMAIN down' = 1..(Len(down) + 1 + Len(behind))
  BY <1>4, <1>5, <1>6, <1>7, LenProperties
<1>9. \A i \in DOMAIN down : down'[i] = down[i]
  BY <1>4, <1>5, <1>6, <1>7
<1>10. down'[Len(down) + 1] = p
  BY <1>4, <1>5, <1>6, <1>7
<1>11. ASSUME NEW i \in DOMAIN down', i > Len(down) + 1
       PROVE  down'[i] = behind[i - Len(down) - 1]
  BY <1>4, <1>5, <1>6, <1>7, <1>8, <1>11
<1> QED
  BY <1>4, <1>6, <1>7, <1>8, <1>9, <1>10, <1>11 DEF P

----------------------------------------------------------------------------
(* Steps that move no version. *)
VersionTypes ==
    /\ Current \in Version /\ published \in State /\ progress \in State
    /\ disk \in Version /\ revision \in Nat
    /\ running # None => running \in Version
    /\ next # None => next \in Version
    /\ store # None => store \in Version
    /\ call # None => call \in Calls /\ call.request \in Version
    /\ Newest # None => Newest \in Version
    /\ \A i \in Updates : Content(down[i]) \in Version /\ down[i] \in Snapshot
    /\ acked # None => acked \in State

LEMMA VersionsTyped ==
    ASSUME TypeOK
    PROVE  VersionTypes
<1>1. \A i \in DOMAIN down : down[i] \in Snapshot \cup Save
  BY DEF TypeOK
<1>2. \A i \in Updates : down[i] \in Snapshot
  BY <1>1 DEF Updates, IsUpdate, Save
<1>3. \A i \in Updates : Content(down[i]) \in Version
  BY <1>2 DEF Content, Version, Snapshot
<1>4. call # None => call \in Calls /\ call.request \in Version
  BY DEF TypeOK, Calls
<1>5. Current \in Version /\ published \in State /\ progress \in State
      /\ disk \in Version /\ revision \in Nat
  BY DEF TypeOK, Current, Version
<1>6. /\ running # None => running \in Version
      /\ next # None => next \in Version
      /\ store # None => store \in Version
      /\ acked # None => acked \in State
  BY DEF TypeOK
<1> QED
  BY <1>2, <1>3, <1>4, <1>5, <1>6 DEF VersionTypes, Newest

\* Commands are consumed, in whatever number.
FewerCommands ==
    /\ up' \in Seq(Command)
    /\ \A i \in DOMAIN up' : \E j \in DOMAIN up : up'[i] = up[j]

LEMMA CommandTaken ==
    ASSUME TypeOK, up # <<>>, up' = Tail(up)
    PROVE  FewerCommands /\ Head(up) \in Command
<1>1. up \in Seq(Command)
  BY DEF TypeOK
<1> QED
  BY <1>1, QueueHead DEF FewerCommands

LEMMA CommandsKept ==
    ASSUME TypeOK, up' = up
    PROVE  FewerCommands
BY DEF TypeOK, FewerCommands

\* A packet is dealt with, or none; a command may be sent.
FewerPackets ==
    /\ down' \in Seq(Snapshot \cup Save)
    /\ \A i \in DOMAIN down : i \in Nat
    /\ \/ down' = down
       \/ \A i \in DOMAIN down' : i \in Nat /\ i + 1 \in DOMAIN down /\ down'[i] = down[i + 1]

LEMMA PacketTaken ==
    ASSUME TypeOK, down # <<>>, down' = Tail(down)
    PROVE  /\ FewerPackets /\ Head(down) \in Snapshot \cup Save
           /\ 1 \in DOMAIN down /\ Head(down) = down[1]
<1>1. down \in Seq(Snapshot \cup Save)
  BY DEF TypeOK
<1>2. /\ Len(down) \in Nat /\ DOMAIN down = 1..Len(down) /\ 1 \in DOMAIN down
      /\ Head(down) = down[1] /\ Head(down) \in Snapshot \cup Save
      /\ Tail(down) \in Seq(Snapshot \cup Save) /\ DOMAIN Tail(down) = 1..(Len(down) - 1)
      /\ \A i \in DOMAIN Tail(down) : i + 1 \in DOMAIN down /\ Tail(down)[i] = down[i + 1]
  BY <1>1, QueueHead
<1>3. (\A i \in DOMAIN down : i \in Nat) /\ (\A i \in DOMAIN Tail(down) : i \in Nat)
  BY <1>2
<1>4. FewerPackets
  BY <1>2, <1>3 DEF FewerPackets
<1> QED
  BY <1>2, <1>4

LEMMA PacketsKept ==
    ASSUME TypeOK, down' = down
    PROVE  FewerPackets
BY LenProperties DEF TypeOK, FewerPackets

\* What the client may say of the file.
Honest(c) ==
    /\ c \in Command
    /\ c.kind = "ack" => c.rev <= disk.rev
    /\ c.kind = "transfer" => Attached /\ (Live /\ awaiting => c.content = disk)
Answers == up' = up \/ \E c \in Command : Honest(c) /\ up' = Append(up, c)

LEMMA CommandsSent ==
    ASSUME TypeOK, Answers
    PROVE  /\ up' \in Seq(Command)
           /\ \A i \in DOMAIN up' : (\E j \in DOMAIN up : up'[i] = up[j]) \/ Honest(up'[i])
<1>1. up \in Seq(Command) /\ Len(up) \in Nat /\ DOMAIN up = 1..Len(up)
  BY LenProperties DEF TypeOK
<1>2. up' \in Seq(Command)
  BY <1>1, QueueEnd DEF Answers
<1>3. CASE up' = up
  BY <1>1, <1>3
<1>4. ASSUME NEW c \in Command, Honest(c), up' = Append(up, c)
      PROVE  \A i \in DOMAIN up' : (\E j \in DOMAIN up : up'[i] = up[j]) \/ up'[i] = c
  <2>1. /\ DOMAIN up' = 1..(Len(up) + 1) /\ up'[Len(up) + 1] = c
        /\ \A i \in DOMAIN up : up'[i] = up[i]
    BY <1>1, <1>4, QueueEnd
  <2> QED
    BY <1>1, <2>1
<1> QED
  BY <1>2, <1>3, <1>4 DEF Answers

LEMMA PacketsRead ==
    ASSUME Packets, FewerPackets
    PROVE  /\ \A i \in DOMAIN down' : down'[i].kind = "snapshot" => down'[i].session = joined
           /\ \A i \in Updates' : \E j \in Updates : down'[i] = down[j]
           /\ \A i, j \in Updates' : i < j => Follows(Content(down'[i]), Content(down'[j]))
<1>1. CASE down' = down
  <2>1. Updates' = Updates
    BY <1>1 DEF Updates, IsUpdate
  <2> QED
    BY <1>1, <2>1 DEF Packets
<1>2. CASE \A i \in DOMAIN down' : i \in Nat /\ i + 1 \in DOMAIN down /\ down'[i] = down[i + 1]
  <2>1. \A i \in Updates' : i \in Nat /\ i + 1 \in Updates /\ down'[i] = down[i + 1]
    BY <1>2 DEF Updates, IsUpdate
  <2> QED
    BY <1>2, <2>1 DEF Packets
<1> QED
  BY <1>1, <1>2 DEF FewerPackets

\* The host takes a command, counts a kill, or has an acknowledgement.
LEMMA HostNotes ==
    ASSUME Journaled, FewerCommands,
           progress' \in State, Grows(progress, progress'),
           Boundary(progress') = Boundary(progress),
           acked' # acked => acked' = published /\ ~awaiting /\ Grows(published, disk.state),
           paused' \in BOOLEAN, rewards' \subseteq Quests,
           UNCHANGED <<epoch, joined, published, revision, awaiting, down, clientVars,
                       workerVars, fileVars, faults>>
    PROVE  Journaled'
<1> USE DEF clientVars, workerVars, fileVars
<1>1. TypeOK /\ VersionTypes
  BY VersionsTyped DEF Journaled
<1>2. TypeOK'
  BY <1>1 DEF TypeOK, FewerCommands
<1>3. Queued' /\ Accepted'
  BY DEF Journaled, Queued, Accepted, Held, Attached
<1>4. Updates' = Updates /\ (Attached' <=> Attached) /\ Newest' = Newest
      /\ (Live' <=> Live) /\ Current' = Current
  BY DEF Updates, Attached, Newest, Live, Current
<1>5. Transfers' # {} => Transfers # {}
  BY DEF FewerCommands, Transfers
<1>6. Packets'
  BY <1>4 DEF Journaled, Packets, FewerCommands
<1>7. Unopened'
  BY <1>4, <1>5 DEF Journaled, Unopened
<1>8. ASSUME (Live /\ awaiting)' PROVE Waiting'
  <2>1. Waiting
    BY <1>4, <1>8 DEF Journaled
  <2>2. \A i \in Transfers' : \E j \in Transfers : up'[i] = up[j]
    BY DEF FewerCommands, Transfers
  <2> QED
    BY <1>4, <1>5, <2>1, <2>2 DEF Waiting
<1>9. ASSUME (Live /\ ~awaiting)' PROVE Leading'
  <2>1. Leading
    BY <1>4, <1>9 DEF Journaled
  <2>2. Grows(published, progress')
    BY <1>1, <2>1, GrowsOn DEF Leading, VersionTypes
  <2>3. acked' # None => Grows(acked', disk.state)
    BY <2>1 DEF Leading
  <2> QED
    BY <1>4, <2>1, <2>2, <2>3 DEF Leading
<1> QED
  BY <1>2, <1>3, <1>4, <1>6, <1>7, <1>8, <1>9 DEF Journaled

\* The client takes a packet, or none, and may answer; the local player may go.
LEMMA ClientReads ==
    ASSUME Journaled, FewerPackets, Answers,
           player' \in BOOLEAN, player' => player, saved' \subseteq Quests,
           UNCHANGED <<hostVars, store, bound, call, workerVars, disk, faults>>
    PROVE  Journaled'
<1> USE DEF hostVars, workerVars
<1>1. TypeOK /\ VersionTypes
  BY VersionsTyped DEF Journaled
<1>3. up' \in Seq(Command)
  BY <1>1, CommandsSent
<1>4. \A i \in DOMAIN up' : (\E j \in DOMAIN up : up'[i] = up[j]) \/ Honest(up'[i])
  BY <1>1, CommandsSent
<1>5. TypeOK'
  BY <1>1, <1>3 DEF TypeOK, FewerPackets
<1>6. Queued' /\ Accepted'
  BY DEF Journaled, Queued, Accepted, Held, Attached
<1>7. (Attached' <=> Attached) /\ Newest' = Newest /\ (Live' <=> Live) /\ Current' = Current
  BY DEF Attached, Newest, Live, Current
<1>8. /\ \A i \in DOMAIN down' : down'[i].kind = "snapshot" => down'[i].session = joined
      /\ \A i \in Updates' : \E j \in Updates : down'[i] = down[j]
      /\ \A i, j \in Updates' : i < j => Follows(Content(down'[i]), Content(down'[j]))
  BY PacketsRead DEF Journaled
<1>9. Packets'
  <2>3. Attached' => \A i \in Updates' : Follows(Newest', Content(down'[i]))
    BY <1>7, <1>8 DEF Journaled, Packets
  <2>4. \A i \in DOMAIN up' : up'[i].kind = "ack" => up'[i].rev <= disk'.rev
    BY <1>4 DEF Journaled, Packets, Honest
  <2> QED
    BY <1>8, <2>3, <2>4 DEF Packets
<1>10. \A i \in Transfers' : \/ \E j \in Transfers : up'[i] = up[j]
                             \/ Attached /\ (Live /\ awaiting => up'[i].content = disk)
  BY <1>4 DEF Transfers, Honest
<1>11. Updates = {} => Updates' = {}
  BY <1>8
<1>12. Unopened'
  BY <1>7, <1>10, <1>11 DEF Journaled, Unopened
<1>13. ASSUME (Live /\ awaiting)' PROVE Waiting'
  <2>1. Waiting
    BY <1>7, <1>13 DEF Journaled
  <2> QED
    BY <1>7, <1>10, <1>11, <1>13, <2>1 DEF Waiting
<1>14. ASSUME (Live /\ ~awaiting)' PROVE Leading'
  <2>1. Leading
    BY <1>7, <1>14 DEF Journaled
  <2>2. \A i \in Updates' : Follows(Content(down'[i]), Current)
    BY <1>8, <2>1 DEF Leading
  <2> QED
    BY <1>7, <2>1, <2>2 DEF Leading
<1> QED
  BY <1>5, <1>6, <1>7, <1>9, <1>12, <1>13, <1>14 DEF Journaled

\* The host publishes what it has become.
LEMMA HostPublishes ==
    ASSUME Journaled, Live, ~awaiting, FewerCommands,
           NEW s \in State, Grows(progress, s), NEW flush \in BOOLEAN,
           NEW behind \in Seq(Save), Send(s, flush, behind),
           rewards' \subseteq Quests,
           UNCHANGED <<epoch, joined, acked, awaiting, paused, clientVars, workerVars,
                       fileVars, faults>>
    PROVE  Journaled'
<1> USE DEF clientVars, workerVars, fileVars
<1>1. TypeOK /\ VersionTypes /\ Leading
  BY VersionsTyped DEF Journaled
<1> DEFINE r == Revise(s, published, revision)
           p == Packet(s, r, FALSE, flush)
<1>2. progress' = s /\ revision' = r /\ published' = s /\ Emit(<<p>> \o behind)
  <2>1. awaiting = FALSE
    BY <1>1 DEF TypeOK
  <2> QED
    BY <2>1 DEF Send
<1>3. r \in Nat /\ revision <= r /\ (r = revision => s = published)
  BY <1>1 DEF Revise, VersionTypes
<1> HIDE DEF r
<1>4. Current' \in Version /\ Follows(Current, Current')
  <2>1. Grows(published, s)
    BY <1>1, GrowsOn DEF Leading, VersionTypes
  <2> QED
    BY <1>2, <1>3, <2>1 DEF Current, Version, Follows
<1>5. p \in Snapshot /\ p.kind = "snapshot" /\ ~p.awaiting /\ p.session = joined
      /\ Content(p) = Current'
  <2>1. epoch \in 1..MaxSessions /\ epoch = joined
    BY <1>1 DEF Journaled, TypeOK, Live
  <2> QED
    BY <1>2, <1>3, <2>1 DEF Packet, Snapshot, Content, Current
<1> HIDE DEF p
<1>6. /\ Len(down) \in Nat /\ DOMAIN down = 1..Len(down)
      /\ down' \in Seq(Snapshot \cup Save)
      /\ DOMAIN down' = 1..(Len(down) + 1 + Len(behind)) /\ Len(behind) \in Nat
      /\ \A i \in DOMAIN down : down'[i] = down[i]
      /\ down'[Len(down) + 1] = p
      /\ \A i \in DOMAIN down' : i > Len(down) + 1 => down'[i] = behind[i - Len(down) - 1]
  BY <1>1, <1>2, <1>5, Emission
<1>7. \A i \in DOMAIN down' : \/ i \in DOMAIN down /\ down'[i] = down[i]
                              \/ i = Len(down) + 1 /\ down'[i] = p
                              \/ i > Len(down) + 1 /\ down'[i].kind = "save"
  <2>1. ASSUME NEW i \in DOMAIN down', i > Len(down) + 1
        PROVE  down'[i] \in Save
    <3>1. i - Len(down) - 1 \in 1..Len(behind)
      BY <1>6, <2>1
    <3> QED
      BY <1>6, <2>1, <3>1, ElementOfSeq
  <2> QED
    BY <1>6, <2>1 DEF Save
<1>8. TypeOK'
  BY <1>1, <1>2, <1>3, <1>6 DEF TypeOK, FewerCommands
<1>9. Queued' /\ Accepted'
  BY DEF Journaled, Queued, Accepted, Held, Attached
<1>10. (Attached' <=> Attached) /\ Newest' = Newest /\ Live'
  BY DEF Attached, Newest, Live
<1>11. \A i \in Updates' : \/ i \in Updates /\ i \in DOMAIN down /\ down'[i] = down[i]
                           \/ i = Len(down) + 1 /\ down'[i] = p
  BY <1>7 DEF Updates, IsUpdate
<1>12. \A i \in Updates' : Follows(Content(down'[i]), Current')
  <2>1. \A i \in Updates : Follows(Content(down[i]), Current')
    BY <1>1, <1>4, FollowsOn DEF Leading, VersionTypes
  <2> QED
    BY <1>4, <1>5, <1>11, <2>1, Same
<1>13. \A v \in {disk, running, next, Newest} \ {None} : Follows(v, Current')
  BY <1>1, <1>4, FollowsOn DEF Leading, VersionTypes
<1>14. Packets'
  <2>1. \A i \in DOMAIN down' : down'[i].kind = "snapshot" => down'[i].session = joined'
    BY <1>5, <1>7 DEF Journaled, Packets
  <2>2. ASSUME NEW i \in Updates', NEW j \in Updates', i < j
        PROVE  Follows(Content(down'[i]), Content(down'[j]))
    <3>1. i \in Updates /\ down'[i] = down[i]
      BY <1>6, <1>11, <2>2
    <3>2. CASE j \in Updates /\ down'[j] = down[j]
      BY <2>2, <3>1, <3>2 DEF Journaled, Packets
    <3>3. CASE down'[j] = p
      BY <1>5, <1>12, <3>1, <3>3
    <3> QED
      BY <1>11, <3>2, <3>3
  <2>3. Attached' => \A i \in Updates' : Follows(Newest', Content(down'[i]))
    <3>1. Attached => Newest # None
      BY <1>1 DEF Journaled, Accepted, Newest, VersionTypes
    <3> QED
      BY <1>5, <1>10, <1>11, <1>13, <3>1 DEF Journaled, Packets
  <2>4. \A i \in DOMAIN up' : up'[i].kind = "ack" => up'[i].rev <= disk'.rev
    BY DEF Journaled, Packets, FewerCommands
  <2> QED
    BY <2>1, <2>2, <2>3, <2>4 DEF Packets
<1>15. Unopened'
  BY <1>10 DEF Journaled, Unopened
<1>16. Leading'
  <2>1. disk # None
    BY <1>1 DEF VersionTypes
  <2> QED
    BY <1>1, <1>2, <1>10, <1>12, <1>13, <2>1, SameGrows DEF Leading
<1> QED
  BY <1>8, <1>9, <1>10, <1>14, <1>15, <1>16 DEF Journaled

\* A host that waits for the journal asks for it, with the game's save or without.
LEMMA HostAsks ==
    ASSUME Journaled, Live, awaiting, FewerCommands,
           NEW s \in State, NEW flush \in BOOLEAN,
           NEW behind \in Seq(Save), Send(s, flush, behind),
           rewards' \subseteq Quests,
           UNCHANGED <<epoch, joined, acked, awaiting, paused, clientVars, workerVars,
                       fileVars, faults>>
    PROVE  Journaled'
<1> USE DEF clientVars, workerVars, fileVars
<1>1. TypeOK /\ VersionTypes /\ Waiting /\ awaiting = TRUE
  BY VersionsTyped DEF Journaled, TypeOK
<1> DEFINE p == Packet(s, revision, TRUE, flush)
<1>2. progress' = s /\ revision' = revision /\ published' = published
      /\ Emit(<<p>> \o behind)
  BY <1>1 DEF Send
<1>3. p \in Snapshot /\ p.kind = "snapshot" /\ p.awaiting /\ p.session = joined
  <2>1. epoch \in 1..MaxSessions /\ epoch = joined
    BY <1>1 DEF Journaled, TypeOK, Live
  <2> QED
    BY <1>1, <2>1 DEF Packet, Snapshot, VersionTypes
<1> HIDE DEF p
<1>4. /\ Len(down) \in Nat /\ DOMAIN down = 1..Len(down)
      /\ down' \in Seq(Snapshot \cup Save)
      /\ DOMAIN down' = 1..(Len(down) + 1 + Len(behind)) /\ Len(behind) \in Nat
      /\ \A i \in DOMAIN down : down'[i] = down[i]
      /\ down'[Len(down) + 1] = p
      /\ \A i \in DOMAIN down' : i > Len(down) + 1 => down'[i] = behind[i - Len(down) - 1]
  BY <1>1, <1>2, <1>3, Emission
<1>5. \A i \in DOMAIN down' : \/ i \in DOMAIN down /\ down'[i] = down[i]
                              \/ i = Len(down) + 1 /\ down'[i] = p
                              \/ i > Len(down) + 1 /\ down'[i].kind = "save"
  <2>1. ASSUME NEW i \in DOMAIN down', i > Len(down) + 1
        PROVE  down'[i] \in Save
    <3>1. i - Len(down) - 1 \in 1..Len(behind)
      BY <1>4, <2>1
    <3> QED
      BY <1>4, <2>1, <3>1, ElementOfSeq
  <2> QED
    BY <1>4, <2>1 DEF Save
<1>6. TypeOK'
  BY <1>1, <1>2, <1>4 DEF TypeOK, FewerCommands
<1>7. Queued' /\ Accepted'
  BY DEF Journaled, Queued, Accepted, Held, Attached
<1>8. (Attached' <=> Attached) /\ Newest' = Newest /\ Live' /\ Current' = Current
  BY <1>2 DEF Attached, Newest, Live, Current
<1>9. Updates' = {}
  BY <1>1, <1>3, <1>5 DEF Waiting, Updates, IsUpdate
<1>10. Packets'
  <2>1. \A i \in DOMAIN down' : down'[i].kind = "snapshot" => down'[i].session = joined'
    BY <1>3, <1>5 DEF Journaled, Packets
  <2>2. \A i \in DOMAIN up' : up'[i].kind = "ack" => up'[i].rev <= disk'.rev
    BY DEF Journaled, Packets, FewerCommands
  <2> QED
    BY <1>9, <2>1, <2>2 DEF Packets
<1>11. \A i \in Transfers' : \E j \in Transfers : up'[i] = up[j]
  BY DEF FewerCommands, Transfers
<1>12. Unopened'
  BY <1>8, <1>9, <1>11 DEF Journaled, Unopened
<1>13. Waiting'
  BY <1>1, <1>2, <1>8, <1>9, <1>11 DEF Waiting
<1> QED
  BY <1>6, <1>7, <1>8, <1>10, <1>12, <1>13 DEF Journaled

LEMMA HostSends ==
    ASSUME Journaled, Live, FewerCommands,
           NEW s \in State, ~awaiting => Grows(progress, s), NEW flush \in BOOLEAN,
           NEW behind \in Seq(Save), Send(s, flush, behind),
           rewards' \subseteq Quests,
           UNCHANGED <<epoch, joined, acked, awaiting, paused, clientVars, workerVars,
                       fileVars, faults>>
    PROVE  Journaled'
BY HostPublishes, HostAsks

\* The journal of the player's computer becomes the session's.
LEMMA HostLoads ==
    ASSUME Journaled, OnTransfer
    PROVE  Journaled'
<1> USE DEF clientVars, workerVars, fileVars, HostOnly
<1>1. TypeOK /\ VersionTypes /\ Live /\ up # <<>> /\ up' = Tail(up) /\ FewerCommands
  BY VersionsTyped, CommandTaken DEF Journaled, OnTransfer, Arrived
<1>2. CASE ~Expected
  <2>1. UNCHANGED <<hostVars, down, clientVars, workerVars, fileVars, faults>>
    BY <1>2 DEF OnTransfer, hostVars
  <2>2. progress' \in State /\ Grows(progress, progress')
        /\ Boundary(progress') = Boundary(progress) /\ acked' = acked
    BY <1>1, <2>1, SameGrows DEF VersionTypes, hostVars
  <2>3. paused' \in BOOLEAN /\ rewards' \subseteq Quests
    BY <1>1, <2>1 DEF TypeOK, hostVars
  <2>4. UNCHANGED <<epoch, joined, published, revision, awaiting, down, clientVars,
                    workerVars, fileVars, faults>>
    BY <2>1 DEF hostVars
  <2> QED
    BY <1>1, <2>2, <2>3, <2>4, HostNotes
<1>3. CASE Expected
  <2>1. awaiting /\ Waiting
    BY <1>1, <1>3 DEF Expected, Journaled
  <2>2. 1 \in Transfers /\ Head(up) = up[1]
    <3>1. up \in Seq(Command)
      BY <1>1 DEF TypeOK
    <3>2. 1 \in DOMAIN up /\ Head(up) = up[1]
      BY <1>1, <3>1, QueueHead
    <3> QED
      BY <3>2 DEF Transfers, OnTransfer, Arrived
  <2>3. Head(up).content = disk
    BY <2>1, <2>2 DEF Waiting
  <2> DEFINE s == Advance(disk.state)
             r == Revise(s, disk.state, disk.rev)
             p == Packet(s, r, FALSE, FALSE)
  <2>4. /\ acked' = disk.state /\ awaiting' = FALSE
        /\ progress' = s /\ published' = s /\ revision' = r
        /\ Emit(<<p>>)
        /\ UNCHANGED <<epoch, joined, paused, rewards, clientVars, workerVars, fileVars, faults>>
    BY <1>3, <2>3 DEF OnTransfer
  <2>5. disk.state \in State /\ disk.rev \in Nat
    BY <1>1 DEF VersionTypes, Version
  <2>6. s \in State /\ Grows(disk.state, s)
    BY <2>5, AdvanceGrows
  <2> HIDE DEF s
  <2>7. r \in Nat /\ disk.rev <= r /\ (r = disk.rev => s = disk.state)
    BY <2>5 DEF Revise
  <2> HIDE DEF r
  <2>8. Current' \in Version /\ Follows(disk, Current')
    BY <2>4, <2>6, <2>7 DEF Current, Version, Follows
  <2>9. p \in Snapshot /\ p.kind = "snapshot" /\ ~p.awaiting /\ p.session = joined
        /\ Content(p) = Current'
    <3>1. epoch \in 1..MaxSessions /\ epoch = joined
      BY <1>1 DEF Journaled, TypeOK, Live
    <3> QED
      BY <2>4, <2>6, <2>7, <3>1 DEF Packet, Snapshot, Content, Current
  <2> HIDE DEF p
  <2>10. Emit(<<p>> \o <<>>)
    <3>1. <<p>> \in Seq(Snapshot)
      BY <2>9
    <3>2. <<p>> \o <<>> = <<p>>
      BY <3>1, ConcatEmptySeq
    <3> QED
      BY <2>4, <3>2
  <2>11. <<>> \in Seq(Save) /\ Len(<<>>) = 0
    BY EmptySeq
  <2>12. /\ Len(down) \in Nat /\ DOMAIN down = 1..Len(down)
         /\ down' \in Seq(Snapshot \cup Save)
         /\ DOMAIN down' = 1..(Len(down) + 1 + 0)
         /\ \A i \in DOMAIN down : down'[i] = down[i]
         /\ down'[Len(down) + 1] = p
    BY <1>1, <2>9, <2>10, <2>11, Emission
  <2>13. \A i \in DOMAIN down' : \/ i \in DOMAIN down /\ down'[i] = down[i]
                                 \/ i = Len(down) + 1 /\ down'[i] = p
    BY <2>12
  <2>14. TypeOK'
    BY <1>1, <2>4, <2>5, <2>6, <2>7, <2>12 DEF TypeOK, FewerCommands
  <2>15. Queued' /\ Accepted'
    BY <2>4 DEF Journaled, Queued, Accepted, Held, Attached
  <2>16. (Attached' <=> Attached) /\ Newest' = Newest /\ Live' /\ (player' <=> player)
    BY <1>1, <2>4 DEF Attached, Newest, Live
  <2>17. Updates' = {Len(down) + 1} /\ Content(down'[Len(down) + 1]) = Current'
    BY <2>1, <2>9, <2>12, <2>13 DEF Waiting, Updates, IsUpdate
  <2>18. \A v \in {running, next, Newest} \ {None} : v = disk
    BY <2>1, <2>2 DEF Waiting, Newest, Journaled, Queued
  <2>19. \A v \in {running, next, Newest} \ {None} : Follows(v, Current')
    BY <2>8, <2>18
  <2>20. Packets'
    <3>1. \A i \in DOMAIN down' : down'[i].kind = "snapshot" => down'[i].session = joined'
      BY <2>4, <2>9, <2>13 DEF Journaled, Packets
    <3>2. \A i, j \in Updates' : i < j => Follows(Content(down'[i]), Content(down'[j]))
      BY <2>12, <2>17
    <3>3. Attached' => \A i \in Updates' : Follows(Newest', Content(down'[i]))
      <4>1. Attached => Newest # None
        BY <1>1 DEF Journaled, Accepted, Newest, VersionTypes
      <4> QED
        BY <2>16, <2>17, <2>19, <4>1
    <3>4. \A i \in DOMAIN up' : up'[i].kind = "ack" => up'[i].rev <= disk'.rev
      BY <1>1, <2>4 DEF Journaled, Packets, FewerCommands
    <3> QED
      BY <3>1, <3>2, <3>3, <3>4 DEF Packets
  <2>21. Unopened'
    BY <2>2, <2>16 DEF Journaled, Unopened
  <2>22. Leading'
    <3>1. Follows(disk', Current') /\ (\A v \in {running', next', Newest'} \ {None} : Follows(v, Current'))
      BY <2>4, <2>8, <2>16, <2>19
    <3>2. \A i \in Updates' : Follows(Content(down'[i]), Current')
      <4>1. Follows(Current', Current')
        BY <2>8, Same
      <4> QED
        BY <2>17, <4>1
    <3>3. Boundary(progress') = Boundary(published') /\ Grows(published', progress')
      BY <2>4, <2>6, SameGrows
    <3>4. acked' # None => Grows(acked', disk'.state)
      BY <2>4, <2>5, SameGrows
    <3> QED
      BY <3>1, <3>2, <3>3, <3>4 DEF Leading
  <2>23. bound' <= joined' /\ (Live' => epoch' = joined' /\ joined' # 0)
    BY <1>1, <2>4, <2>16 DEF Journaled
  <2> QED
    BY <2>4, <2>14, <2>15, <2>20, <2>21, <2>22, <2>23 DEF Journaled
<1> QED
  BY <1>2, <1>3

\* The session is over on the host; the packets it sent, or the first of them,
\* still arrive.
LEMMA SessionEnds ==
    ASSUME Journaled, Erase, NEW n \in 0..Len(down),
           down' = down \/ down' = SubSeq(down, 1, n),
           UNCHANGED <<joined, up, clientVars, workerVars, fileVars>>,
           faults' \in 0..MaxFaults
    PROVE  Journaled'
<1> USE DEF clientVars, workerVars, fileVars
<1>1. TypeOK /\ VersionTypes
  BY VersionsTyped DEF Journaled
<1>2. down \in Seq(Snapshot \cup Save) /\ Len(down) \in Nat /\ DOMAIN down = 1..Len(down)
  BY <1>1, LenProperties DEF TypeOK
<1>3. /\ down' \in Seq(Snapshot \cup Save)
      /\ \A i \in DOMAIN down' : i \in DOMAIN down /\ down'[i] = down[i]
  <2>1. CASE down' = down
    BY <1>2, <2>1
  <2>2. CASE down' = SubSeq(down, 1, n)
    <3>1. n \in Int /\ \A i \in 1..n : down[i] \in Snapshot \cup Save
      BY <1>2, ElementOfSeq
    <3>2. /\ SubSeq(down, 1, n) \in Seq(Snapshot \cup Save)
          /\ Len(SubSeq(down, 1, n)) = IF 1 <= n THEN n - 1 + 1 ELSE 0
          /\ \A i \in 1..(n - 1 + 1) : SubSeq(down, 1, n)[i] = down[1 + i - 1]
      BY <3>1, SubSeqProperties
    <3>3. DOMAIN SubSeq(down, 1, n) = 1..n
      BY <3>1, <3>2, LenProperties
    <3> QED
      BY <1>2, <2>2, <3>1, <3>2, <3>3
  <2> QED
    BY <2>1, <2>2
<1>4. TypeOK'
  <2>1. epoch' \in 0..MaxSessions /\ revision' \in Nat /\ rewards' \subseteq Quests
    BY DEF Erase
  <2>2. progress' \in State /\ published' \in State /\ acked' \in State \cup {None}
    BY FreshState DEF Erase
  <2>3. awaiting' \in BOOLEAN /\ paused' \in BOOLEAN
    BY DEF Erase
  <2> QED
    BY <1>1, <1>3, <2>1, <2>2, <2>3 DEF TypeOK
<1>5. Queued' /\ Accepted'
  BY DEF Journaled, Queued, Accepted, Held, Attached
<1>6. (Attached' <=> Attached) /\ Newest' = Newest /\ ~Live'
  BY DEF Attached, Newest, Live, Erase
<1>7. \A i \in Updates' : i \in Updates /\ down'[i] = down[i]
  BY <1>3 DEF Updates, IsUpdate
<1>8. Packets'
  BY <1>3, <1>6, <1>7 DEF Journaled, Packets
<1>9. Transfers' = Transfers
  BY DEF Transfers
<1>10. Unopened'
  BY <1>6, <1>7, <1>9 DEF Journaled, Unopened
<1> QED
  BY <1>4, <1>5, <1>6, <1>8, <1>10 DEF Journaled

LEMMA GamesBegin ==
    ASSUME Journaled, Join
    PROVE  Journaled'
<1> USE DEF workerVars, fileVars
<1>1. TypeOK /\ VersionTypes /\ call = None /\ bound <= joined /\ joined < MaxSessions
  BY VersionsTyped DEF Journaled, Join
<1>2. joined \in Nat /\ joined' = joined + 1 /\ joined' \in 1..MaxSessions
  BY <1>1 DEF TypeOK, Join
<1>3. down' = <<>> /\ up' = <<>> /\ DOMAIN down' = {} /\ DOMAIN up' = {}
  BY DEF Join
<1>4. TypeOK'
  <2>1. epoch' \in 0..MaxSessions /\ joined' \in 0..MaxSessions /\ revision' \in Nat
    BY <1>2 DEF Join
  <2>2. progress' \in State /\ published' \in State /\ acked' \in State \cup {None}
    BY FreshState DEF Join
  <2>3. awaiting' \in BOOLEAN /\ paused' \in BOOLEAN /\ player' \in BOOLEAN
    BY DEF Join
  <2>4. rewards' \subseteq Quests
    BY <1>1 DEF TypeOK, Join
  <2>5. down' \in Seq(Snapshot \cup Save) /\ up' \in Seq(Command)
    BY <1>3, EmptySeq
  <2>6. UNCHANGED <<store, bound, call, workerVars, fileVars, faults>>
    BY DEF Join
  <2> QED
    BY <1>1, <2>1, <2>2, <2>3, <2>4, <2>5, <2>6 DEF TypeOK
<1>5. ~Attached' /\ Updates' = {} /\ Transfers' = {} /\ bound' <= joined' /\ Live'
  BY <1>1, <1>2, <1>3 DEF Attached, Updates, Transfers, Live, Join, TypeOK
<1>6. Queued' /\ Accepted'
  BY <1>1, <1>5 DEF Journaled, Queued, Accepted, Held, Attached, Join
<1>7. Packets' /\ Unopened' /\ Waiting'
  BY <1>3, <1>5 DEF Packets, Unopened, Waiting, Join
<1> QED
  BY <1>2, <1>4, <1>5, <1>6, <1>7 DEF Journaled, Join

\* The client drops its store; what is not on disk is left to the worker.
LEMMA ClientDetaches ==
    ASSUME Journaled, call = None, Detach, FewerPackets, Answers,
           store' = None, bound' \in {0, bound}, ~Attached', Attached => ~player,
           UNCHANGED <<hostVars, player, call, running, trouble, recent, fileVars, faults>>
    PROVE  Journaled'
<1> USE DEF hostVars, fileVars
<1>1. TypeOK /\ VersionTypes
  BY VersionsTyped DEF Journaled
<1>3. up' \in Seq(Command)
  BY <1>1, CommandsSent
<1>4. \A i \in DOMAIN up' : (\E j \in DOMAIN up : up'[i] = up[j]) \/ Honest(up'[i])
  BY <1>1, CommandsSent
<1>5. next' = next \/ (next' = store /\ Behind)
  BY DEF Detach
<1>6. (busy => busy') /\ (Behind => busy')
  BY DEF Detach
<1>7. TypeOK'
  BY <1>1, <1>3, <1>5 DEF TypeOK, FewerPackets, Detach, Behind
<1>8. Queued'
  BY <1>5, <1>6 DEF Journaled, Queued, Accepted, Held, Behind
<1>9. Accepted'
  BY DEF Accepted, Held
<1>10. /\ \A i \in DOMAIN down' : down'[i].kind = "snapshot" => down'[i].session = joined
       /\ \A i \in Updates' : \E j \in Updates : down'[i] = down[j]
       /\ \A i, j \in Updates' : i < j => Follows(Content(down'[i]), Content(down'[j]))
  BY PacketsRead DEF Journaled
<1>11. Packets'
  <2>1. \A i \in DOMAIN up' : up'[i].kind = "ack" => up'[i].rev <= disk'.rev
    BY <1>4 DEF Journaled, Packets, Honest
  <2> QED
    BY <1>10, <2>1 DEF Packets
<1>12. \A i \in Transfers' : \/ \E j \in Transfers : up'[i] = up[j]
                             \/ Attached /\ (Live /\ awaiting => up'[i].content = disk)
  BY <1>4 DEF Transfers, Honest
<1>13. (Live' <=> Live) /\ Current' = Current /\ Newest' = None
  BY DEF Live, Current, Newest
<1>14. Unopened'
  BY <1>10, <1>12, <1>13 DEF Journaled, Unopened
<1>15. ASSUME (Live /\ awaiting)' PROVE Waiting'
  <2>1. Waiting
    BY <1>13, <1>15 DEF Journaled
  <2>2. Updates' = {} /\ revision' = 0
    BY <1>10, <2>1 DEF Waiting
  <2>3. \A i \in Transfers' : up'[i].content = disk
    BY <1>12, <1>13, <1>15, <2>1 DEF Waiting
  <2>4. ASSUME Transfers' # {} PROVE ~busy'
    <3>1. ~busy /\ store \in {None, disk}
      BY <1>12, <2>1, <2>4 DEF Waiting
    <3>2. ~Behind
      BY <1>1, <3>1 DEF Behind, VersionTypes, Version
    <3> QED
      BY <3>1, <3>2 DEF Detach
  <2> QED
    BY <2>2, <2>3, <2>4 DEF Waiting
<1>16. ASSUME (Live /\ ~awaiting)' PROVE Leading'
  <2>1. Leading
    BY <1>13, <1>16 DEF Journaled
  <2>2. next' # None => Follows(next', Current)
    BY <1>5, <2>1 DEF Leading, Newest, Behind
  <2>3. \A i \in Updates' : Follows(Content(down'[i]), Current)
    BY <1>10, <2>1 DEF Leading
  <2> QED
    BY <1>13, <2>1, <2>2, <2>3 DEF Leading
<1>17. bound' <= joined'
  BY <1>1 DEF Journaled, TypeOK
<1> QED
  BY <1>7, <1>8, <1>9, <1>11, <1>13, <1>14, <1>15, <1>16, <1>17 DEF Journaled

\* The client opens the file for a new session; no worker holds it.
LEMMA StoreOpens ==
    ASSUME Journaled, call = None, player, down # <<>>, NEW p, p = Head(down),
           p.kind = "snapshot", bound # p.session \/ store = None, LeaseFree,
           store' = disk, bound' = p.session, trouble' = FALSE, recent' = TRUE,
           up' = Append(up, TransferOf(p, disk)), down' = Tail(down),
           UNCHANGED <<busy, next, running, player, call, hostVars, fileVars, faults>>
    PROVE  Journaled'
<1> USE DEF hostVars, fileVars
<1>1. TypeOK /\ VersionTypes /\ FewerPackets /\ 1 \in DOMAIN down /\ p = down[1]
      /\ p \in Snapshot \cup Save
  BY VersionsTyped, PacketTaken DEF Journaled
<1>2. p.session = joined /\ joined \in 1..MaxSessions
  BY <1>1 DEF Journaled, Packets, Snapshot, Save
<1>3. ~Attached /\ Attached'
  BY <1>2 DEF Journaled, Accepted, Attached
<1>4. Updates = {} /\ Transfers = {} /\ (Live => awaiting)
  BY <1>3 DEF Journaled, Unopened
<1>5. ~busy /\ next = None /\ running = None
  BY DEF LeaseFree, Journaled, Queued
<1> DEFINE c == TransferOf(p, disk)
<1>6. c \in Command /\ c.kind = "transfer" /\ c.content = disk
  BY <1>1, <1>2 DEF TransferOf, Command, VersionTypes
<1> HIDE DEF c
<1>7. up' = Append(up, c) /\ up \in Seq(Command)
  BY <1>1 DEF c, TypeOK
<1>8. /\ up' \in Seq(Command)
      /\ \A i \in DOMAIN up' : (i \in DOMAIN up /\ up'[i] = up[i]) \/ up'[i] = c
  <2>1. /\ Len(up) \in Nat /\ DOMAIN up = 1..Len(up)
        /\ Append(up, c) \in Seq(Command) /\ DOMAIN Append(up, c) = 1..(Len(up) + 1)
        /\ \A i \in DOMAIN up : Append(up, c)[i] = up[i]
        /\ Append(up, c)[Len(up) + 1] = c
    BY <1>6, <1>7, QueueEnd
  <2> QED
    BY <1>7, <2>1
<1>9. TypeOK'
  BY <1>1, <1>2, <1>8 DEF TypeOK, FewerPackets
<1>10. Queued'
  BY <1>5 DEF Queued
<1>11. Accepted'
  <2>1. Follows(disk, disk) /\ disk # None
    BY <1>1, Same DEF VersionTypes
  <2> QED
    BY <1>5, <2>1 DEF Accepted, Held
<1>12. Updates' = {} /\ (Live' <=> Live)
  BY <1>1, <1>4, PacketsRead DEF Journaled, Live
<1>13. Packets'
  <2>1. \A i \in DOMAIN down' : down'[i].kind = "snapshot" => down'[i].session = joined'
    BY <1>1, PacketsRead DEF Journaled
  <2>2. \A i \in DOMAIN up' : up'[i].kind = "ack" => up'[i].rev <= disk'.rev
    BY <1>6, <1>8 DEF Journaled, Packets
  <2> QED
    BY <1>12, <2>1, <2>2 DEF Packets
<1>14. \A i \in Transfers' : up'[i].content = disk
  BY <1>4, <1>6, <1>8 DEF Transfers
<1>15. ASSUME (Live /\ awaiting)' PROVE Waiting'
  BY <1>5, <1>12, <1>14, <1>15 DEF Waiting, Journaled
<1> QED
  BY <1>2, <1>3, <1>4, <1>9, <1>10, <1>11, <1>12, <1>13, <1>15 DEF Journaled, Unopened

\* A packet for the open store.
Arriving ==
    /\ call = None /\ down # <<>> /\ Head(down).kind = "snapshot"
    /\ ~Head(down).awaiting /\ Taken(Head(down))

LEMMA UpdateArrives ==
    ASSUME Journaled, Arriving
    PROVE  LET value == Content(Head(down)) IN
           /\ 1 \in Updates /\ Head(down) = down[1] /\ Head(down) \in Snapshot
           /\ value \in Version /\ Attached /\ store \in Version /\ store # None
           /\ Follows(store, value) /\ Follows(disk, store) /\ Follows(disk, value)
           /\ running # None => Follows(running, store) /\ Follows(running, value)
           /\ next # None => Follows(next, store) /\ Follows(next, value)
           /\ Live => ~awaiting /\ Follows(value, Current)
<1> DEFINE value == Content(Head(down))
<1>1. TypeOK /\ VersionTypes
  BY VersionsTyped DEF Journaled
<1>2. 1 \in DOMAIN down /\ Head(down) = down[1]
  <2>1. down \in Seq(Snapshot \cup Save)
    BY <1>1 DEF TypeOK
  <2> QED
    BY <2>1, QueueHead DEF Arriving
<1>3. 1 \in Updates
  BY <1>2 DEF Arriving, Updates, IsUpdate
<1>4. value \in Version /\ Head(down) \in Snapshot
  BY <1>1, <1>2, <1>3 DEF VersionTypes
<1>5. Head(down).session = joined /\ Head(down).session # 0
  BY <1>2, <1>4 DEF Journaled, Packets, Arriving, Snapshot
<1>6. Attached /\ store # None /\ store \in Version
  BY <1>1, <1>5 DEF Arriving, Taken, Attached, VersionTypes
<1>7. Follows(store, value)
  BY <1>2, <1>3, <1>6 DEF Journaled, Packets, Newest, Arriving
<1>8. /\ Follows(disk, store)
      /\ running # None => Follows(running, store)
      /\ next # None => Follows(next, store)
  BY <1>6 DEF Journaled, Accepted, Held, Arriving
<1> HIDE DEF value
<1>9. /\ Follows(disk, value)
      /\ running # None => Follows(running, value)
      /\ next # None => Follows(next, value)
  BY <1>1, <1>4, <1>6, <1>7, <1>8, FollowsOn DEF VersionTypes
<1>10. Live => ~awaiting /\ Follows(value, Current)
  BY <1>2, <1>3 DEF Journaled, Waiting, Leading, value
<1> QED
  BY <1>2, <1>3, <1>4, <1>6, <1>7, <1>8, <1>9, <1>10 DEF value

\* The packet becomes the newest version of the client, in its store or as the
\* request it waits for.
LEMMA UpdateTaken ==
    ASSUME Journaled, Arriving, down' = Tail(down), Answers,
           NEW value, value = Content(Head(down)),
           busy' \in BOOLEAN, busy => busy', next' \in {None, next, value},
           next' # None => busy',
           \/ call' = None /\ store' = value
           \/ /\ call' \in Calls /\ call'.request = value
              /\ store' = IF call'.wait THEN store ELSE value,
           trouble' \in BOOLEAN, recent' \in BOOLEAN, faults' \in 0..MaxFaults,
           UNCHANGED <<player, bound, hostVars, running, fileVars>>
    PROVE  Journaled'
<1> USE DEF hostVars, fileVars
<1>1. TypeOK /\ VersionTypes /\ FewerPackets
  BY VersionsTyped, PacketTaken DEF Journaled, Arriving
<1>2. /\ 1 \in Updates /\ Head(down) = down[1]
      /\ value \in Version /\ value # None /\ Attached /\ store \in Version /\ store # None
      /\ Follows(store, value) /\ Follows(disk, store) /\ Follows(disk, value)
      /\ running # None => Follows(running, store) /\ Follows(running, value)
      /\ next # None => Follows(next, store) /\ Follows(next, value)
      /\ Live => ~awaiting /\ Follows(value, Current)
  BY UpdateArrives
<1>3. up' \in Seq(Command)
      /\ \A i \in DOMAIN up' : (\E j \in DOMAIN up : up'[i] = up[j]) \/ Honest(up'[i])
  BY <1>1, CommandsSent
<1>4. store' \in {store, value} /\ (call' # None => call' \in Calls)
  OBVIOUS
<1>5. TypeOK'
  BY <1>1, <1>2, <1>3, <1>4 DEF TypeOK, FewerPackets
<1>6. Queued'
  BY <1>2 DEF Journaled, Queued
<1>7. Newest' = value /\ Attached' /\ (Live' <=> Live) /\ Current' = Current
  BY <1>2 DEF Newest, Attached, Live, Current, Calls
<1>8. Accepted'
  <2>1. Follows(value, value)
    BY <1>2, Same
  <2>2. CASE call' = None /\ store' = value
    BY <1>2, <2>1, <2>2 DEF Accepted, Held
  <2>3. CASE call' \in Calls /\ call'.request = value
             /\ store' = IF call'.wait THEN store ELSE value
    <3>1. call' # None /\ store' # None
      BY <1>2, <2>3
    <3>2. Follows(store', value) /\ (~call'.wait => store' = value)
      BY <1>2, <2>1, <2>3
    <3>3. /\ Follows(disk, store')
          /\ running # None => Follows(running, store')
          /\ next' # None => Follows(next', store') \/ next' = value
      BY <1>2, <1>4
    <3> QED
      BY <1>7, <2>3, <3>1, <3>2, <3>3 DEF Accepted, Held
  <2> QED
    BY <2>2, <2>3
<1>9. /\ \A i \in DOMAIN down' : down'[i].kind = "snapshot" => down'[i].session = joined
      /\ \A i \in Updates' : \E j \in Updates : down'[i] = down[j]
      /\ \A i, j \in Updates' : i < j => Follows(Content(down'[i]), Content(down'[j]))
  BY <1>1, PacketsRead DEF Journaled
<1>10. \A i \in Updates' : Follows(value, Content(down'[i]))
  <2>1. down \in Seq(Snapshot \cup Save) /\ down # <<>>
    BY <1>1 DEF TypeOK, Arriving
  <2>2. /\ Len(down) \in Nat /\ DOMAIN Tail(down) = 1..(Len(down) - 1)
        /\ \A i \in DOMAIN Tail(down) : i + 1 \in DOMAIN down /\ Tail(down)[i] = down[i + 1]
    BY <2>1, QueueHead
  <2>3. \A i \in Updates' : i + 1 \in Updates /\ 1 < i + 1 /\ down'[i] = down[i + 1]
    BY <2>2 DEF Updates, IsUpdate
  <2> QED
    BY <1>2, <2>3 DEF Journaled, Packets
<1>11. Packets'
  <2>1. \A i \in DOMAIN up' : up'[i].kind = "ack" => up'[i].rev <= disk'.rev
    BY <1>3 DEF Journaled, Packets, Honest
  <2> QED
    BY <1>7, <1>9, <1>10, <2>1 DEF Packets
<1>12. ASSUME Live' PROVE Leading'
  <2>1. Leading
    BY <1>2, <1>7, <1>12 DEF Journaled
  <2>2. \A i \in Updates' : Follows(Content(down'[i]), Current)
    BY <1>9, <2>1 DEF Leading
  <2> QED
    BY <1>2, <1>7, <1>12, <2>1, <2>2 DEF Leading
<1> QED
  BY <1>2, <1>5, <1>6, <1>7, <1>8, <1>11, <1>12 DEF Journaled, Unopened

\* What a written request leaves on disk is the request.
LEMMA WrittenRequest ==
    ASSUME Journaled, call # None
    PROVE  /\ call \in Calls /\ call.request \in Version /\ store \in Version /\ store # None
           /\ Attached /\ Follows(store, call.request) /\ Newest = call.request
           /\ Follows(disk, call.request)
           /\ Written => disk = call.request
           /\ ~Written => Follows(disk, store)
           /\ Live => ~awaiting
<1>1. TypeOK /\ VersionTypes
  BY VersionsTyped DEF Journaled
<1>2. /\ call \in Calls /\ call.request \in Version /\ store \in Version /\ store # None
      /\ Attached /\ Follows(store, call.request) /\ Newest = call.request
      /\ Follows(disk, store) \/ disk = call.request
  BY <1>1 DEF VersionTypes, Journaled, Accepted, Held, Newest
<1>3. Follows(disk, call.request)
  BY <1>1, <1>2, FollowsOn, Same DEF VersionTypes
<1>4. Written => disk = call.request
  BY <1>1, <1>2, <1>3, SameVersion DEF Written, VersionTypes, Version
<1>5. ~Written => Follows(disk, store)
  BY <1>1, <1>2 DEF Written, VersionTypes, Version
<1>6. Live => ~awaiting
  BY <1>2 DEF Journaled, Waiting
<1> QED
  BY <1>2, <1>3, <1>4, <1>5, <1>6

LEMMA UpdateEnds ==
    ASSUME Journaled, Complete
    PROVE  Journaled'
<1> USE DEF ClientStep, hostVars, workerVars, fileVars
<1>1. TypeOK /\ VersionTypes /\ call # None
  BY VersionsTyped DEF Journaled, Complete
<1>2. /\ call \in Calls /\ call.request \in Version /\ store \in Version /\ store # None
      /\ Attached /\ Follows(store, call.request) /\ Newest = call.request
      /\ Follows(disk, call.request)
      /\ Written => disk = call.request
      /\ ~Written => Follows(disk, store)
      /\ Live => ~awaiting
  BY <1>1, WrittenRequest
<1>3. /\ store' = IF Written THEN call.request ELSE store
      /\ call' = None
      /\ UNCHANGED <<down, player, bound, workerVars, hostVars, fileVars, faults>>
  BY DEF Complete
<1>4. Answers
  <2>1. bound \in 1..MaxSessions
    BY <1>1, <1>2 DEF Attached, TypeOK
  <2>2. Honest(FailedOf(bound)) /\ FailedOf(bound) \in Command
    BY <2>1 DEF Honest, FailedOf, Command
  <2>3. Written => Honest(AckOf(call.request)) /\ AckOf(call.request) \in Command
    BY <1>1, <1>2, <2>1 DEF Honest, AckOf, Command, Written, Version
  <2>4. \/ up' = up
        \/ Written /\ up' = Append(up, AckOf(call.request))
        \/ up' = Append(up, FailedOf(bound))
    BY DEF Complete
  <2> QED
    BY <2>2, <2>3, <2>4 DEF Answers
<1>5. up' \in Seq(Command)
      /\ \A i \in DOMAIN up' : (\E j \in DOMAIN up : up'[i] = up[j]) \/ Honest(up'[i])
  BY <1>1, <1>4, CommandsSent
<1>6. store' \in Version /\ store' # None /\ Follows(store', call.request)
  BY <1>2, <1>3, Same
<1>7. TypeOK'
  BY <1>1, <1>3, <1>5, <1>6 DEF TypeOK
<1>8. Queued'
  BY <1>3 DEF Journaled, Queued
<1>9. Newest' = store' /\ (Attached' <=> Attached) /\ Updates' = Updates
      /\ (Live' <=> Live) /\ Current' = Current
  BY <1>3 DEF Newest, Attached, Updates, IsUpdate, Live, Current
<1>10. Accepted'
  <2>1. CASE Written
    <3>1. /\ Follows(disk, call.request)
          /\ running # None => Follows(running, call.request)
          /\ next # None => Follows(next, call.request)
      BY <1>1, <1>2, FollowsOn, Same DEF Journaled, Accepted, Held, VersionTypes
    <3> QED
      BY <1>3, <1>6, <2>1, <3>1 DEF Accepted, Held
  <2>2. CASE ~Written /\ call.wait
    <3>1. running = None /\ next = None
      BY <2>2 DEF Complete, Journaled, Queued
    <3> QED
      BY <1>2, <1>3, <1>6, <2>2, <3>1 DEF Accepted, Held
  <2>3. CASE ~Written /\ ~call.wait
    <3>1. store = call.request
      BY <1>1, <2>3 DEF Journaled, Accepted
    <3>2. /\ running # None => Follows(running, call.request)
          /\ next # None => Follows(next, call.request)
      BY <1>1, <1>2, <3>1, Same DEF Journaled, Accepted, Held, VersionTypes
    <3> QED
      BY <1>2, <1>3, <1>6, <2>3, <3>1, <3>2 DEF Accepted, Held
  <2> QED
    BY <2>1, <2>2, <2>3
<1>11. Packets'
  <2>1. \A i \in Updates : Follows(store', Content(down[i]))
    BY <1>1, <1>2, <1>6, FollowsOn DEF Journaled, Packets, VersionTypes
  <2>2. \A i \in DOMAIN up' : up'[i].kind = "ack" => up'[i].rev <= disk'.rev
    BY <1>3, <1>5 DEF Journaled, Packets, Honest
  <2> QED
    BY <1>3, <1>9, <2>1, <2>2 DEF Journaled, Packets
<1>12. ASSUME Live' PROVE Leading'
  <2>1. Leading
    BY <1>2, <1>9, <1>12 DEF Journaled
  <2>2. Follows(store', Current)
    BY <1>1, <1>2, <1>6, <2>1, FollowsOn DEF Leading, VersionTypes
  <2> QED
    BY <1>3, <1>9, <2>1, <2>2 DEF Leading
<1> QED
  BY <1>2, <1>3, <1>7, <1>8, <1>9, <1>10, <1>11, <1>12 DEF Journaled, Unopened

LEMMA ClientDies ==
    ASSUME Journaled, ClientLost
    PROVE  Journaled'
<1> USE DEF fileVars
<1>1. TypeOK /\ VersionTypes /\ bound' = 0 /\ ~Live' /\ ~player'
  BY VersionsTyped DEF Journaled, ClientLost, Erase, Live
<1>2. down' = <<>> /\ up' = <<>> /\ DOMAIN down' = {} /\ DOMAIN up' = {}
  BY DEF ClientLost
<1>3. TypeOK'
  <2>1. epoch' \in 0..MaxSessions /\ revision' \in Nat /\ rewards' \subseteq Quests
        /\ bound' \in 0..MaxSessions /\ joined' \in 0..MaxSessions /\ faults' \in 0..MaxFaults
    BY <1>1 DEF Erase, ClientLost, TypeOK
  <2>2. progress' \in State /\ published' \in State /\ acked' \in State \cup {None}
    BY FreshState DEF Erase, ClientLost
  <2>3. awaiting' \in BOOLEAN /\ paused' \in BOOLEAN /\ player' \in BOOLEAN
        /\ busy' \in BOOLEAN /\ trouble' \in BOOLEAN /\ recent' \in BOOLEAN
    BY DEF Erase, ClientLost
  <2>4. store' = None /\ call' = None /\ next' = None /\ running' = None
        /\ disk' = disk /\ saved' = saved
    BY DEF ClientLost
  <2>5. down' \in Seq(Snapshot \cup Save) /\ up' \in Seq(Command)
    BY <1>2, EmptySeq
  <2> QED
    BY <1>1, <2>1, <2>2, <2>3, <2>4, <2>5 DEF TypeOK
<1>4. ~Attached' /\ Updates' = {} /\ bound' <= joined'
  BY <1>1, <1>2 DEF Attached, Updates, ClientLost, TypeOK
<1>5. Queued' /\ Accepted' /\ Packets' /\ Unopened'
  BY <1>1, <1>2, <1>4 DEF Queued, Accepted, Held, Packets, Unopened, ClientLost
<1> QED
  BY <1>1, <1>3, <1>4, <1>5 DEF Journaled

----------------------------------------------------------------------------
(* The worker. *)
LEMMA WorkerTakes ==
    ASSUME Journaled, Take \/ Stop
    PROVE  Journaled'
<1> USE DEF WorkerStep, hostVars, clientVars
<1>1. TypeOK /\ VersionTypes /\ busy /\ running = None
  BY VersionsTyped DEF Journaled, Take, Stop
<1>2. /\ UNCHANGED <<hostVars, down, up, clientVars, recent, disk, saved, faults, trouble>>
      /\ next' = None /\ running' = next /\ busy' \in BOOLEAN
      /\ next # None => busy'
  BY <1>1 DEF Take, Stop
<1>3. TypeOK'
  BY <1>1, <1>2 DEF TypeOK
<1>4. Queued'
  BY <1>1, <1>2 DEF Journaled, Queued
<1>5. Accepted'
  BY <1>1, <1>2 DEF Journaled, Accepted, Held, Attached
<1>6. Updates' = Updates /\ Transfers' = Transfers /\ (Attached' <=> Attached)
      /\ Newest' = Newest /\ (Live' <=> Live) /\ Current' = Current
  BY <1>2 DEF Updates, IsUpdate, Transfers, Attached, Newest, Live, Current
<1>7. Packets' /\ Unopened'
  BY <1>2, <1>6 DEF Journaled, Packets, Unopened
<1>8. ASSUME (Live /\ awaiting)' PROVE Waiting'
  BY <1>1, <1>2, <1>6, <1>8 DEF Journaled, Waiting
<1>9. ASSUME (Live /\ ~awaiting)' PROVE Leading'
  BY <1>2, <1>6, <1>9 DEF Journaled, Leading
<1> QED
  BY <1>2, <1>3, <1>4, <1>5, <1>6, <1>7, <1>8, <1>9 DEF Journaled

LEMMA WrittenFile ==
    ASSUME Journaled, Write
    PROVE  disk' \in {disk, running} /\ disk' \in Version /\ Follows(disk, disk')
<1>1. disk \in Version /\ running \in Version /\ Follows(disk, running)
  BY VersionsTyped DEF Journaled, Queued, Write, VersionTypes
<1>2. Follows(disk, disk)
  BY <1>1, Same
<1> QED
  BY <1>1, <1>2 DEF Write

LEMMA WorkerWrites ==
    ASSUME Journaled, Write \/ WriteFails
    PROVE  Journaled'
<1> USE DEF WorkerStep, hostVars, clientVars
<1>1. TypeOK /\ VersionTypes /\ running # None /\ busy
  BY VersionsTyped DEF Journaled, Queued, Write, WriteFails
<1>2. disk' \in {disk, running} /\ disk' \in Version /\ Follows(disk, disk')
  BY <1>1, WrittenFile, Same DEF WriteFails, VersionTypes
<1>3. /\ UNCHANGED <<hostVars, down, up, clientVars, recent, saved, busy, next>>
      /\ running' = None /\ trouble' \in BOOLEAN /\ faults' \in 0..MaxFaults
  <2>1. UNCHANGED <<hostVars, down, up, clientVars, recent, saved, busy, next>>
        /\ running' = None
    BY DEF Write, WriteFails
  <2>2. trouble' \in BOOLEAN
    BY DEF Write, WriteFails
  <2>3. faults' \in 0..MaxFaults
    <3>1. faults \in 0..MaxFaults /\ MaxFaults \in Nat
      BY <1>1 DEF TypeOK
    <3>2. faults' = faults \/ (faults < MaxFaults /\ faults' = faults + 1)
      BY DEF Write, WriteFails
    <3> QED
      BY <3>1, <3>2
  <2> QED
    BY <2>1, <2>2, <2>3
<1>4. TypeOK'
  BY <1>1, <1>2, <1>3 DEF TypeOK
<1>5. Queued'
  BY <1>1, <1>2, <1>3 DEF Journaled, Queued
<1>6. Updates' = Updates /\ Transfers' = Transfers /\ (Attached' <=> Attached)
      /\ Newest' = Newest /\ (Live' <=> Live) /\ Current' = Current
  BY <1>3 DEF Updates, IsUpdate, Transfers, Attached, Newest, Live, Current
<1>7. Accepted'
  BY <1>1, <1>2, <1>3 DEF Journaled, Accepted, Held, Attached
<1>8. Packets' /\ Unopened'
  <2>1. disk.rev <= disk'.rev
    BY <1>2 DEF Follows
  <2>2. \A i \in DOMAIN up : up[i].kind = "ack" => up[i].rev \in Nat
    <3>1. \A i \in DOMAIN up : up[i] \in Command
      BY <1>1 DEF TypeOK
    <3> QED
      BY <3>1 DEF Command
  <2>3. \A i \in DOMAIN up' : up'[i].kind = "ack" => up'[i].rev <= disk'.rev
    BY <1>1, <1>2, <1>3, <2>1, <2>2 DEF Journaled, Packets, VersionTypes, Version
  <2> QED
    BY <1>3, <1>6, <2>3 DEF Journaled, Packets, Unopened
<1>9. ASSUME (Live /\ awaiting)' PROVE Waiting'
  BY <1>1, <1>3, <1>6, <1>9 DEF Journaled, Waiting
<1>10. ASSUME (Live /\ ~awaiting)' PROVE Leading'
  <2>1. Leading
    BY <1>3, <1>6, <1>10 DEF Journaled
  <2>2. Follows(disk', Current)
    BY <1>1, <1>2, <2>1 DEF Leading
  <2>3. acked # None => Grows(acked, disk'.state)
    BY <1>1, <1>2, <2>1, GrowsOn DEF Leading, VersionTypes, Version, Follows
  <2> QED
    BY <1>3, <1>6, <2>1, <2>2, <2>3 DEF Leading
<1> QED
  BY <1>3, <1>4, <1>5, <1>6, <1>7, <1>8, <1>9, <1>10 DEF Journaled

\* Time passes.
LEMMA NothingMoves ==
    ASSUME Journaled, recent' \in BOOLEAN,
           UNCHANGED <<hostVars, down, up, clientVars, busy, next, running, trouble,
                       fileVars, faults>>
    PROVE  Journaled'
<1> USE DEF hostVars, clientVars, fileVars
<1>1. TypeOK'
  BY DEF Journaled, TypeOK
<1>2. Queued' /\ Accepted'
  BY DEF Journaled, Queued, Accepted, Held, Attached
<1>3. Updates' = Updates /\ Transfers' = Transfers /\ (Attached' <=> Attached)
      /\ Newest' = Newest /\ (Live' <=> Live) /\ Current' = Current
  BY DEF Updates, IsUpdate, Transfers, Attached, Newest, Live, Current
<1>4. Packets' /\ Unopened'
  BY <1>3 DEF Journaled, Packets, Unopened
<1>5. ((Live /\ awaiting)' => Waiting') /\ ((Live /\ ~awaiting)' => Leading')
  BY <1>3 DEF Journaled, Waiting, Leading
<1> QED
  BY <1>1, <1>2, <1>3, <1>4, <1>5 DEF Journaled

----------------------------------------------------------------------------
(* The steps of the host. *)
LEMMA NoSaves == <<>> \in Seq(Save)
BY EmptySeq

LEMMA KindsOf ==
    ASSUME NEW kind, Arrived(kind), TypeOK
    PROVE  /\ Live /\ up # <<>> /\ up' = Tail(up) /\ FewerCommands
           /\ Head(up) \in Command /\ Head(up).kind = kind /\ Head(up).session = epoch
BY CommandTaken DEF Arrived

\* Steps that send nothing on.
LEMMA HostListens ==
    ASSUME Journaled, OnAck \/ OnFailed \/ OnStale \/ OnUnsafe
    PROVE  Journaled'
<1>1. TypeOK /\ VersionTypes /\ Grows(progress, progress)
  BY VersionsTyped, SameGrows DEF Journaled, VersionTypes
<1>2. FewerCommands
  BY <1>1, CommandTaken DEF OnAck, OnFailed, OnStale, OnUnsafe, Arrived
<1>3. UNCHANGED <<epoch, joined, progress, published, revision, awaiting, rewards, down,
                  clientVars, workerVars, fileVars, faults>>
  BY DEF OnAck, OnFailed, OnStale, OnUnsafe, HostOnly, hostVars
<1>4. paused' \in BOOLEAN
  BY <1>1 DEF OnAck, OnFailed, OnStale, OnUnsafe, TypeOK, hostVars
<1>5. ASSUME acked' # acked
      PROVE  acked' = published /\ ~awaiting /\ Grows(published, disk.state)
  <2>1. OnAck /\ AckMatches /\ acked' = published
    BY <1>5 DEF OnAck, OnFailed, OnStale, OnUnsafe, hostVars
  <2>2. up # <<>> /\ Head(up).kind = "ack" /\ Head(up).rev = revision /\ Live /\ ~awaiting
    BY <2>1 DEF OnAck, Arrived, AckMatches
  <2>3. up \in Seq(Command)
    BY <1>1 DEF TypeOK
  <2>4. 1 \in DOMAIN up /\ Head(up) = up[1]
    BY <2>2, <2>3, QueueHead
  <2>5. revision <= disk.rev
    BY <2>2, <2>4 DEF Journaled, Packets
  <2>6. Follows(disk, Current)
    BY <2>2 DEF Journaled, Leading
  <2>7. disk = Current
    BY <1>1, <2>5, <2>6, SameVersion DEF VersionTypes, Current
  <2>8. disk.state = published
    BY <2>7 DEF Current
  <2> QED
    BY <1>1, <2>1, <2>2, <2>8, SameGrows DEF VersionTypes
<1>6. rewards' \subseteq Quests /\ progress' \in State /\ Grows(progress, progress')
      /\ Boundary(progress') = Boundary(progress)
  BY <1>1, <1>3 DEF TypeOK
<1> QED
  BY <1>2, <1>3, <1>4, <1>5, <1>6, HostNotes

\* The game observes what its players do.
LEMMA HostObserves ==
    ASSUME Journaled, (\E got \in SUBSET Quests : Observe(got)) \/ Saved
    PROVE  Journaled'
<1>1. TypeOK /\ VersionTypes /\ Live /\ FewerCommands
      /\ progress \in State /\ Grows(progress, progress)
  BY VersionsTyped, SameGrows, CommandsKept DEF Journaled, VersionTypes, Observe, Saved
<1>2. /\ UNCHANGED <<epoch, joined, acked, awaiting, paused, clientVars, workerVars,
                     fileVars, faults>>
      /\ rewards' \subseteq Quests
  BY <1>1 DEF Observe, Saved, HostOnly, TypeOK
<1>3. ASSUME NEW got \in SUBSET Quests, Observe(got)
      PROVE  Journaled'
  <2> DEFINE s == IF awaiting THEN progress ELSE Evident(progress, got)
  <2>1. s \in State /\ (~awaiting => Grows(progress, s))
    BY <1>1, EvidentGrows
  <2>2. Send(s, FALSE, <<>>)
    BY <1>3 DEF Observe
  <2> HIDE DEF s
  <2> QED
    BY <1>1, <1>2, <2>1, <2>2, NoSaves, HostSends
<1>4. CASE Saved
  <2> DEFINE save == [kind |-> "save", rewards |-> rewards, rev |-> revision']
  <2>1. Send(progress, TRUE, <<save>>)
    BY <1>4 DEF Saved
  <2>2. revision' \in Nat
    BY <1>1, <2>1 DEF Send, Revise, VersionTypes
  <2>3. save \in Save
    BY <1>1, <2>2 DEF Save, TypeOK
  <2> HIDE DEF save
  <2>4. <<save>> \in Seq(Save)
    BY <2>3
  <2> QED
    BY <1>1, <1>2, <2>1, <2>4, HostSends
<1> QED
  BY <1>3, <1>4

LEMMA HostKills ==
    ASSUME Journaled, Kill
    PROVE  Journaled'
<1>1. TypeOK /\ VersionTypes /\ Live /\ ~awaiting /\ FewerCommands /\ progress \in State
  BY VersionsTyped, CommandsKept DEF Journaled, VersionTypes, Kill
<1> DEFINE kills == progress.kills + 1
           t == [progress EXCEPT !.kills = kills]
           s == Evident(t, Slain(kills))
<1>2. t \in State /\ Grows(progress, t) /\ t.completed = progress.completed
      /\ t.ready = progress.ready /\ t.closed = progress.closed
      /\ t.uncertain = progress.uncertain
  <2>1. kills \in 0..MaxKills /\ progress.kills <= kills
    BY <1>1, StateFields DEF Kill
  <2> HIDE DEF kills
  <2> QED
    BY <1>1, <2>1, StateFields DEF State, Grows
<1> HIDE DEF t
<1>3. Slain(kills) \in SUBSET Quests
  BY DEF Slain
<1>4. s \in State /\ Grows(t, s) /\ s.uncertain = t.uncertain /\ s.closed = t.closed
  <2>1. s \in State /\ Grows(t, s) /\ s.uncertain = t.uncertain
    BY <1>2, <1>3, EvidentGrows
  <2>2. s.closed = t.closed
    BY <1>2, <1>3, EvidentCloses
  <2> QED
    BY <2>1, <2>2
<1>5. /\ IF s.completed # progress.completed \/ s.ready # progress.ready
         THEN Send(s, FALSE, <<>>)
         ELSE progress' = s /\ UNCHANGED <<published, revision, down>>
      /\ UNCHANGED <<epoch, joined, acked, awaiting, paused, rewards, up, clientVars,
                     workerVars, fileVars, faults>>
  BY DEF Kill, HostOnly, t
<1> HIDE DEF s, kills
<1>6. Grows(progress, s)
  BY <1>1, <1>2, <1>4, GrowsOn
<1>7. rewards' \subseteq Quests /\ paused' \in BOOLEAN
  BY <1>1, <1>5 DEF TypeOK
<1>8. CASE s.completed # progress.completed \/ s.ready # progress.ready
  BY <1>1, <1>4, <1>5, <1>6, <1>7, <1>8, NoSaves, HostSends
<1>9. CASE ~(s.completed # progress.completed \/ s.ready # progress.ready)
  <2>1. Boundary(s) = Boundary(progress)
    BY <1>2, <1>4, <1>9 DEF Boundary
  <2>2. progress' = s /\ UNCHANGED <<published, revision, down>>
    BY <1>5, <1>9
  <2>3. acked' = acked
    BY <1>5
  <2> QED
    BY <1>1, <1>4, <1>5, <1>6, <1>7, <2>1, <2>2, <2>3, HostNotes
<1> QED
  BY <1>8, <1>9

\* Rewards and recipes.
LEMMA HostRewards ==
    ASSUME Journaled, NEW q \in Quests, TurnIn(q) \/ ObjectiveRecipe(q)
    PROVE  Journaled'
<1>1. TypeOK /\ VersionTypes /\ Live /\ ~awaiting /\ FewerCommands
      /\ progress \in State /\ Grows(progress, progress) /\ q = progress.completed + 1
  BY VersionsTyped, CommandsKept, SameGrows
     DEF Journaled, VersionTypes, TurnIn, ObjectiveRecipe, Begins, Durable
<1>2. /\ UNCHANGED <<epoch, joined, acked, awaiting, paused, clientVars, workerVars,
                     fileVars, faults>>
      /\ rewards' \in {rewards, rewards \cup {q}}
  BY DEF TurnIn, ObjectiveRecipe, HostOnly
<1>3. rewards' \subseteq Quests
  BY <1>1, <1>2 DEF TypeOK
<1>4. \E s \in {Claimed(progress), progress, Locked(progress), Evident(progress, {q})} :
        Send(s, FALSE, <<>>)
  BY DEF TurnIn, ObjectiveRecipe
<1>5. \A s \in {Claimed(progress), progress, Locked(progress), Evident(progress, {q})} :
        s \in State /\ Grows(progress, s)
  BY <1>1, ClaimedGrows, LockedGrows, EvidentGrows
<1> QED
  BY <1>1, <1>2, <1>3, <1>4, <1>5, NoSaves, HostSends

\* The commands of the journal page.
LEMMA HostServes ==
    ASSUME Journaled, OnStart \/ OnReward
    PROVE  Journaled'
<1>1. TypeOK /\ VersionTypes /\ Live /\ up # <<>> /\ up' = Tail(up) /\ FewerCommands
      /\ Head(up) \in Command /\ progress \in State /\ Grows(progress, progress)
  BY VersionsTyped, CommandTaken, SameGrows
     DEF Journaled, VersionTypes, OnStart, OnReward, Arrived
<1>2. UNCHANGED <<epoch, joined, acked, awaiting, paused, clientVars, workerVars,
                  fileVars, faults>>
  BY DEF OnStart, OnReward, HostOnly
<1>3. CASE ~(Durable /\ ~progress.uncertain)
  <2>1. UNCHANGED <<progress, published, revision, down, rewards>>
    BY <1>3 DEF OnStart, OnReward
  <2>2. paused' \in BOOLEAN /\ rewards' \subseteq Quests /\ acked' = acked
        /\ progress' \in State /\ Grows(progress, progress')
        /\ Boundary(progress') = Boundary(progress)
    BY <1>1, <1>2, <2>1 DEF TypeOK
  <2> QED
    BY <1>1, <1>2, <2>1, <2>2, HostNotes
<1>4. CASE Durable /\ ~progress.uncertain
  <2>1. ~awaiting
    BY <1>4 DEF Durable
  <2>2. CASE OnStart
    <3> DEFINE t == [progress EXCEPT !.closed = TRUE]
               s == IF progress.closed THEN progress ELSE Advance(t)
    <3>1. Send(s, FALSE, <<>>) /\ rewards' = rewards
      BY <1>4, <2>2 DEF OnStart
    <3>2. t \in State /\ Grows(progress, t)
      <4>1. t \in State /\ t.closed
        BY <1>1 DEF State
      <4>2. /\ t.completed = progress.completed /\ t.kills = progress.kills
            /\ t.evidence = progress.evidence
        BY <1>1 DEF State
      <4>3. t.ready = progress.ready /\ t.uncertain = progress.uncertain
        BY <1>1 DEF State
      <4> HIDE DEF t
      <4> QED
        BY <1>1, <4>1, <4>2, <4>3, StateFields DEF Grows
    <3> HIDE DEF t
    <3>3. s \in State /\ Grows(progress, s)
      BY <1>1, <3>2, AdvanceGrows, GrowsOn
    <3> HIDE DEF s
    <3>4. rewards' \subseteq Quests
      BY <1>1, <3>1 DEF TypeOK
    <3> QED
      BY <1>1, <1>2, <2>1, <3>1, <3>3, <3>4, NoSaves, HostSends
  <2>3. CASE OnReward
    <3> DEFINE q == Head(up).quest
    <3>1. \/ Claimable(q) /\ rewards' = rewards \cup {q} /\ Send(Advance(Claimed(progress)), FALSE, <<>>)
          \/ rewards' = rewards /\ Send(progress, FALSE, <<>>)
      BY <1>4, <2>3 DEF OnReward
    <3>2. CASE Claimable(q) /\ rewards' = rewards \cup {q} /\ Send(Advance(Claimed(progress)), FALSE, <<>>)
      <4>1. q \in Quests /\ q = progress.completed + 1
        BY <3>2 DEF Claimable
      <4>2. Claimed(progress) \in State /\ Grows(progress, Claimed(progress))
        BY <1>1, <4>1, ClaimedGrows
      <4>3. Advance(Claimed(progress)) \in State
            /\ Grows(progress, Advance(Claimed(progress)))
        BY <1>1, <4>2, AdvanceGrows, GrowsOn
      <4>4. rewards' \subseteq Quests
        BY <1>1, <3>2, <4>1 DEF TypeOK
      <4> QED
        BY <1>1, <1>2, <2>1, <3>2, <4>3, <4>4, NoSaves, HostSends
    <3>3. CASE rewards' = rewards /\ Send(progress, FALSE, <<>>)
      <4>1. rewards' \subseteq Quests
        BY <1>1, <3>3 DEF TypeOK
      <4> QED
        BY <1>1, <1>2, <2>1, <3>3, <4>1, NoSaves, HostSends
    <3> QED
      BY <3>1, <3>2, <3>3
  <2> QED
    BY <2>2, <2>3
<1> QED
  BY <1>3, <1>4

LEMMA HostLeaves ==
    ASSUME Journaled, Removed \/ HostLost
    PROVE  Journaled'
<1>1. TypeOK /\ Len(down) \in Nat
  BY LenProperties DEF Journaled, TypeOK
<1>2. CASE Removed
  <2>1. 0 \in 0..Len(down) /\ down' = down /\ Erase /\ faults' \in 0..MaxFaults
        /\ UNCHANGED <<joined, up, clientVars, workerVars, fileVars>>
    BY <1>1, <1>2 DEF Removed, HostOnly, TypeOK
  <2> QED
    BY <2>1, SessionEnds
<1>3. CASE HostLost
  <2>1. PICK n \in 0..Len(down) : down' = SubSeq(down, 1, n)
    BY <1>3 DEF HostLost
  <2>2. Erase /\ faults' \in 0..MaxFaults
        /\ UNCHANGED <<joined, up, clientVars, workerVars, fileVars>>
    BY <1>1, <1>3 DEF HostLost, TypeOK
  <2> QED
    BY <2>1, <2>2, SessionEnds
<1> QED
  BY <1>2, <1>3

----------------------------------------------------------------------------
(* The steps of the client. *)
LEMMA Refusals ==
    ASSUME TypeOK, NEW ses \in 1..MaxSessions
    PROVE  Honest(FailedOf(ses)) /\ FailedOf(ses) \in Command
BY DEF Honest, FailedOf, Command

LEMMA ReceivesAwaiting ==
    ASSUME Journaled, ReceiveAwaiting
    PROVE  Journaled'
<1> USE DEF ClientStep
<1> DEFINE p == Head(down)
<1>1. /\ TypeOK /\ VersionTypes /\ call = None /\ down # <<>> /\ down' = Tail(down)
      /\ p.kind = "snapshot" /\ UNCHANGED <<player, call, hostVars, fileVars, faults>>
  BY VersionsTyped DEF Journaled, ReceiveAwaiting
<1>2. FewerPackets /\ 1 \in DOMAIN down /\ p = down[1] /\ p \in Snapshot \cup Save
  BY <1>1, PacketTaken
<1>3. p.session = joined /\ joined \in 1..MaxSessions
  BY <1>1, <1>2 DEF Journaled, Packets, Snapshot, Save
<1>4. player' \in BOOLEAN /\ (player' => player) /\ saved' \subseteq Quests
      /\ disk' = disk /\ faults' = faults
  BY <1>1 DEF TypeOK, fileVars
<1>5. \/ ~player /\ UNCHANGED <<up, store, bound, workerVars>>
      \/ /\ player /\ bound = p.session /\ store # None
         /\ Reply(TransferOf(p, store))
         /\ UNCHANGED <<store, bound, workerVars>>
      \/ /\ player /\ (bound # p.session \/ store = None) /\ LeaseFree
         /\ store' = disk /\ bound' = p.session /\ trouble' = FALSE /\ recent' = TRUE
         /\ Reply(TransferOf(p, disk)) /\ UNCHANGED <<busy, next, running>>
      \/ /\ player /\ (bound # p.session \/ store = None) /\ Detach /\ store' = None
         /\ Reply(FailedOf(p.session)) /\ UNCHANGED <<bound, running, trouble, recent>>
  BY DEF ReceiveAwaiting
<1> HIDE DEF p
<1>6. CASE ~player /\ UNCHANGED <<up, store, bound, workerVars>>
  BY <1>1, <1>2, <1>4, <1>6, ClientReads DEF Answers
<1>7. CASE /\ player /\ bound = p.session /\ store # None
           /\ Reply(TransferOf(p, store))
           /\ UNCHANGED <<store, bound, workerVars>>
  <2> DEFINE c == TransferOf(p, store)
  <2>1. Attached
    BY <1>3, <1>7 DEF Attached
  <2>2. c \in Command /\ c.kind = "transfer" /\ c.content = store
    BY <1>1, <1>3, <1>7 DEF TransferOf, Command, VersionTypes
  <2>3. Live /\ awaiting => store = disk
    BY <1>7, <2>1 DEF Journaled, Waiting
  <2>4. Honest(c)
    BY <2>1, <2>2, <2>3 DEF Honest
  <2>5. up' = Append(up, c)
    BY <1>7 DEF Reply
  <2> HIDE DEF c
  <2>6. Answers
    BY <2>2, <2>4, <2>5 DEF Answers
  <2> QED
    BY <1>1, <1>2, <1>4, <1>7, <2>6, ClientReads
<1>8. CASE /\ player /\ (bound # p.session \/ store = None) /\ LeaseFree
           /\ store' = disk /\ bound' = p.session /\ trouble' = FALSE /\ recent' = TRUE
           /\ Reply(TransferOf(p, disk)) /\ UNCHANGED <<busy, next, running>>
  <2>1. up' = Append(up, TransferOf(p, disk))
    BY <1>8 DEF Reply
  <2>2. p = Head(down) /\ p.kind = "snapshot"
    BY <1>1 DEF p
  <2> QED
    BY <1>1, <1>8, <2>1, <2>2, StoreOpens
<1>9. CASE /\ player /\ (bound # p.session \/ store = None) /\ Detach /\ store' = None
           /\ Reply(FailedOf(p.session)) /\ UNCHANGED <<bound, running, trouble, recent>>
  <2>1. ~Attached
    BY <1>3, <1>9 DEF Journaled, Accepted, Attached
  <2>2. ~Attached'
    BY <1>1, <1>9, <2>1 DEF Attached, hostVars
  <2>3. Answers
    BY <1>1, <1>3, <1>9, Refusals DEF Answers, Reply
  <2>4. bound' \in {0, bound}
    BY <1>9
  <2> QED
    BY <1>1, <1>2, <1>9, <2>1, <2>2, <2>3, <2>4, ClientDetaches
<1> QED
  BY <1>5, <1>6, <1>7, <1>8, <1>9

LEMMA ReceivesUpdate ==
    ASSUME Journaled, ReceiveUpdate
    PROVE  Journaled'
<1> DEFINE p == Head(down)
           value == [rev |-> p.rev, state |-> p.state]
<1>1. TypeOK /\ VersionTypes /\ Arriving /\ call = None /\ down # <<>> /\ down' = Tail(down)
      /\ UNCHANGED <<player, bound, hostVars, fileVars>>
  BY VersionsTyped DEF Journaled, ReceiveUpdate, Arriving
<1>2. FewerPackets
  BY <1>1, PacketTaken
<1>3. value = Content(Head(down))
  BY DEF Content
<1>4. value \in Version /\ Attached /\ bound \in 1..MaxSessions
      /\ p \in Snapshot /\ (next # None => busy) /\ trouble \in BOOLEAN
      /\ recent \in BOOLEAN /\ busy \in BOOLEAN /\ faults \in 0..MaxFaults
      /\ player \in BOOLEAN
  BY <1>1, <1>3, UpdateArrives DEF Attached, TypeOK, Journaled, Queued
<1>5. \/ /\ Older(value) /\ Reply(FailedOf(bound))
         /\ UNCHANGED <<store, call, workerVars, faults>>
      \/ /\ disk = value /\ Reply(AckOf(p))
         /\ UNCHANGED <<store, call, workerVars, faults>>
      \/ /\ store' = value
         /\ next' = IF next # None THEN value ELSE None
         /\ up' = IF trouble /\ player THEN Append(up, FailedOf(bound)) ELSE up
         /\ UNCHANGED <<call, busy, running, trouble, recent, faults>>
      \/ \E wait \in BOOLEAN :
         /\ store' = IF wait THEN store ELSE value
         /\ recent' = TRUE
         /\ Start(value)
         /\ call' = [request |-> value, wait |-> wait, live |-> player]
         /\ UNCHANGED <<up, running>>
  <2>1. Waits(p, value) \in BOOLEAN
    BY DEF Waits
  <2> HIDE DEF value, p
  <2> QED
    BY <2>1 DEF ReceiveUpdate, value, p
<1> HIDE DEF value, p
<1>6. CASE /\ Older(value) /\ Reply(FailedOf(bound))
           /\ UNCHANGED <<store, call, workerVars, faults>>
  <2>1. Answers
    BY <1>1, <1>4, <1>6, Refusals DEF Answers, Reply
  <2>2. saved' \subseteq Quests /\ disk' = disk
    BY <1>1 DEF TypeOK, fileVars
  <2> QED
    BY <1>1, <1>2, <1>4, <1>6, <2>1, <2>2, ClientReads
<1>7. CASE /\ disk = value /\ Reply(AckOf(p))
           /\ UNCHANGED <<store, call, workerVars, faults>>
  <2>1. p.rev = disk.rev
    BY <1>7 DEF value
  <2>2. AckOf(p) \in Command /\ Honest(AckOf(p))
    BY <1>1, <1>4, <2>1 DEF AckOf, Command, Honest, VersionTypes, Version
  <2>3. Answers
    BY <1>7, <2>2 DEF Answers, Reply
  <2>4. saved' \subseteq Quests /\ disk' = disk
    BY <1>1 DEF TypeOK, fileVars
  <2> QED
    BY <1>1, <1>2, <1>4, <1>7, <2>3, <2>4, ClientReads
<1>8. CASE /\ store' = value
           /\ next' = IF next # None THEN value ELSE None
           /\ up' = IF trouble /\ player THEN Append(up, FailedOf(bound)) ELSE up
           /\ UNCHANGED <<call, busy, running, trouble, recent, faults>>
  <2>1. Answers
    BY <1>1, <1>4, <1>8, Refusals DEF Answers
  <2>2. next' \in {None, next, value} /\ (next' # None => busy')
    BY <1>4, <1>8
  <2>3. call' = None
    BY <1>1, <1>8
  <2>4. UNCHANGED <<player, bound, hostVars, running, fileVars>>
    BY <1>1, <1>8
  <2>5. busy' \in BOOLEAN /\ (busy => busy') /\ trouble' \in BOOLEAN /\ recent' \in BOOLEAN
        /\ faults' \in 0..MaxFaults
    BY <1>4, <1>8
  <2> QED
    BY <1>1, <1>3, <1>8, <2>1, <2>2, <2>3, <2>4, <2>5, UpdateTaken
<1>9. ASSUME NEW wait \in BOOLEAN,
             store' = IF wait THEN store ELSE value,
             recent' = TRUE, Start(value),
             call' = [request |-> value, wait |-> wait, live |-> player],
             UNCHANGED <<up, running>>
      PROVE  Journaled'
  <2>1. Answers
    BY <1>9 DEF Answers
  <2>2. next' \in {None, next, value} /\ (next' # None => busy') /\ (busy => busy')
    BY <1>4, <1>9 DEF Start
  <2>3. busy' \in BOOLEAN /\ trouble' \in BOOLEAN /\ recent' \in BOOLEAN
    BY <1>4, <1>9 DEF Start
  <2>4. faults' \in 0..MaxFaults
    <3>1. faults' = faults \/ (faults < MaxFaults /\ faults' = faults + 1)
      BY <1>9 DEF Start
    <3>2. MaxFaults \in Nat
      OBVIOUS
    <3> QED
      BY <1>4, <3>1, <3>2
  <2>5. call' \in Calls /\ call'.request = value /\ call'.wait = wait
    BY <1>4, <1>9 DEF Calls
  <2>6. store' = IF call'.wait THEN store ELSE value
    BY <1>9, <2>5
  <2>7. UNCHANGED <<player, bound, hostVars, running, fileVars>>
    BY <1>1, <1>9
  <2> QED
    BY <1>1, <1>3, <2>1, <2>2, <2>3, <2>4, <2>5, <2>6, <2>7, UpdateTaken
<1> QED
  BY <1>5, <1>6, <1>7, <1>8, <1>9

\* The client reads a packet that changes nothing it keeps, its player asks or
\* goes.
LEMMA ClientListens ==
    ASSUME Journaled,
           ReceiveDropped \/ SaveArrives \/ SubmitStart \/ UnitGone
             \/ \E q \in Quests : SubmitReward(q)
    PROVE  Journaled'
<1> USE DEF ClientStep, clientVars
<1>1. TypeOK /\ VersionTypes
  BY VersionsTyped DEF Journaled
<1>2. CASE ReceiveDropped \/ SaveArrives
  <2>1. down # <<>> /\ down' = Tail(down) /\ up' = up
        /\ UNCHANGED <<hostVars, player, store, bound, call, workerVars, disk, faults>>
    BY <1>2 DEF ReceiveDropped, SaveArrives, fileVars
  <2>2. saved' \subseteq Quests
    <3>1. CASE ReceiveDropped
      BY <1>1, <3>1 DEF ReceiveDropped, fileVars, TypeOK
    <3>2. CASE SaveArrives
      BY <1>1, <2>1, <3>2, PacketTaken DEF SaveArrives, Snapshot, Save
    <3> QED
      BY <1>2, <3>1, <3>2
  <2>3. FewerPackets /\ Answers
    BY <1>1, <2>1, PacketTaken DEF Answers
  <2>4. player' \in BOOLEAN /\ (player' => player)
    BY <1>1, <2>1 DEF TypeOK
  <2> QED
    BY <2>1, <2>2, <2>3, <2>4, ClientReads
<1>3. ASSUME NEW command \in Command, command.kind \in {"start", "reward"}, Submit(command)
      PROVE  Journaled'
  <2>1. up' = Append(up, command) /\ down' = down
        /\ UNCHANGED <<hostVars, player, store, bound, call, workerVars, disk, saved, faults>>
    BY <1>3 DEF Submit, fileVars
  <2>2. Honest(command)
    BY <1>3 DEF Honest
  <2>3. FewerPackets /\ Answers
    BY <1>1, <1>3, <2>1, <2>2, PacketsKept DEF Answers
  <2>4. player' \in BOOLEAN /\ (player' => player) /\ saved' \subseteq Quests
    BY <1>1, <2>1 DEF TypeOK
  <2> QED
    BY <2>1, <2>3, <2>4, ClientReads
<1>4. CASE SubmitStart \/ \E q \in Quests : SubmitReward(q)
  <2>1. PICK command : /\ Submit(command)
                       /\ \/ command = [kind |-> "start", session |-> bound]
                          \/ \E q \in Quests :
                               command = [kind |-> "reward", session |-> bound, quest |-> q]
    BY <1>4 DEF SubmitStart, SubmitReward
  <2>2. bound \in 1..MaxSessions
    BY <1>1, <2>1 DEF Submit, TypeOK
  <2>3. command \in Command /\ command.kind \in {"start", "reward"}
    BY <2>1, <2>2 DEF Command
  <2> QED
    BY <1>3, <2>1, <2>3
<1>5. CASE UnitGone
  <2>1. player' = FALSE /\ up' = up /\ down' = down
        /\ UNCHANGED <<hostVars, store, bound, call, workerVars, disk, saved, faults>>
    BY <1>5 DEF UnitGone, fileVars
  <2>2. FewerPackets /\ Answers
    BY <1>1, <2>1, PacketsKept DEF Answers
  <2>3. player' \in BOOLEAN /\ ~player' /\ saved' \subseteq Quests
    BY <1>1, <2>1 DEF TypeOK
  <2> QED
    BY <2>1, <2>2, <2>3, ClientReads
<1> QED
  BY <1>2, <1>4, <1>5

LEMMA BindingExpires ==
    ASSUME Journaled, Expire
    PROVE  Journaled'
<1>1. TypeOK /\ call = None /\ Detach /\ store' = None /\ bound' = 0 /\ ~player
      /\ down' = down /\ up' = up
      /\ UNCHANGED <<hostVars, player, call, running, trouble, recent, fileVars, faults>>
  BY DEF Journaled, Expire, ClientStep
<1>2. FewerPackets /\ Answers
  BY <1>1, PacketsKept DEF Answers
<1>3. ~Attached'
  BY <1>1 DEF Attached
<1> QED
  BY <1>1, <1>2, <1>3, ClientDetaches

----------------------------------------------------------------------------
(* The invariant. *)
LEMMA Beginning ==
    Init => Journaled
<1> SUFFICES ASSUME Init PROVE Journaled
  OBVIOUS
<1>1. down = <<>> /\ up = <<>> /\ DOMAIN down = {} /\ DOMAIN up = {}
  BY DEF Init
<1>2. ~Live /\ ~Attached /\ Updates = {} /\ bound <= joined
  BY <1>1 DEF Init, Live, Attached, Updates
<1>3. disk \in Version
  BY FreshState DEF Init, Version
<1>4. TypeOK
  <2>1. epoch \in 0..MaxSessions /\ joined \in 0..MaxSessions /\ revision \in Nat
        /\ rewards \subseteq Quests /\ saved \subseteq Quests /\ bound \in 0..MaxSessions
        /\ faults \in 0..MaxFaults
    BY DEF Init
  <2>2. progress \in State /\ published \in State /\ acked = None
    BY FreshState DEF Init
  <2>3. awaiting \in BOOLEAN /\ paused \in BOOLEAN /\ player \in BOOLEAN
        /\ busy \in BOOLEAN /\ trouble \in BOOLEAN /\ recent \in BOOLEAN
    BY DEF Init
  <2>4. store = None /\ call = None /\ next = None /\ running = None
    BY DEF Init
  <2>5. down \in Seq(Snapshot \cup Save) /\ up \in Seq(Command)
    BY <1>1, EmptySeq
  <2> QED
    BY <1>3, <2>1, <2>2, <2>3, <2>4, <2>5 DEF TypeOK
<1>5. Queued /\ Accepted /\ Packets /\ Unopened
  BY <1>1, <1>2 DEF Init, Queued, Accepted, Held, Packets, Unopened
<1> QED
  BY <1>2, <1>4, <1>5 DEF Journaled

LEMMA Stepping ==
    ASSUME Journaled, [Next]_vars
    PROVE  Journaled'
<1>1. CASE UNCHANGED vars
  BY <1>1, NothingMoves
     DEF vars, hostVars, clientVars, workerVars, fileVars, Journaled, TypeOK
<1>2. CASE Elapse
  BY <1>2, NothingMoves DEF Elapse
<1>3. CASE Next /\ ~Elapse
  BY <1>3, GamesBegin, HostKills, HostObserves, HostLeaves, HostRewards, ClientListens,
     HostLoads, HostListens, HostServes, ReceivesAwaiting, ReceivesUpdate, UpdateEnds,
     BindingExpires, ClientDies, WorkerTakes, WorkerWrites
     DEF Next, Handle, ClientHook, Receive, Worker
<1> QED
  BY <1>1, <1>2, <1>3

\* Every copy of the journal, in memory, in a queue, in a packet or on disk, is a
\* version of one history, and each is behind the next: file, worker, client,
\* packets, host.  It holds whatever write fails, whatever packet or process is
\* lost and whenever the binding expires (QuestJournal.cpp,
\* QuestJournalProgressStore.h).
THEOREM JournaledAlways == Spec => []Journaled
<1>1. Journaled /\ [Next]_vars => Journaled'
  BY Stepping
<1> QED
  BY <1>1, Beginning, PTL DEF Spec

LEMMA DurableOnDisk ==
    ASSUME Journaled
    PROVE  DurableIsOnDisk
<1> SUFFICES ASSUME Live, Durable PROVE Boundary(disk.state) = Boundary(progress)
  BY DEF DurableIsOnDisk
<1>1. TypeOK /\ VersionTypes /\ Leading /\ acked # None
      /\ Boundary(acked) = Boundary(progress) /\ Boundary(progress) = Boundary(published)
  BY VersionsTyped DEF Journaled, Durable, Leading
<1>2. acked \in State /\ disk.state \in State /\ published \in State
  BY <1>1 DEF VersionTypes, Version
<1>3. Grows(acked, disk.state) /\ Grows(disk.state, published)
  BY <1>1 DEF Leading, Follows, Current
<1>4. Boundary(acked) = Boundary(published)
  BY <1>1
<1>5. /\ acked.completed = published.completed
      /\ (acked.ready <=> published.ready) /\ (acked.closed <=> published.closed)
      /\ (acked.uncertain <=> published.uncertain)
  BY <1>4 DEF Boundary
<1>6. disk.state.completed = published.completed
  BY <1>2, <1>3, <1>5, StateFields DEF Grows
<1>7. (disk.state.ready <=> published.ready) /\ (disk.state.closed <=> published.closed)
      /\ (disk.state.uncertain <=> published.uncertain)
  BY <1>3, <1>5, <1>6 DEF Grows
<1>8. /\ disk.state.ready = published.ready /\ disk.state.closed = published.closed
      /\ disk.state.uncertain = published.uncertain
  BY <1>2, <1>7, StateFields
<1>9. Boundary(disk.state) = Boundary(published)
  BY <1>6, <1>8 DEF Boundary
<1> QED
  BY <1>1, <1>9

\* A claim boundary that the host takes for durable is on the player's disk
\* (Durable, Command 8, QuestJournal.cpp).
THEOREM DurableClaimsAreOnDisk == Spec => []DurableIsOnDisk
BY DurableOnDisk, JournaledAlways, PTL

\* The file never goes back (Store::Commit, the lease of Store::Open).
THEOREM FileNeverGoesBack == Spec => NoRollback
<1> DEFINE Forward ==
        /\ disk'.rev >= disk.rev
        /\ disk'.state.completed >= disk.state.completed
        /\ disk'.state.kills >= disk.state.kills
        /\ disk.state.evidence \subseteq disk'.state.evidence
<1>1. Journaled /\ [Next]_vars => [Forward]_disk
  <2> SUFFICES ASSUME Journaled, [Next]_vars, disk' # disk PROVE Forward
    OBVIOUS
  <2>1. Write
    BY DEF Next, vars, hostVars, clientVars, workerVars, fileVars, Join, Kill, Saved, Removed,
       HostLost, Observe, TurnIn, ObjectiveRecipe, SubmitReward, SubmitStart, Submit, Handle,
       OnTransfer, OnAck, OnFailed, OnStart, OnReward, OnStale, OnUnsafe, HostOnly, ClientStep,
       ClientHook, Receive, ReceiveAwaiting, ReceiveDropped, ReceiveUpdate, Complete,
       SaveArrives, UnitGone, Expire, ClientLost, Worker, Take, Stop, WriteFails, WorkerStep,
       Elapse
  <2>2. Follows(disk, disk') /\ disk \in Version /\ disk' \in Version
    BY <2>1, WrittenFile, VersionsTyped DEF Journaled, VersionTypes
  <2> QED
    BY <2>2, StateFields DEF Follows, Grows, Version
<1> QED
  BY <1>1, JournaledAlways, PTL DEF Spec, NoRollback

----------------------------------------------------------------------------
(* Rewards. *)
LEMMA AccountedGrows ==
    ASSUME NEW s \in State, NEW t \in State, Grows(s, t)
    PROVE  Accounted(s) \subseteq Accounted(t) /\ Accounted(t) \subseteq Quests
BY StateFields DEF Accounted, Grows, Quests

LEMMA RecordedIsAccounted == Recorded = Accounted(disk.state)
BY DEF Recorded, Accounted

LEMMA FileAccounts ==
    ASSUME TypeOK, TypeOK', Follows(disk, disk')
    PROVE  Recorded \subseteq Recorded' /\ disk.rev <= disk'.rev
<1>1. disk.state \in State /\ disk'.state \in State /\ Grows(disk.state, disk'.state)
      /\ disk.rev <= disk'.rev
  BY DEF TypeOK, Version, Follows
<1> QED
  BY <1>1, AccountedGrows DEF Recorded, Accounted

\* At most one reward is not on disk.
LEMMA Ahead ==
    ASSUME NEW x, (rewards \ Recorded)' \subseteq {x}
    PROVE  OneRewardAhead'
<1> DEFINE open == (rewards \ Recorded)'
<1> HIDE DEF open
<1>1. IsFiniteSet({x}) /\ Cardinality({x}) = 1
  BY FS_Singleton
<1>2. open \subseteq {x}
  BY DEF open
<1>3. IsFiniteSet(open) /\ Cardinality(open) <= 1
  BY <1>1, <1>2, FS_Subset
<1> QED
  BY <1>3 DEF OneRewardAhead, open

LEMMA AheadStays ==
    ASSUME TypeOK, OneRewardAhead, Recorded \subseteq Recorded', rewards' \subseteq rewards,
           Live' => Live
    PROVE  OneRewardAhead'
<1> DEFINE old == rewards \ Recorded
           new == (rewards \ Recorded)'
<1>1. IsFiniteSet(Quests) /\ old \subseteq Quests /\ new \subseteq old
  <2>1. 1 \in Int /\ N \in Int
    OBVIOUS
  <2>2. IsFiniteSet(Quests)
    BY <2>1, FS_Interval DEF Quests
  <2> QED
    BY <2>2 DEF TypeOK
<1> HIDE DEF old, new
<1>2. IsFiniteSet(old) /\ IsFiniteSet(new) /\ Cardinality(new) <= Cardinality(old)
  BY <1>1, FS_Subset
<1>3. Cardinality(old) \in Nat /\ Cardinality(new) \in Nat
  BY <1>2, FS_CardinalityType
<1>4. Live => Cardinality(old) <= 1
  BY DEF OneRewardAhead, old
<1>5. Live' => Cardinality(new) <= 1
  BY <1>2, <1>3, <1>4
<1> QED
  BY <1>5 DEF OneRewardAhead, new

\* The character and what it is accounted for in are left alone, or its state grows.
LEMMA GrantsStay ==
    ASSUME Journaled, Granted, Recorded \subseteq Recorded', saved' \subseteq Recorded',
           rewards' = rewards, epoch' = epoch, awaiting' = awaiting,
           progress' \in State, ~awaiting => Grows(progress, progress')
    PROVE  Granted'
<1>1. TypeOK /\ progress \in State /\ (Live' <=> Live)
  BY DEF Journaled, TypeOK, Live
<1>2. OneRewardAhead'
  BY <1>1, AheadStays DEF Granted
<1>3. Live /\ ~awaiting => rewards' \subseteq Accounted(progress')
  BY <1>1, AccountedGrows DEF Granted
<1> QED
  BY <1>1, <1>2, <1>3 DEF Granted

\* A reward that the host grants is the first that is not on disk.
LEMMA DurableRewards ==
    ASSUME Journaled, Granted, Live, Durable
    PROVE  rewards \subseteq Recorded
<1>1. Boundary(disk.state) = Boundary(progress) /\ ~awaiting
  BY DurableOnDisk DEF DurableIsOnDisk, Durable
<1>2. disk.state.uncertain = progress.uncertain /\ disk.state.completed = progress.completed
  BY <1>1 DEF Boundary
<1> QED
  BY <1>1, <1>2 DEF Granted, Recorded, Accounted

\* Packets that were sent keep their place.
LEMMA SavesStay ==
    ASSUME TypeOK, TypeOK', SavesBacked, call' = call,
           Recorded \subseteq Recorded', disk.rev <= disk'.rev,
           \A i \in DOMAIN down : i \in DOMAIN down' => down'[i] = down[i],
           \A i \in DOMAIN down' :
              i \in DOMAIN down \/ down'[i].kind # "save" \/ Backed(i)'
    PROVE  SavesBacked'
<1>1. /\ Len(down) \in Nat /\ DOMAIN down = 1..Len(down)
      /\ Len(down') \in Nat /\ DOMAIN down' = 1..Len(down')
      /\ \A i \in DOMAIN down : down[i] \in Snapshot \cup Save
  <2>1. down \in Seq(Snapshot \cup Save)
    BY DEF TypeOK
  <2>2. down' \in Seq(Snapshot \cup Save)
    BY DEF TypeOK
  <2> QED
    BY <2>1, <2>2, LenProperties, ElementOfSeq
<1>2. ASSUME NEW i \in DOMAIN down', down'[i].kind = "save"
      PROVE  Backed(i)'
  <2>1. CASE i \notin DOMAIN down
    BY <1>2, <2>1
  <2>2. CASE i \in DOMAIN down
    <3>1. down'[i] = down[i] /\ Backed(i) /\ down[i] \in Save
      BY <1>1, <1>2, <2>2 DEF SavesBacked, Snapshot, Save
    <3>2. OnDisk(down[i]) => OnDisk(down[i])'
      <4>1. disk.rev \in Nat /\ disk'.rev \in Nat /\ down[i].rev \in Nat
        BY <3>1 DEF TypeOK, Version, Save
      <4> QED
        BY <3>1, <4>1 DEF OnDisk
    <3>3. i > 1 => i - 1 \in DOMAIN down /\ i - 1 \in DOMAIN down' /\ down'[i - 1] = down[i - 1]
      BY <1>1, <1>2, <2>2
    <3> QED
      BY <3>1, <3>2, <3>3 DEF Backed, OnDisk, IsUpdate, Carries, Content, Accounted
  <2> QED
    BY <2>1, <2>2
<1> QED
  BY <1>2 DEF SavesBacked

\* The client takes a packet; a save behind it needs it no longer.
LEMMA SavesMoveUp ==
    ASSUME TypeOK, SavesBacked, call = None, down # <<>>, down' = Tail(down), disk' = disk,
           \A save : IsUpdate(Head(down)) /\ Head(down).flush
                       /\ Carries(Content(Head(down)), save)
                       => \/ OnDisk(save)
                          \/ call' # None /\ call'.wait /\ Carries(call'.request, save)
    PROVE  SavesBacked'
<1>1. down \in Seq(Snapshot \cup Save)
  BY DEF TypeOK
<1>2. /\ Len(down) \in Nat /\ DOMAIN down = 1..Len(down) /\ 1 \in DOMAIN down
      /\ Head(down) = down[1] /\ DOMAIN Tail(down) = 1..(Len(down) - 1)
      /\ \A i \in DOMAIN Tail(down) : i + 1 \in DOMAIN down /\ Tail(down)[i] = down[i + 1]
  BY <1>1, QueueHead
<1>3. ASSUME NEW i \in DOMAIN down', down'[i].kind = "save"
      PROVE  Backed(i)'
  <2>1. i \in Nat /\ i >= 1 /\ i + 1 \in DOMAIN down /\ down'[i] = down[i + 1]
    BY <1>2, <1>3
  <2>2. Backed(i + 1)
    BY <1>3, <2>1 DEF SavesBacked
  <2>3. \/ OnDisk(down[i + 1])
        \/ /\ IsUpdate(down[i]) /\ down[i].flush
           /\ Carries(Content(down[i]), down[i + 1])
    <3>1. (i + 1) - 1 = i /\ i + 1 # 1
      BY <2>1
    <3> QED
      BY <2>2, <3>1 DEF Backed
  <2>4. OnDisk(down[i + 1]) => OnDisk(down[i])'
    BY <2>1 DEF OnDisk, Recorded
  <2>5. CASE i = 1
    <3>1. \/ OnDisk(down[i + 1])
          \/ call' # None /\ call'.wait /\ Carries(call'.request, down[i + 1])
      BY <1>2, <2>3, <2>5
    <3> QED
      BY <2>1, <2>4, <2>5, <3>1 DEF Backed, Carries, Accounted
  <2>6. CASE i > 1
    <3>1. i - 1 \in DOMAIN down' /\ down'[i - 1] = down[i]
      <4>1. i - 1 \in DOMAIN Tail(down) /\ (i - 1) + 1 = i
        BY <1>2, <1>3, <2>6
      <4> QED
        BY <1>2, <4>1
    <3> QED
      BY <2>1, <2>3, <2>4, <2>6, <3>1 DEF Backed, IsUpdate, Carries, Content, Accounted
  <2> QED
    BY <2>1, <2>5, <2>6
<1> QED
  BY <1>3 DEF SavesBacked

\* The host takes a command and keeps its rewards.
LEMMA HostKeepsClaims ==
    ASSUME Claims, Journaled', FewerCommands, Grows(progress, progress'),
           UNCHANGED <<epoch, joined, awaiting, rewards, down, clientVars, workerVars,
                       fileVars>>
    PROVE  Claims'
<1> USE DEF clientVars, workerVars, fileVars
<1>1. Journaled /\ Granted /\ Reached /\ Served /\ SavesBacked /\ TypeOK /\ TypeOK'
  BY DEF Claims, Journaled
<1>2. Recorded' = Recorded /\ Updates' = Updates /\ (Attached' <=> Attached)
      /\ (Live' <=> Live)
  BY DEF Recorded, Updates, IsUpdate, Attached, Live
<1>3. Granted'
  <2>1. saved' \subseteq Recorded' /\ Recorded \subseteq Recorded' /\ progress' \in State
    BY <1>1, <1>2 DEF Granted, TypeOK
  <2> QED
    BY <1>1, <2>1, GrantsStay
<1>4. Transfers' # {} => Transfers # {}
  BY DEF FewerCommands, Transfers
<1>5. Reached' /\ Served'
  BY <1>1, <1>2, <1>4 DEF Reached, Served
<1>6. SavesBacked'
  <2>1. disk.rev <= disk'.rev
    BY <1>1 DEF TypeOK, Version
  <2> QED
    BY <1>1, <1>2, <2>1, SavesStay
<1> QED
  BY <1>3, <1>5, <1>6 DEF Claims

\* The host sends its state, and a save of the game right behind it.
LEMMA HostSendsClaims ==
    ASSUME Claims, Journaled', Live, FewerCommands,
           NEW s \in State, NEW flush \in BOOLEAN, NEW behind, Send(s, flush, behind),
           \/ behind = <<>>
           \/ /\ flush /\ rewards' = rewards
              /\ behind = <<[kind |-> "save", rewards |-> rewards, rev |-> revision']>>,
           awaiting => rewards' = rewards,
           ~awaiting => rewards' \subseteq Accounted(s),
           OneRewardAhead',
           UNCHANGED <<epoch, joined, awaiting, clientVars, workerVars, fileVars>>
    PROVE  Claims'
<1> USE DEF clientVars, workerVars, fileVars
<1>1. Journaled /\ Granted /\ Reached /\ Served /\ SavesBacked /\ TypeOK /\ TypeOK'
      /\ VersionTypes
  BY VersionsTyped DEF Claims, Journaled
<1>2. Recorded' = Recorded /\ (Attached' <=> Attached) /\ Live'
  BY DEF Recorded, Attached, Live
<1> DEFINE p == Packet(s, revision', awaiting, flush)
           save == [kind |-> "save", rewards |-> rewards, rev |-> revision']
<1>3. progress' = s /\ Emit(<<p>> \o behind) /\ revision' \in Nat
      /\ (awaiting => revision' = revision)
  BY <1>1 DEF Send, TypeOK
<1>4. p \in Snapshot /\ p.kind = "snapshot" /\ p.awaiting = awaiting
      /\ p.flush = flush /\ p.rev = revision' /\ p.state = s
  <2>1. epoch \in 1..MaxSessions /\ awaiting \in BOOLEAN
    BY <1>1 DEF TypeOK, Live
  <2> QED
    BY <1>3, <2>1 DEF Packet, Snapshot
<1>5. save \in Save /\ save.kind = "save" /\ save.rewards = rewards /\ save.rev = revision'
  BY <1>1, <1>3 DEF Save, TypeOK
<1> HIDE DEF p, save
<1>6. behind \in Seq(Save) /\ (behind = <<>> \/ (flush /\ rewards' = rewards /\ behind = <<save>>))
  <2>1. behind = <<>> \/ (flush /\ rewards' = rewards /\ behind = <<save>>)
    BY DEF save
  <2>2. <<save>> \in Seq(Save) /\ <<>> \in Seq(Save)
    BY <1>5, EmptySeq
  <2> QED
    BY <2>1, <2>2
<1>7. /\ Len(down) \in Nat /\ DOMAIN down = 1..Len(down)
      /\ DOMAIN down' = 1..(Len(down) + 1 + Len(behind)) /\ Len(behind) \in Nat
      /\ \A i \in DOMAIN down : down'[i] = down[i]
      /\ down'[Len(down) + 1] = p
      /\ \A i \in DOMAIN down' : i > Len(down) + 1 => down'[i] = behind[i - Len(down) - 1]
  BY <1>1, <1>3, <1>4, <1>6, Emission
<1>8. Granted'
  BY <1>1, <1>2, <1>3 DEF Granted
<1>9. Reached'
  <2>1. Transfers' # {} => Transfers # {}
    BY DEF FewerCommands, Transfers
  <2>2. awaiting => Updates' = {}
    BY <1>2 DEF Journaled, Waiting
  <2> QED
    BY <1>1, <1>2, <2>1, <2>2 DEF Reached
<1>10. Served'
  BY <1>1 DEF Served
<1>11. ASSUME NEW j \in DOMAIN down', j \notin DOMAIN down, down'[j].kind = "save"
       PROVE  Backed(j)'
  <2>1. j # Len(down) + 1
    BY <1>4, <1>7, <1>11
  <2>2. behind = <<save>> /\ flush /\ rewards' = rewards /\ j = Len(down) + 2
    <3>1. Len(behind) # 0
      BY <1>7, <1>11, <2>1
    <3>2. behind # <<>>
      BY <3>1
    <3>3. behind = <<save>> /\ flush /\ rewards' = rewards
      BY <1>6, <3>2
    <3>4. Len(behind) = 1
      BY <3>3
    <3> QED
      BY <1>7, <1>11, <2>1, <3>3, <3>4
  <2>3. down'[j] = save
    <3>1. j > Len(down) + 1 /\ j - Len(down) - 1 = 1
      BY <1>7, <2>2
    <3>2. down'[j] = behind[1]
      BY <1>7, <1>11, <3>1
    <3> QED
      BY <2>2, <3>2
  <2>4. CASE awaiting
    <3>1. revision' = 0 /\ 0 <= disk.rev
      BY <1>1, <1>3, <2>4 DEF Journaled, Waiting, VersionTypes, Version
    <3>2. rewards \subseteq Recorded
      BY <1>1, <2>4 DEF Granted
    <3>3. OnDisk(down[j])'
      BY <1>2, <1>5, <2>3, <3>1, <3>2 DEF OnDisk
    <3> QED
      BY <3>3 DEF Backed
  <2>5. CASE ~awaiting
    <3>1. j > 1 /\ down'[j - 1] = p
      <4>1. j - 1 = Len(down) + 1 /\ j > 1
        BY <1>7, <2>2
      <4> QED
        BY <1>7, <4>1
    <3>2. save.rewards \subseteq Accounted(p.state) /\ p.rev = save.rev
      BY <1>4, <1>5, <2>2, <2>5
    <3>3. IsUpdate(p) /\ p.flush
      BY <1>4, <2>2, <2>5 DEF IsUpdate
    <3>4. (IsUpdate(down[j - 1]) /\ down[j - 1].flush)'
      BY <3>1, <3>3 DEF IsUpdate
    <3>5. Carries(Content(down[j - 1]), down[j])'
      BY <2>3, <3>1, <3>2 DEF Carries, Content, Accounted
    <3> QED
      BY <3>1, <3>4, <3>5 DEF Backed
  <2> QED
    BY <2>4, <2>5
<1>12. SavesBacked'
  <2>1. disk.rev <= disk'.rev
    BY <1>1 DEF VersionTypes, Version
  <2> QED
    BY <1>1, <1>2, <1>7, <1>11, <2>1, SavesStay
<1> QED
  BY <1>8, <1>9, <1>10, <1>12 DEF Claims

\* The journal arrives: its claims become the session's.
LEMMA LoadsClaims ==
    ASSUME Claims, Journaled', OnTransfer
    PROVE  Claims'
<1> USE DEF clientVars, workerVars, fileVars, HostOnly
<1>1. Journaled /\ Granted /\ Reached /\ Served /\ SavesBacked /\ TypeOK /\ TypeOK'
      /\ VersionTypes /\ Live /\ up # <<>> /\ up' = Tail(up) /\ FewerCommands
  BY VersionsTyped, CommandTaken DEF Claims, Journaled, OnTransfer, Arrived
<1>2. UNCHANGED <<epoch, joined, rewards, clientVars, workerVars, fileVars>>
  BY DEF OnTransfer
<1>3. CASE ~Expected
  <2>1. UNCHANGED <<progress, awaiting, down>>
    BY <1>3 DEF OnTransfer
  <2>2. Grows(progress, progress')
    BY <1>1, <2>1, SameGrows DEF VersionTypes
  <2> QED
    BY <1>1, <1>2, <2>1, <2>2, HostKeepsClaims
<1>4. CASE Expected
  <2>1. awaiting /\ Waiting
    BY <1>1, <1>4 DEF Expected, Journaled
  <2>2. 1 \in Transfers /\ Head(up) = up[1]
    <3>1. up \in Seq(Command)
      BY <1>1 DEF TypeOK
    <3>2. 1 \in DOMAIN up /\ Head(up) = up[1]
      BY <1>1, <3>1, QueueHead
    <3> QED
      BY <3>2 DEF Transfers, OnTransfer, Arrived
  <2>3. Head(up).content = disk /\ Attached
    BY <1>1, <2>1, <2>2 DEF Waiting, Reached
  <2> DEFINE p == Packet(Advance(disk.state), revision', FALSE, FALSE)
  <2>4. awaiting' = FALSE /\ progress' = Advance(disk.state) /\ Emit(<<p>>)
    BY <1>4, <2>3 DEF OnTransfer
  <2>5. disk.state \in State /\ progress' \in State /\ Grows(disk.state, progress')
    BY <1>1, <2>4, AdvanceGrows DEF VersionTypes, Version
  <2>6. p \in Snapshot /\ p.kind = "snapshot"
    <3>1. epoch \in 1..MaxSessions /\ revision' \in Nat /\ Advance(disk.state) \in State
      BY <1>1, <2>4, <2>5 DEF TypeOK, Live
    <3> QED
      BY <3>1 DEF Packet, Snapshot
  <2> HIDE DEF p
  <2>7. Emit(<<p>> \o <<>>)
    <3>1. <<p>> \in Seq(Snapshot)
      BY <2>6
    <3>2. <<p>> \o <<>> = <<p>>
      BY <3>1, ConcatEmptySeq
    <3> QED
      BY <2>4, <3>2
  <2>8. <<>> \in Seq(Save) /\ Len(<<>>) = 0
    BY EmptySeq
  <2>9. /\ Len(down) \in Nat /\ DOMAIN down = 1..Len(down)
        /\ DOMAIN down' = 1..(Len(down) + 1 + 0)
        /\ \A i \in DOMAIN down : down'[i] = down[i]
        /\ down'[Len(down) + 1] = p
    BY <1>1, <2>6, <2>7, <2>8, Emission
  <2>10. Recorded' = Recorded /\ (Attached' <=> Attached) /\ Live'
    BY <1>1, <1>2 DEF Recorded, Attached, Live
  <2>11. Granted'
    <3>1. rewards \subseteq Recorded /\ saved \subseteq Recorded
      BY <1>1, <2>1 DEF Granted
    <3>2. Recorded \subseteq Accounted(progress')
      BY <2>5, RecordedIsAccounted, AccountedGrows
    <3>3. OneRewardAhead'
      BY <1>1, <1>2, <2>10, AheadStays DEF Granted
    <3> QED
      BY <1>2, <2>4, <2>10, <3>1, <3>2, <3>3 DEF Granted
  <2>12. Reached' /\ Served'
    BY <1>1, <1>2, <2>3, <2>10 DEF Reached, Served
  <2>13. \A i \in DOMAIN down' : i \in DOMAIN down \/ down'[i].kind # "save"
    BY <2>6, <2>9
  <2>14. SavesBacked'
    <3>1. disk.rev <= disk'.rev /\ call' = call
      BY <1>1, <1>2 DEF VersionTypes, Version
    <3> QED
      BY <1>1, <2>9, <2>10, <2>13, <3>1, SavesStay
  <2> QED
    BY <2>11, <2>12, <2>14 DEF Claims
<1> QED
  BY <1>3, <1>4

\* A host that grants nothing sends what it has become.
LEMMA SendsNoReward ==
    ASSUME Claims, Journaled', Live, FewerCommands,
           NEW s \in State, ~awaiting => Grows(progress, s), NEW flush \in BOOLEAN, NEW behind,
           Send(s, flush, behind), rewards' = rewards,
           \/ behind = <<>>
           \/ flush /\ behind = <<[kind |-> "save", rewards |-> rewards, rev |-> revision']>>,
           UNCHANGED <<epoch, joined, awaiting, clientVars, workerVars, fileVars>>
    PROVE  Claims'
<1>1. Journaled /\ Granted /\ TypeOK /\ progress \in State /\ (Live' <=> Live)
  BY DEF Claims, Journaled, TypeOK, Live
<1>2. ~awaiting => rewards' \subseteq Accounted(s)
  BY <1>1, AccountedGrows DEF Granted
<1>3. OneRewardAhead'
  <2>1. Recorded' = Recorded
    BY DEF Recorded, fileVars
  <2> QED
    BY <1>1, <2>1, AheadStays DEF Granted
<1> QED
  BY <1>2, <1>3, HostSendsClaims

\* A host that grants the next reward has every earlier one on disk.
LEMMA SendsReward ==
    ASSUME Claims, Journaled', Live, FewerCommands, Durable,
           NEW s \in State, NEW q \in Quests, Send(s, FALSE, <<>>),
           rewards' \subseteq rewards \cup {q}, rewards' \subseteq Accounted(s),
           UNCHANGED <<epoch, joined, awaiting, clientVars, workerVars, fileVars>>
    PROVE  Claims'
<1>1. Journaled /\ Granted /\ ~awaiting
  BY DEF Claims, Durable
<1>2. rewards \subseteq Recorded /\ Recorded' = Recorded
  BY <1>1, DurableRewards DEF Recorded, fileVars
<1>3. OneRewardAhead'
  <2>1. (rewards \ Recorded)' \subseteq {q}
    BY <1>2
  <2> QED
    BY <2>1, Ahead
<1> QED
  BY <1>1, <1>3, HostSendsClaims

LEMMA ListensClaims ==
    ASSUME Claims, Journaled', OnAck \/ OnFailed \/ OnStale \/ OnUnsafe
    PROVE  Claims'
<1>1. TypeOK /\ VersionTypes
  BY VersionsTyped DEF Claims, Journaled
<1>2. FewerCommands
  BY <1>1, CommandTaken DEF OnAck, OnFailed, OnStale, OnUnsafe, Arrived
<1>3. UNCHANGED <<epoch, joined, progress, awaiting, rewards, down, clientVars, workerVars,
                  fileVars>>
  BY DEF OnAck, OnFailed, OnStale, OnUnsafe, HostOnly, hostVars
<1>4. Grows(progress, progress')
  BY <1>1, <1>3, SameGrows DEF VersionTypes
<1> QED
  BY <1>2, <1>3, <1>4, HostKeepsClaims

LEMMA ObservesClaims ==
    ASSUME Claims, Journaled', (\E got \in SUBSET Quests : Observe(got)) \/ Saved
    PROVE  Claims'
<1>1. TypeOK /\ Live /\ FewerCommands /\ progress \in State /\ Grows(progress, progress)
  BY VersionsTyped, SameGrows, CommandsKept DEF Claims, Journaled, VersionTypes, Observe, Saved
<1>2. UNCHANGED <<epoch, joined, rewards, awaiting, clientVars, workerVars, fileVars>>
  BY DEF Observe, Saved, HostOnly
<1>3. ASSUME NEW got \in SUBSET Quests, Observe(got)
      PROVE  Claims'
  <2> DEFINE s == IF awaiting THEN progress ELSE Evident(progress, got)
  <2>1. s \in State /\ (~awaiting => Grows(progress, s))
    BY <1>1, EvidentGrows
  <2>2. Send(s, FALSE, <<>>)
    BY <1>3 DEF Observe
  <2> HIDE DEF s
  <2> QED
    BY <1>1, <1>2, <2>1, <2>2, SendsNoReward
<1>4. CASE Saved
  <2>1. Send(progress, TRUE, <<[kind |-> "save", rewards |-> rewards, rev |-> revision']>>)
    BY <1>4 DEF Saved
  <2> QED
    BY <1>1, <1>2, <2>1, SendsNoReward
<1> QED
  BY <1>3, <1>4

LEMMA KillsClaims ==
    ASSUME Claims, Journaled', Kill
    PROVE  Claims'
<1>1. TypeOK /\ Live /\ ~awaiting /\ FewerCommands /\ progress \in State
  BY VersionsTyped, CommandsKept DEF Claims, Journaled, VersionTypes, Kill
<1> DEFINE kills == progress.kills + 1
           t == [progress EXCEPT !.kills = kills]
           s == Evident(t, Slain(kills))
<1>2. t \in State /\ Grows(progress, t)
  <2>1. kills \in 0..MaxKills /\ progress.kills <= kills
    BY <1>1, StateFields DEF Kill
  <2> HIDE DEF kills
  <2> QED
    BY <1>1, <2>1, StateFields DEF State, Grows
<1> HIDE DEF t
<1>3. Slain(kills) \in SUBSET Quests
  BY DEF Slain
<1>4. s \in State /\ Grows(progress, s)
  BY <1>1, <1>2, <1>3, EvidentGrows, GrowsOn
<1>5. /\ Send(s, FALSE, <<>>) \/ (progress' = s /\ UNCHANGED <<published, revision, down>>)
      /\ UNCHANGED <<epoch, joined, awaiting, rewards, clientVars, workerVars, fileVars>>
  BY DEF Kill, HostOnly, t
<1> HIDE DEF s, kills
<1>6. CASE Send(s, FALSE, <<>>)
  BY <1>1, <1>4, <1>5, <1>6, SendsNoReward
<1>7. CASE progress' = s /\ UNCHANGED <<published, revision, down>>
  BY <1>1, <1>4, <1>5, <1>7, HostKeepsClaims
<1> QED
  BY <1>5, <1>6, <1>7

LEMMA TurnsInClaims ==
    ASSUME Claims, Journaled', NEW q \in Quests, TurnIn(q) \/ ObjectiveRecipe(q)
    PROVE  Claims'
<1>1. TypeOK /\ Granted /\ Live /\ ~awaiting /\ Durable /\ FewerCommands
      /\ progress \in State /\ Grows(progress, progress) /\ q = progress.completed + 1
  BY VersionsTyped, CommandsKept, SameGrows
     DEF Claims, Journaled, VersionTypes, TurnIn, ObjectiveRecipe, Begins, Durable
<1>2. UNCHANGED <<epoch, joined, awaiting, clientVars, workerVars, fileVars>>
  BY DEF TurnIn, ObjectiveRecipe, HostOnly
<1>3. rewards \subseteq Accounted(progress)
  BY <1>1 DEF Granted
<1>4. /\ Claimed(progress) \in State /\ Grows(progress, Claimed(progress))
      /\ q \in Accounted(Claimed(progress))
  BY <1>1, ClaimedGrows DEF Accounted, Quests
<1>5. /\ Locked(progress) \in State /\ Grows(progress, Locked(progress))
      /\ Accounted(Locked(progress)) = Quests
  BY <1>1, LockedGrows DEF Accounted
<1>6. Evident(progress, {q}) \in State /\ Grows(progress, Evident(progress, {q}))
  BY <1>1, EvidentGrows
<1>7. CASE \E s \in {progress, Locked(progress), Evident(progress, {q})} :
              Send(s, FALSE, <<>>) /\ rewards' = rewards
  <2>1. PICK s \in {progress, Locked(progress), Evident(progress, {q})} :
          Send(s, FALSE, <<>>) /\ rewards' = rewards
    BY <1>7
  <2>2. s \in State /\ Grows(progress, s)
    BY <1>1, <1>5, <1>6, <2>1
  <2> QED
    BY <1>1, <1>2, <2>1, <2>2, SendsNoReward
<1>8. CASE Send(Claimed(progress), FALSE, <<>>) /\ rewards' = rewards \cup {q}
  <2>1. rewards' \subseteq Accounted(Claimed(progress))
    BY <1>1, <1>3, <1>4, <1>8, AccountedGrows
  <2> QED
    BY <1>1, <1>2, <1>4, <1>8, <2>1, SendsReward
<1>9. CASE Send(Locked(progress), FALSE, <<>>) /\ rewards' = rewards \cup {q}
  <2>1. rewards' \subseteq Accounted(Locked(progress))
    BY <1>1, <1>5, <1>9 DEF TypeOK
  <2> QED
    BY <1>1, <1>2, <1>5, <1>9, <2>1, SendsReward
<1> QED
  BY <1>7, <1>8, <1>9 DEF TurnIn, ObjectiveRecipe

LEMMA ServesClaims ==
    ASSUME Claims, Journaled', OnStart \/ OnReward
    PROVE  Claims'
<1>1. TypeOK /\ Granted /\ Live /\ FewerCommands /\ progress \in State
      /\ Grows(progress, progress)
  BY VersionsTyped, CommandTaken, SameGrows
     DEF Claims, Journaled, VersionTypes, OnStart, OnReward, Arrived
<1>2. UNCHANGED <<epoch, joined, awaiting, clientVars, workerVars, fileVars>>
  BY DEF OnStart, OnReward, HostOnly
<1>3. CASE ~(Durable /\ ~progress.uncertain)
  <2>1. UNCHANGED <<progress, down, rewards>>
    BY <1>3 DEF OnStart, OnReward
  <2> QED
    BY <1>1, <1>2, <2>1, HostKeepsClaims
<1>4. CASE OnStart /\ Durable /\ ~progress.uncertain
  <2> DEFINE t == [progress EXCEPT !.closed = TRUE]
             s == IF progress.closed THEN progress ELSE Advance(t)
  <2>1. Send(s, FALSE, <<>>) /\ rewards' = rewards
    BY <1>4 DEF OnStart
  <2>2. t \in State /\ Grows(progress, t)
    <3>1. t \in State /\ t.closed
      BY <1>1 DEF State
    <3>2. /\ t.completed = progress.completed /\ t.kills = progress.kills
          /\ t.evidence = progress.evidence
      BY <1>1 DEF State
    <3>3. t.ready = progress.ready /\ t.uncertain = progress.uncertain
      BY <1>1 DEF State
    <3> HIDE DEF t
    <3> QED
      BY <1>1, <3>1, <3>2, <3>3, StateFields DEF Grows
  <2> HIDE DEF t
  <2>3. s \in State /\ Grows(progress, s)
    BY <1>1, <2>2, AdvanceGrows, GrowsOn
  <2> HIDE DEF s
  <2> QED
    BY <1>1, <1>2, <2>1, <2>3, SendsNoReward
<1>5. CASE OnReward /\ Durable /\ ~progress.uncertain
  <2> DEFINE q == Head(up).quest
             s == Advance(Claimed(progress))
  <2>1. \/ Claimable(q) /\ rewards' = rewards \cup {q} /\ Send(s, FALSE, <<>>)
        \/ rewards' = rewards /\ Send(progress, FALSE, <<>>)
    BY <1>5 DEF OnReward
  <2>2. CASE Claimable(q) /\ rewards' = rewards \cup {q} /\ Send(s, FALSE, <<>>)
    <3>1. q \in Quests /\ q = progress.completed + 1
      BY <2>2 DEF Claimable
    <3>2. /\ Claimed(progress) \in State /\ Grows(progress, Claimed(progress))
          /\ q \in Accounted(Claimed(progress))
      BY <1>1, <3>1, ClaimedGrows DEF Accounted, Quests
    <3>3. s \in State /\ Grows(Claimed(progress), s) /\ Grows(progress, s)
      BY <1>1, <3>2, AdvanceGrows, GrowsOn
    <3> HIDE DEF s
    <3>4. rewards \subseteq Accounted(progress)
      BY <1>1, <1>5 DEF Granted, Durable
    <3>5. rewards' \subseteq Accounted(s)
      BY <1>1, <2>2, <3>2, <3>3, <3>4, AccountedGrows
    <3> QED
      BY <1>1, <1>2, <1>5, <2>2, <3>1, <3>3, <3>5, SendsReward
  <2>3. CASE rewards' = rewards /\ Send(progress, FALSE, <<>>)
    BY <1>1, <1>2, <2>3, SendsNoReward
  <2> QED
    BY <2>1, <2>2, <2>3
<1> QED
  BY <1>3, <1>4, <1>5

\* The end of a session and the beginning of one.
LEMMA LeavesClaims ==
    ASSUME Claims, Journaled', Removed \/ HostLost
    PROVE  Claims'
<1> USE DEF HostOnly, clientVars, workerVars, fileVars
<1>1. Journaled /\ Granted /\ Reached /\ Served /\ SavesBacked /\ TypeOK /\ TypeOK'
  BY DEF Claims, Journaled
<1>2. Len(down) \in Nat /\ DOMAIN down = 1..Len(down) /\ down \in Seq(Snapshot \cup Save)
  BY <1>1, LenProperties DEF TypeOK
<1>3. Erase /\ UNCHANGED <<joined, up, clientVars, workerVars, fileVars>>
  BY DEF Removed, HostLost
<1>4. ~Live' /\ Recorded' = Recorded /\ (Attached' <=> Attached)
  BY <1>3 DEF Live, Erase, Recorded, Attached
<1>5. \A i \in DOMAIN down' : i \in DOMAIN down /\ down'[i] = down[i]
  <2>1. CASE down' = down
    BY <2>1
  <2>2. CASE down' # down
    <3>1. PICK n \in 0..Len(down) : down' = SubSeq(down, 1, n)
      BY <2>2 DEF Removed, HostLost
    <3>2. n \in Int /\ \A i \in 1..n : down[i] \in Snapshot \cup Save
      BY <1>2, ElementOfSeq
    <3>3. /\ SubSeq(down, 1, n) \in Seq(Snapshot \cup Save)
          /\ Len(SubSeq(down, 1, n)) = IF 1 <= n THEN n - 1 + 1 ELSE 0
          /\ \A i \in 1..(n - 1 + 1) : SubSeq(down, 1, n)[i] = down[1 + i - 1]
      BY <3>2, SubSeqProperties
    <3>4. DOMAIN SubSeq(down, 1, n) = 1..n
      BY <3>2, <3>3, LenProperties
    <3> QED
      BY <1>2, <3>1, <3>2, <3>3, <3>4
  <2> QED
    BY <2>1, <2>2
<1>6. Granted' /\ Served'
  BY <1>1, <1>3, <1>4 DEF Granted, OneRewardAhead, Served
<1>7. Reached'
  BY <1>1, <1>4, <1>5 DEF Reached, Updates, IsUpdate
<1>8. SavesBacked'
  <2>1. disk.rev <= disk'.rev /\ call' = call
    BY <1>1, <1>3 DEF TypeOK, Version
  <2>2. \A i \in DOMAIN down : i \in DOMAIN down' => down'[i] = down[i]
    BY <1>5
  <2> QED
    BY <1>1, <1>4, <1>5, <2>1, <2>2, SavesStay
<1> QED
  BY <1>6, <1>7, <1>8 DEF Claims

LEMMA BeginsClaims ==
    ASSUME Claims, Journaled', Join
    PROVE  Claims'
<1> USE DEF workerVars, fileVars
<1>1. down' = <<>> /\ up' = <<>> /\ awaiting' /\ call' = None /\ rewards' = saved
      /\ UNCHANGED <<workerVars, fileVars>>
  <2>1. down' = <<>> /\ up' = <<>> /\ call' = None /\ rewards' = saved
        /\ UNCHANGED <<workerVars, fileVars>>
    BY DEF Join
  <2>2. awaiting'
    BY DEF Join
  <2> QED
    BY <2>1, <2>2
<1>2. Updates' = {} /\ Transfers' = {} /\ SavesBacked' /\ Served'
  BY <1>1 DEF Updates, Transfers, SavesBacked, Served
<1>3. rewards' \subseteq Recorded' /\ saved' \subseteq Recorded'
  BY <1>1 DEF Claims, Granted, Recorded
<1>4. OneRewardAhead'
  <2>1. (rewards \ Recorded)' \subseteq {1}
    BY <1>3
  <2> QED
    BY <2>1, Ahead
<1> QED
  BY <1>1, <1>2, <1>3, <1>4 DEF Claims, Granted, Reached

\* The client keeps what it has and takes a packet that is no update, or none.
LEMMA ClientKeepsClaims ==
    ASSUME Claims, Journaled', call = None, call' = None, Answers,
           \/ down' = down
           \/ down # <<>> /\ ~IsUpdate(Head(down)) /\ down' = Tail(down),
           saved' = saved \/ saved' \subseteq Recorded, disk' = disk,
           Live => (Attached => Attached'), Updates' # {} => (Attached => Attached'),
           UNCHANGED hostVars
    PROVE  Claims'
<1> USE DEF hostVars
<1>1. Journaled /\ Granted /\ Reached /\ SavesBacked /\ TypeOK /\ TypeOK' /\ VersionTypes
  BY VersionsTyped DEF Claims, Journaled
<1>2. Recorded' = Recorded /\ (Live' <=> Live)
  BY DEF Recorded, Live
<1>3. Granted'
  <2>1. saved' \subseteq Recorded' /\ Recorded \subseteq Recorded' /\ progress' \in State
        /\ Grows(progress, progress')
    BY <1>1, <1>2, SameGrows DEF Granted, VersionTypes
  <2> QED
    BY <1>1, <2>1, GrantsStay
<1>4. FewerPackets
  BY <1>1, PacketTaken, PacketsKept
<1>5. Updates' # {} => Updates # {}
  BY <1>1, <1>4, PacketsRead DEF Journaled
<1>6. Transfers' # {} => Transfers # {} \/ Attached
  <2>1. \A i \in DOMAIN up' : (\E j \in DOMAIN up : up'[i] = up[j]) \/ Honest(up'[i])
    BY <1>1, CommandsSent
  <2> QED
    BY <2>1 DEF Transfers, Honest
<1>7. Reached' /\ Served'
  BY <1>1, <1>2, <1>5, <1>6 DEF Reached, Served
<1>8. SavesBacked'
  <2>1. CASE down' = down
    <3>1. disk.rev <= disk'.rev /\ call' = call
      BY <1>1 DEF VersionTypes, Version
    <3> QED
      BY <1>1, <1>2, <2>1, <3>1, SavesStay
  <2>2. CASE down # <<>> /\ ~IsUpdate(Head(down)) /\ down' = Tail(down)
    BY <1>1, <2>2, SavesMoveUp
  <2> QED
    BY <2>1, <2>2
<1> QED
  BY <1>3, <1>7, <1>8 DEF Claims

\* An update reaches a client that still takes it.
LEMMA NothingDropped ==
    ASSUME Claims
    PROVE  ~ReceiveDropped
<1> SUFFICES ASSUME ReceiveDropped PROVE FALSE
  OBVIOUS
<1>1. Journaled /\ Reached /\ TypeOK /\ VersionTypes /\ call = None /\ down # <<>>
      /\ IsUpdate(Head(down)) /\ ~Taken(Head(down))
  BY VersionsTyped DEF Claims, Journaled, ReceiveDropped, IsUpdate
<1>2. 1 \in DOMAIN down /\ Head(down) = down[1]
  BY <1>1, PacketTaken
<1>3. 1 \in Updates
  BY <1>1, <1>2 DEF Updates
<1>4. Attached /\ store # None /\ Head(down).session = joined
  BY <1>1, <1>2, <1>3 DEF Reached, Journaled, Accepted, Packets, IsUpdate
<1>5. Follows(store, Content(Head(down)))
  BY <1>1, <1>2, <1>3, <1>4 DEF Journaled, Packets, Newest
<1>6. bound = Head(down).session /\ store.rev <= Head(down).rev
  BY <1>4, <1>5 DEF Attached, Follows, Content
<1> QED
  BY <1>1, <1>4, <1>6 DEF Taken

LEMMA AwaitsClaims ==
    ASSUME Claims, Journaled', ReceiveAwaiting
    PROVE  Claims'
<1> USE DEF ClientStep, fileVars
<1> DEFINE p == Head(down)
<1>1. /\ Journaled /\ TypeOK /\ VersionTypes /\ call = None /\ call' = None
      /\ down # <<>> /\ down' = Tail(down) /\ p.kind = "snapshot" /\ ~IsUpdate(p)
      /\ disk' = disk /\ saved' = saved /\ player' = player /\ UNCHANGED hostVars
  BY VersionsTyped DEF Claims, Journaled, ReceiveAwaiting, IsUpdate
<1>2. 1 \in DOMAIN down /\ p = down[1] /\ p \in Snapshot \cup Save
  BY <1>1, PacketTaken
<1>3. p.session = joined /\ joined \in 1..MaxSessions /\ joined' = joined
  BY <1>1, <1>2 DEF Journaled, Packets, Snapshot, Save, hostVars
<1>4. \/ bound' = bound
      \/ bound' = p.session
  BY DEF ReceiveAwaiting
<1>5. Attached => Attached'
  BY <1>3, <1>4 DEF Attached
<1> HIDE DEF p
<1>6. CASE player /\ ~Attached
  <2>1. Journaled /\ Granted /\ SavesBacked /\ (Live' <=> Live) /\ Recorded' = Recorded
    BY <1>1 DEF Claims, Live, Recorded, hostVars
  <2>2. Updates = {} /\ Transfers = {} /\ (Live => awaiting)
    BY <1>6, <2>1 DEF Journaled, Unopened
  <2>3. Updates' = {}
    <3>1. FewerPackets
      BY <1>1, PacketTaken
    <3> QED
      BY <2>1, <2>2, <3>1, PacketsRead DEF Journaled
  <2>4. Live' => awaiting'
    BY <1>1, <2>1, <2>2 DEF hostVars
  <2>5. Transfers' # {} => Attached'
    <3>1. ASSUME ~Attached' PROVE Transfers' = {}
      <4>1. player' /\ Journaled'
        BY <1>1, <1>6
      <4> QED
        BY <3>1, <4>1 DEF Journaled, Unopened
    <3> QED
      BY <3>1
  <2>6. Reached' /\ Served'
    BY <1>1, <2>3, <2>4, <2>5 DEF Reached, Served
  <2>7. Granted'
    <3>1. saved' \subseteq Recorded' /\ Recorded \subseteq Recorded' /\ progress' \in State
          /\ Grows(progress, progress')
      BY <1>1, <2>1, SameGrows DEF Granted, VersionTypes, hostVars
    <3> QED
      BY <1>1, <2>1, <3>1, GrantsStay DEF hostVars
  <2>8. SavesBacked'
    <3>1. down # <<>> /\ ~IsUpdate(Head(down)) /\ down' = Tail(down)
      BY <1>1 DEF p
    <3> QED
      BY <1>1, <2>1, <3>1, SavesMoveUp
  <2> QED
    BY <2>6, <2>7, <2>8 DEF Claims
<1>7. CASE ~player
  <2>1. up' = up
    BY <1>7 DEF ReceiveAwaiting
  <2>2. down # <<>> /\ ~IsUpdate(Head(down)) /\ down' = Tail(down)
    BY <1>1 DEF p
  <2> QED
    BY <1>1, <1>5, <2>1, <2>2, ClientKeepsClaims DEF Answers
<1>8. CASE player /\ Attached
  <2>1. store # None /\ bound = p.session
    BY <1>1, <1>3, <1>8 DEF Journaled, Accepted, Attached
  <2>2. up' = Append(up, TransferOf(p, store))
    BY <1>8, <2>1 DEF ReceiveAwaiting, Reply, p
  <2>3. TransferOf(p, store) \in Command /\ Honest(TransferOf(p, store))
    <3>1. TransferOf(p, store) \in Command
      BY <1>1, <1>3, <2>1 DEF TransferOf, Command, VersionTypes
    <3>2. Live /\ awaiting => store = disk
      BY <1>1, <1>8, <2>1 DEF Journaled, Waiting
    <3>3. TransferOf(p, store).content = store /\ TransferOf(p, store).kind = "transfer"
      BY DEF TransferOf
    <3> QED
      BY <1>8, <3>1, <3>2, <3>3 DEF Honest
  <2>4. Answers
    BY <2>2, <2>3 DEF Answers
  <2>5. down # <<>> /\ ~IsUpdate(Head(down)) /\ down' = Tail(down)
    BY <1>1 DEF p
  <2> QED
    BY <1>1, <1>5, <2>4, <2>5, ClientKeepsClaims
<1> QED
  BY <1>6, <1>7, <1>8

\* The client stores an update.  A save behind it waits for the same revision.
LEMMA UpdatesClaims ==
    ASSUME Claims, Reliable, Journaled', ReceiveUpdate
    PROVE  Claims'
<1> DEFINE p == Head(down)
           value == [rev |-> p.rev, state |-> p.state]
<1>1. Journaled /\ Granted /\ Reached /\ SavesBacked /\ TypeOK /\ TypeOK' /\ VersionTypes
      /\ Arriving /\ call = None /\ down # <<>> /\ down' = Tail(down)
      /\ UNCHANGED <<player, bound, hostVars, fileVars>>
  BY VersionsTyped DEF Claims, Journaled, ReceiveUpdate, Arriving
<1>2. value = Content(p)
  BY DEF Content
<1>3. value \in Version /\ store \in Version /\ Follows(store, value) /\ Attached
      /\ 1 \in Updates
  BY <1>1, <1>2, UpdateArrives
<1>4. ~Older(value)
  <2>1. store.state.completed <= value.state.completed /\ value.state \in State
        /\ store.state \in State /\ (value.rev = store.rev => value.state = store.state)
    BY <1>3 DEF Follows, Grows, Version
  <2> HIDE DEF value
  <2> QED
    BY <2>1, StateFields DEF Older
<1>5. \/ disk = value /\ call' = None /\ UNCHANGED <<next, running>>
      \/ ~Waits(p, value) /\ call' = None
      \/ \E wait \in BOOLEAN :
           /\ wait = Waits(p, value) /\ next' = value
           /\ call' = [request |-> value, wait |-> wait, live |-> player]
  <2>1. Waits(p, value) \in BOOLEAN
    BY DEF Waits
  <2> HIDE DEF value, p
  <2>2. \/ disk = value /\ UNCHANGED <<call, workerVars>>
        \/ ~Waits(p, value) /\ call' = call
        \/ /\ Start(value)
           /\ call' = [request |-> value, wait |-> Waits(p, value), live |-> player]
    BY <1>4 DEF ReceiveUpdate, value, p
  <2>3. Start(value) => next' = value
    BY DEF Start, Reliable
  <2> QED
    BY <1>1, <2>1, <2>2, <2>3 DEF workerVars
<1>6. p.flush => Waits(p, value)
  BY DEF Waits
<1>7. UNCHANGED <<epoch, joined, awaiting, progress, rewards, bound, disk, saved, player>>
  BY <1>1 DEF hostVars, fileVars
<1> HIDE DEF value, p
<1>8. Served'
  BY <1>5 DEF Served
<1>9. Recorded' = Recorded /\ Attached' /\ (Live' <=> Live)
  BY <1>3, <1>7 DEF Recorded, Attached, Live
<1>10. Granted'
  <2>1. saved' \subseteq Recorded' /\ Recorded \subseteq Recorded' /\ progress' \in State
        /\ Grows(progress, progress')
    BY <1>1, <1>7, <1>9, SameGrows DEF Granted, VersionTypes
  <2> QED
    BY <1>1, <1>7, <2>1, GrantsStay
<1>11. Reached'
  BY <1>9 DEF Reached
<1>12. SavesBacked'
  <2>1. ASSUME NEW save, p.flush, Carries(Content(p), save)
        PROVE  OnDisk(save) \/ (call' # None /\ call'.wait /\ Carries(call'.request, save))
    <3>1. Carries(value, save)
      BY <1>2, <2>1
    <3>2. CASE disk = value
      BY <1>3, <3>1, <3>2 DEF Carries, OnDisk, Recorded, Accounted, Version
    <3>3. CASE disk # value
      <4>1. /\ call' = [request |-> value, wait |-> TRUE, live |-> player]
        BY <1>5, <1>6, <2>1, <3>3
      <4>2. call' # None
        <5>1. call' \in Calls
          BY <1>1, <1>3, <4>1 DEF Calls, TypeOK
        <5> QED
          BY <5>1
      <4> QED
        BY <3>1, <4>1, <4>2
    <3> QED
      BY <3>2, <3>3
  <2> QED
    BY <1>1, <1>7, <2>1, SavesMoveUp DEF p
<1> QED
  BY <1>8, <1>10, <1>11, <1>12 DEF Claims

LEMMA CompletesClaims ==
    ASSUME Claims, Journaled', Complete
    PROVE  Claims'
<1> USE DEF ClientStep, hostVars, workerVars, fileVars
<1>1. Journaled /\ Granted /\ Reached /\ Served /\ SavesBacked /\ TypeOK /\ TypeOK'
      /\ VersionTypes /\ call # None
  BY VersionsTyped DEF Claims, Journaled, Complete
<1>2. /\ call.request \in Version /\ Attached /\ (Written => disk = call.request)
  BY <1>1, WrittenRequest
<1>3. call' = None
      /\ UNCHANGED <<down, player, bound, workerVars, hostVars, fileVars, faults>>
  BY DEF Complete
<1>4. call.wait => disk = call.request
  <2>1. CASE Written
    BY <1>2, <2>1
  <2>2. CASE call.wait /\ ~Written
    <3>1. running = None /\ next = None
      BY <2>2 DEF Complete, Journaled, Claims, Queued
    <3> QED
      BY <1>1, <1>2, <2>2, <3>1 DEF Served
  <2> QED
    BY <2>1, <2>2
<1>5. Recorded' = Recorded /\ Updates' = Updates /\ Attached' /\ (Live' <=> Live)
  BY <1>2, <1>3 DEF Recorded, Updates, IsUpdate, Attached, Live
<1>6. Granted'
  <2>1. saved' \subseteq Recorded' /\ Recorded \subseteq Recorded' /\ progress' \in State
        /\ Grows(progress, progress')
    BY <1>1, <1>3, <1>5, SameGrows DEF Granted, VersionTypes
  <2> QED
    BY <1>1, <1>3, <2>1, GrantsStay
<1>7. Reached' /\ Served'
  BY <1>3, <1>5 DEF Reached, Served
<1>8. SavesBacked'
  <2>1. ASSUME NEW i \in DOMAIN down, down[i].kind = "save"
        PROVE  Backed(i)'
    <3>1. Backed(i)
      BY <1>1, <2>1 DEF SavesBacked
    <3>2. OnDisk(down[i]) => OnDisk(down[i])'
      BY <1>3, <1>5 DEF OnDisk
    <3>3. call.wait /\ Carries(call.request, down[i]) => OnDisk(down[i])
      BY <1>1, <1>2, <1>4 DEF Carries, OnDisk, Recorded, Accounted, Version
    <3> QED
      BY <1>3, <3>1, <3>2, <3>3 DEF Backed, IsUpdate, Carries, Content, Accounted
  <2> QED
    BY <1>3, <2>1 DEF SavesBacked
<1> QED
  BY <1>6, <1>7, <1>8 DEF Claims

\* The other steps of the client.
LEMMA AsksClaims ==
    ASSUME Claims, Reliable, Journaled',
           SaveArrives \/ SubmitStart \/ UnitGone \/ Expire
             \/ \E q \in Quests : SubmitReward(q)
    PROVE  Claims'
<1> USE DEF ClientStep, clientVars, fileVars
<1>1. Journaled /\ TypeOK /\ SavesBacked
  BY DEF Claims, Journaled
<1>2. CASE SaveArrives
  <2>1. call = None /\ call' = None /\ down # <<>> /\ Head(down).kind = "save"
        /\ saved' = Head(down).rewards /\ down' = Tail(down)
        /\ up' = up /\ disk' = disk /\ UNCHANGED <<hostVars, bound>>
    BY <1>2 DEF SaveArrives
  <2>2. 1 \in DOMAIN down /\ Head(down) = down[1]
    BY <1>1, <2>1, PacketTaken
  <2>3. OnDisk(Head(down))
    BY <1>1, <2>1, <2>2 DEF SavesBacked, Backed
  <2>4. saved' \subseteq Recorded /\ ~IsUpdate(Head(down)) /\ Answers
        /\ (Attached => Attached')
    BY <2>1, <2>3 DEF OnDisk, IsUpdate, Answers, Attached, hostVars
  <2> QED
    BY <2>1, <2>4, ClientKeepsClaims
<1>3. CASE SubmitStart \/ \E q \in Quests : SubmitReward(q)
  <2>1. PICK command : /\ Submit(command)
                       /\ \/ command = [kind |-> "start", session |-> bound]
                          \/ \E q \in Quests :
                               command = [kind |-> "reward", session |-> bound, quest |-> q]
    BY <1>3 DEF SubmitStart, SubmitReward
  <2>2. bound \in 1..MaxSessions
    BY <1>1, <2>1 DEF Submit, TypeOK
  <2>3. command \in Command /\ command.kind \in {"start", "reward"}
    BY <2>1, <2>2 DEF Command
  <2>4. Answers
    BY <2>1, <2>3 DEF Submit, Answers, Honest
  <2>5. call = None /\ call' = None /\ down' = down /\ disk' = disk /\ saved' = saved
        /\ UNCHANGED <<hostVars, bound>>
    BY <2>1 DEF Submit
  <2>6. Attached => Attached'
    BY <2>5 DEF Attached, hostVars
  <2> QED
    BY <2>4, <2>5, <2>6, ClientKeepsClaims
<1>4. CASE UnitGone
  <2>1. call = None /\ call' = None /\ down' = down /\ disk' = disk /\ saved' = saved
        /\ up' = up /\ UNCHANGED <<hostVars, bound>>
    BY <1>4 DEF UnitGone
  <2>2. Answers /\ (Attached => Attached')
    BY <2>1 DEF Attached, Answers, hostVars
  <2> QED
    BY <2>1, <2>2, ClientKeepsClaims
<1>5. CASE Expire
  <2>1. call = None /\ call' = None /\ down = <<>> /\ down' = down /\ disk' = disk
        /\ saved' = saved /\ up' = up /\ ~Live /\ UNCHANGED hostVars
    BY <1>5 DEF Expire, Reliable
  <2>2. Answers /\ Updates' = {}
    BY <2>1 DEF Answers, Updates
  <2> QED
    BY <2>1, <2>2, ClientKeepsClaims
<1> QED
  BY <1>2, <1>3, <1>4, <1>5

LEMMA DiesClaims ==
    ASSUME Claims, Journaled', ClientLost
    PROVE  Claims'
<1> USE DEF fileVars
<1>1. Granted /\ ~Live' /\ call' = None /\ down' = <<>> /\ UNCHANGED fileVars
  BY DEF Claims, ClientLost, Erase, Live
<1>2. Updates' = {} /\ SavesBacked' /\ Served'
  BY <1>1 DEF Updates, SavesBacked, Served
<1>3. Granted'
  BY <1>1 DEF Granted, OneRewardAhead, Recorded
<1> QED
  BY <1>1, <1>2, <1>3 DEF Claims, Reached

\* The worker takes the request that is waited for, and writes it.
LEMMA WorksClaims ==
    ASSUME Claims, Reliable, Journaled', Take \/ Stop \/ Write \/ WriteFails
    PROVE  Claims'
<1> USE DEF WorkerStep, hostVars, clientVars
<1>1. Journaled /\ Granted /\ Reached /\ Served /\ SavesBacked /\ TypeOK /\ TypeOK'
      /\ VersionTypes
  BY VersionsTyped DEF Claims, Journaled
<1>2. UNCHANGED <<hostVars, down, up, clientVars, saved>>
  BY DEF Take, Stop, Write, WriteFails
<1>3. Follows(disk, disk')
  BY <1>1, WrittenFile, Same DEF Take, Stop, WriteFails, VersionTypes
<1>4. Recorded \subseteq Recorded' /\ disk.rev <= disk'.rev
  BY <1>1, <1>3, FileAccounts
<1>5. Updates' = Updates /\ Transfers' = Transfers /\ (Attached' <=> Attached)
      /\ (Live' <=> Live)
  BY <1>2 DEF Updates, IsUpdate, Transfers, Attached, Live
<1>6. Granted'
  <2>1. saved' \subseteq Recorded' /\ progress' \in State /\ Grows(progress, progress')
    BY <1>1, <1>2, <1>4, SameGrows DEF Granted, VersionTypes
  <2> QED
    BY <1>1, <1>2, <1>4, <2>1, GrantsStay
<1>7. Reached'
  BY <1>1, <1>2, <1>5 DEF Reached
<1>8. SavesBacked'
  BY <1>1, <1>2, <1>4, SavesStay
<1>9. Served'
  <2> SUFFICES ASSUME call # None, call.wait PROVE call.request \in {running', next', disk'}
    BY <1>2 DEF Served
  <2>1. /\ call.request \in Version /\ store \in Version
        /\ Follows(store, call.request) /\ call.request \in {running, next, disk}
    BY <1>1, WrittenRequest DEF Served
  <2>2. CASE Take \/ Stop
    <3>1. running = None /\ running' = next /\ disk' = disk
      BY <2>2 DEF Take, Stop
    <3> QED
      BY <2>1, <3>1
  <2>3. CASE Write
    <3>1. running \in Version /\ Follows(disk, running) /\ disk \in Version /\ next' = next
      BY <1>1, <2>3 DEF Write, Journaled, Queued, VersionTypes
    <3>2. disk' = running
      <4>1. CASE running.rev > disk.rev
        <5>1. running.state.completed >= disk.state.completed
          BY <3>1 DEF Follows, Grows, Version, State
        <5> QED
          BY <2>3, <4>1, <5>1 DEF Write, Committable
      <4>2. CASE running.rev <= disk.rev
        BY <2>3, <3>1, <4>2, SameVersion DEF Write
      <4> QED
        BY <3>1, <4>1, <4>2 DEF Version
    <3>3. disk = call.request => running = call.request
      <4>1. Follows(running, call.request)
        BY <1>1, <2>1, <2>3, <3>1, FollowsOn, Same DEF Journaled, Accepted, Held, Write
      <4> QED
        BY <2>1, <3>1, <4>1, SameVersion DEF Follows, Version
    <3> QED
      BY <2>1, <3>1, <3>2, <3>3
  <2> QED
    BY <2>2, <2>3 DEF WriteFails, Reliable
<1> QED
  BY <1>6, <1>7, <1>8, <1>9 DEF Claims

LEMMA ClaimsStay ==
    ASSUME Claims, Journaled', UNCHANGED <<hostVars, down, up, bound, call, running, next, fileVars>>
    PROVE  Claims'
BY DEF Claims, Granted, Reached, Served, SavesBacked, Backed, OnDisk, OneRewardAhead,
   Recorded, Updates, Transfers, IsUpdate, Attached, Live, hostVars, fileVars

LEMMA ClaimsBegin ==
    Init => Claims
<1> SUFFICES ASSUME Init PROVE Claims
  OBVIOUS
<1>1. Journaled
  BY Beginning
<1>2. down = <<>> /\ up = <<>> /\ call = None /\ saved = {} /\ ~Live
  BY DEF Init, Live
<1>3. DOMAIN down = {}
  BY <1>2
<1> QED
  BY <1>1, <1>2, <1>3
     DEF Claims, Granted, OneRewardAhead, Reached, Updates, Served, SavesBacked

LEMMA ClaimsStep ==
    ASSUME Claims, Reliable, [Next]_vars
    PROVE  Claims'
<1>1. Journaled'
  BY Stepping DEF Claims
<1>2. CASE UNCHANGED vars \/ Elapse
  <2>1. UNCHANGED <<hostVars, down, up, bound, call, running, next, fileVars>>
    BY <1>2 DEF vars, Elapse, hostVars, clientVars, workerVars, fileVars
  <2> QED
    BY <1>1, <2>1, ClaimsStay
<1>3. CASE Next /\ ~Elapse
  BY <1>1, <1>3, BeginsClaims, KillsClaims, ObservesClaims, LeavesClaims, TurnsInClaims,
     AsksClaims, LoadsClaims, ListensClaims, ServesClaims, AwaitsClaims, NothingDropped,
     UpdatesClaims, CompletesClaims, DiesClaims, WorksClaims
     DEF Next, Handle, ClientHook, Receive, Worker
<1> QED
  BY <1>2, <1>3

\* When writes succeed and packets arrive in time, every reward and every save of
\* the game is accounted for by a version of the journal that is on disk, written
\* next, or about to arrive (QuestJournal.cpp: Saved, Begin, Receive).
THEOREM ClaimsAlways == ASSUME Reliable PROVE Spec => []Claims
<1>1. Claims /\ [Next]_vars => Claims'
  BY ClaimsStep
<1> QED
  BY <1>1, ClaimsBegin, PTL DEF Spec

\* At most one reward in the game is not on disk as claimed (Durable, TurnIn,
\* Command 5).
THEOREM OneRewardAtATime == ASSUME Reliable PROVE Spec => []OneRewardAhead
<1>1. Claims => OneRewardAhead
  BY DEF Claims, Granted
<1> QED
  BY <1>1, ClaimsAlways, PTL

\* No character receives a reward twice, whatever host or client was lost in
\* between (Begin, Command 5).
THEOREM RewardsOnce == ASSUME Reliable PROVE Spec => []RewardOnce
<1>1. ASSUME Claims PROVE RewardOnce
  <2> SUFFICES ASSUME NEW q \in Rewarding, Begins(q), progress.ready
               PROVE  q \notin rewards
    BY DEF RewardOnce
  <2>1. rewards \subseteq Accounted(progress) /\ ~progress.uncertain
        /\ q = progress.completed + 1
    BY <1>1 DEF Begins, Durable, Claims, Granted
  <2>2. progress.completed \in Nat
    BY <1>1, StateFields DEF Claims, Journaled, TypeOK
  <2> QED
    BY <2>1, <2>2 DEF Accounted
<1> QED
  BY <1>1, ClaimsAlways, PTL

\* The journal sent before a save of the game is on disk when the client comes to
\* the save (Saved, Receive).
THEOREM JournalBeforeSave == ASSUME Reliable PROVE Spec => []SaveBarrier
<1>1. ASSUME Claims PROVE SaveBarrier
  <2> SUFFICES ASSUME down # <<>>, Head(down).kind = "save", call = None
               PROVE  disk.rev >= Head(down).rev /\ Head(down).rewards \subseteq Recorded
    BY DEF SaveBarrier
  <2>1. 1 \in DOMAIN down /\ Head(down) = down[1] /\ Head(down) \in Snapshot \cup Save
    BY <1>1, PacketTaken DEF Claims, Journaled, TypeOK
  <2>2. OnDisk(Head(down))
    BY <1>1, <2>1 DEF Claims, SavesBacked, Backed
  <2>3. disk.rev \in Nat /\ Head(down).rev \in Nat
    BY <1>1, <2>1 DEF Claims, Journaled, TypeOK, Version, Snapshot, Save
  <2> QED
    BY <2>2, <2>3 DEF OnDisk
<1> QED
  BY <1>1, ClaimsAlways, PTL

===============================================================================
