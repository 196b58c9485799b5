------------------------------- MODULE Spectate -------------------------------
(***************************************************************************)
(* Watching another player: the viewer's and the source's transports, the  *)
(* relay on the host, and the consent the game keeps there.  Sockets are   *)
(* reliable sequences that break and are opened again.  A frame has its    *)
(* stream and the number of its capture there.  The encoder chains frames  *)
(* in the order it gets them, which need not be that of their captures:    *)
(* every Gop-th one is a key frame and the others depend on the one before *)
(* them.  "Ready" stands for in the game, enabled and, on a source,        *)
(* sharing.                                                                *)
(***************************************************************************)
EXTENDS Integers, Sequences, FiniteSets, FiniteSetsExt

CONSTANTS
    NPlayers,   \* players are numbered like the ids of the game
    Sources,    \* the players that can be watched
    Gop,        \* length of a group of pictures
    Room,       \* video frames an outgoing queue holds
    MaxFrames,  \* bound: captures per stream in any scenario
    Scenarios,  \* bounds: who starts to watch at first, how often each player
                \* does something else, what goes wrong once for whom, and how
                \* many captures each stream has
    Flaps       \* a player may stop and start again before the relay refreshed

Players == 1 .. NPlayers
Viewers == Players \ Sources
Faults == {"none", "loss", "overflow", "expiry", "reset"}

ASSUME SpectateAssumption ==
    /\ {NPlayers, Gop, Room, MaxFrames} \subseteq Nat
    /\ Scenarios \subseteq [watching : SUBSET Viewers,
                      moves : [Players -> Nat], fault : [Players -> Faults],
                      frames : 1 .. MaxFrames]
    /\ Sources \subseteq Players /\ Gop > 0 /\ MaxFrames > 0
    /\ Flaps \in BOOLEAN

VARIABLES
    ready, watch, requests,               \* what the players want
    link, used, demand,                   \* a player's transport
    capture, captured, encoder,           \* its captures, their number; encoder
    incoming, picture,                    \* frames received; last one decoded
    toHost, toClient,                     \* the two directions of a socket
    allowed, authority,                   \* consent in the game; the relay's copy
    peers, live, sources, serial,         \* the relay
    moves, fault, frames                  \* what is left of a scenario

player == <<ready, watch, requests>>
video == <<capture, captured, encoder>>
host == <<authority, peers, live, sources, serial>>
vars == <<ready, watch, requests, link, used, demand, capture, captured,
          encoder, incoming, picture, toHost, toClient, allowed, authority, peers,
          live, sources, serial, moves, fault, frames>>

NoWatch == [target |-> 0, request |-> 0, profile |-> 0]
NoPicture == [stream |-> 0, n |-> 0, after |-> 0, key |-> FALSE]
NoCapture == [stream |-> 0, n |-> 0]
NoChain == [stream |-> 0, top |-> 0, place |-> 0]
NoPeer == [on |-> FALSE, ready |-> TRUE, watch |-> NoWatch]
NoSource == [stream |-> 0, profile |-> 0, viewers |-> {}, n |-> 0, key |-> FALSE]

Auth == [kind |-> "auth"]
Closed == [kind |-> "closed"]
Options(r, w) == [kind |-> "options", ready |-> r, watch |-> w]
Control(s) == [kind |-> "capture", stream |-> s]

\* after is history: the latest capture that is in the chain before this frame.
Frame(s, n, after, key) == [kind |-> "video", stream |-> s, n |-> n,
                            after |-> after, key |-> key, request |-> 0]

Wanted(p) == Options(ready[p], watch[p])
Queued(q) == Len(SelectSeq(q, LAMBDA m : m.kind = "video"))

\* Every player has joined with the HUD's channel connected; nobody watches yet.
Init ==
    /\ ready = [p \in Players |-> TRUE]
    /\ \E c \in Scenarios :
         /\ moves = c.moves /\ fault = c.fault /\ frames = c.frames
         /\ watch \in [Players -> {NoWatch} \cup [target : Sources, request : {1}, profile : {1}]]
         /\ c.watching = {v \in Players : watch[v] # NoWatch}
    /\ requests = [p \in Players |-> watch[p].request]
    /\ link = [p \in Players |-> TRUE]
    /\ used = [p \in Players |-> Options(TRUE, NoWatch)]
    /\ demand = [p \in Players |-> 0]
    /\ capture = [p \in Players |-> {}]
    /\ captured = [p \in Players |-> NoCapture]
    /\ encoder = [p \in Players |-> NoChain]
    /\ incoming = [p \in Players |-> <<>>]
    /\ picture = [p \in Players |-> NoPicture]
    /\ toHost = [p \in Players |-> <<>>]
    /\ toClient = [p \in Players |-> <<>>]
    /\ allowed = [p \in Players |-> "open"]
    /\ authority = [p \in Players |-> "open"]
    /\ peers = [p \in Players |-> [NoPeer EXCEPT !.on = TRUE]]
    /\ live = [p \in Players |-> TRUE]
    /\ sources = [p \in Players |-> NoSource]
    /\ serial = 0

Move(p) == moves[p] > 0 /\ moves' = [moves EXCEPT ![p] = @ - 1] /\ UNCHANGED <<fault, frames>>
Fault(p, f) == fault[p] = f /\ fault' = [fault EXCEPT ![p] = "none"] /\ UNCHANGED <<moves, frames>>
Free == UNCHANGED <<moves, fault, frames>>

-----------------------------------------------------------------------------
(* The players. *)

Open(v, s) ==
    /\ Move(v) /\ ready[v]
    /\ requests' = [requests EXCEPT ![v] = @ + 1]
    /\ watch' = [watch EXCEPT ![v] =
                   [target |-> s, request |-> requests'[v], profile |-> 1]]
    /\ picture' = [picture EXCEPT ![v] = NoPicture]
    /\ UNCHANGED <<ready, link, used, demand, video, incoming, toHost, toClient,
                   allowed, host>>

Close(v) ==
    /\ Move(v) /\ watch[v] # NoWatch
    /\ watch' = [watch EXCEPT ![v] = NoWatch]
    /\ picture' = [picture EXCEPT ![v] = NoPicture]
    /\ UNCHANGED <<ready, requests, link, used, demand, video, incoming, toHost,
                   toClient, allowed, host>>

Retune(v) ==
    /\ Move(v) /\ watch[v] # NoWatch
    /\ watch' = [watch EXCEPT ![v].profile = 3 - @]
    /\ UNCHANGED <<ready, requests, link, used, demand, video, incoming, picture,
                   toHost, toClient, allowed, host>>

\* The relay has taken the player out of its streams.
Settled(p) ==
    /\ used[p] = Wanted(p) /\ toHost[p] = <<>> /\ sources[p].stream = 0
    /\ \A s \in Sources : p \notin sources[s].viewers

\* What has been captured belongs to the old generation; the decoder is reset.
\* Leaving the game, not an end of sharing, also starts the count of captures anew.
Toggle(p) ==
    /\ Move(p) /\ (Flaps \/ ready[p] \/ Settled(p))
    /\ ready' = [ready EXCEPT ![p] = ~@]
    /\ capture' = [capture EXCEPT ![p] = {[c EXCEPT !.current = FALSE] : c \in @}]
    /\ captured' \in {captured, [captured EXCEPT ![p] = NoCapture]}
    /\ incoming' = [incoming EXCEPT ![p] = <<>>]
    /\ picture' = [picture EXCEPT ![p] = NoPicture]
    /\ UNCHANGED <<watch, requests, link, used, demand, encoder, toHost, toClient,
                   allowed, host>>

-----------------------------------------------------------------------------
(* The transport of a player. *)

Failed(p) ==
    /\ link' = [link EXCEPT ![p] = FALSE]
    /\ demand' = [demand EXCEPT ![p] = 0]
    /\ incoming' = [incoming EXCEPT ![p] = <<>>]
    /\ toClient' = [toClient EXCEPT ![p] = <<>>]
    /\ toHost' = [toHost EXCEPT ![p] = Append(@, Closed)]

\* The host may learn of the old socket's end first, or see the new one first.
Connect(p) ==
    /\ Free /\ ~link[p]
    /\ link' = [link EXCEPT ![p] = TRUE]
    /\ used' = [used EXCEPT ![p] = Wanted(p)]
    /\ \E old \in {toHost[p], <<>>} :
         toHost' = [toHost EXCEPT ![p] = old \o <<Auth, Wanted(p)>>]
    /\ UNCHANGED <<player, demand, video, incoming, picture, toClient, allowed, host>>

SendOptions(p) ==
    /\ Free /\ link[p] /\ used[p] # Wanted(p)
    /\ used' = [used EXCEPT ![p] = Wanted(p)]
    /\ toHost' = [toHost EXCEPT ![p] = Append(@, Wanted(p))]
    /\ incoming' = IF used[p].watch = watch[p] THEN incoming
                   ELSE [incoming EXCEPT ![p] = <<>>]
    /\ UNCHANGED <<player, link, demand, video, picture, toClient, allowed, host>>

Accepts(p, f) ==
    used[p].watch # NoWatch /\ f.request = used[p].watch.request

Take(p) == toClient' = [toClient EXCEPT ![p] = Tail(@)]

Read(p) ==
    /\ Free /\ link[p] /\ toClient[p] # <<>>
    /\ LET m == Head(toClient[p]) IN
         \/ /\ m.kind = "capture" /\ Take(p)
            /\ demand' = [demand EXCEPT ![p] = m.stream]
            /\ UNCHANGED <<link, incoming, toHost>>
         \/ /\ m.kind = "video" /\ Take(p)
            /\ incoming' = IF Accepts(p, m)
                           THEN [incoming EXCEPT ![p] = Append(@, m)] ELSE incoming
            /\ UNCHANGED <<link, demand, toHost>>
         \/ m.kind = "closed" /\ Failed(p)
    /\ UNCHANGED <<player, used, video, picture, allowed, host>>

Lose(p) ==
    /\ Fault(p, "loss") /\ link[p] /\ Failed(p)
    /\ UNCHANGED <<player, used, video, picture, allowed, host>>

-----------------------------------------------------------------------------
(* Capture and encoding at the source, decoding at the viewer. *)

Slots == 2
Taken(p) == [stream |-> demand[p],
             n |-> IF captured[p].stream = demand[p] THEN captured[p].n + 1 ELSE 1]
TakeCapture(p) ==
    /\ Free /\ ready[p] /\ demand[p] # 0 /\ Cardinality(capture[p]) < Slots
    /\ Taken(p).n <= frames
    /\ captured' = [captured EXCEPT ![p] = Taken(p)]
    /\ capture' = [capture EXCEPT ![p] = @ \cup
                      {[stream |-> demand[p], n |-> Taken(p).n,
                        current |-> TRUE, queued |-> FALSE]}]
    /\ UNCHANGED <<player, link, used, demand, encoder, incoming, picture, toHost,
                   toClient, allowed, host>>

\* The GPU finishes captures in their order, but the slots are looked at one after
\* the other and each reads the fence: of two captures either may be found first,
\* and one that was overtaken is found next.  A capture that is found waits for
\* the encoder, whose queue has one place.
Overtaken(p, c) ==
    \/ c.stream < encoder[p].stream
    \/ c.stream = encoder[p].stream /\ c.n < encoder[p].top
First(p, c) ==
    \/ c.queued
    \/ \A x \in capture[p] : ~x.queued /\ (Overtaken(p, x) => Overtaken(p, c))

\* A capture that is found drops the one that waits.
Queue(p) ==
    /\ Free
    /\ \E old, new \in capture[p] :
         /\ old # new /\ First(p, old)
         /\ capture' = [capture EXCEPT ![p] = {[new EXCEPT !.queued = TRUE]}]
    /\ UNCHANGED <<player, link, used, demand, captured, encoder, incoming, picture,
                   toHost, toClient, allowed, host>>

Chained(p, c) ==
    LET e == encoder[p] IN
    IF e.stream = c.stream
    THEN [e EXCEPT !.top = IF c.n > @ THEN c.n ELSE @, !.place = (@ + 1) % Gop]
    ELSE [stream |-> c.stream, top |-> c.n, place |-> 0]
Encoded(p, c) ==
    Frame(c.stream, c.n, IF encoder[p].stream = c.stream THEN encoder[p].top ELSE 0,
          Chained(p, c).place = 0)

Publishable(p, c) == c.current /\ ready[p] /\ demand[p] = c.stream

\* A full queue resets the connection; the encoder has moved on in any case.
Submit(p) ==
    /\ \E c \in capture[p] :
         /\ First(p, c)
         /\ encoder' = [encoder EXCEPT ![p] = Chained(p, c)]
         /\ capture' = [capture EXCEPT ![p] = @ \ {c}]
         /\ \/ /\ ~Publishable(p, c) /\ Free
               /\ UNCHANGED <<link, demand, incoming, toHost, toClient>>
            \/ /\ Publishable(p, c) /\ Queued(toHost[p]) < Room /\ Free
               /\ toHost' = [toHost EXCEPT ![p] = Append(@, Encoded(p, c))]
               /\ UNCHANGED <<link, demand, incoming, toClient>>
            \/ /\ Publishable(p, c) /\ Queued(toHost[p]) >= Room
               /\ Fault(p, "overflow") /\ Failed(p)
    /\ UNCHANGED <<player, used, captured, picture, allowed, host>>

Decode(v) ==
    /\ Free /\ ready[v] /\ incoming[v] # <<>>
    /\ LET f == Head(incoming[v])
           Shows == picture' = [picture EXCEPT ![v] =
                       [stream |-> f.stream, n |-> f.n, after |-> f.after, key |-> f.key]]
           Done == incoming' = [incoming EXCEPT ![v] = Tail(@)]
                     /\ UNCHANGED <<link, demand, toHost, toClient>>
       IN \/ f.request # watch[v].request /\ Done /\ UNCHANGED picture
          \/ /\ f.request = watch[v].request /\ picture[v].stream = f.stream
             /\ Done /\ IF f.n > picture[v].n THEN Shows ELSE UNCHANGED picture
          \/ /\ f.request = watch[v].request /\ picture[v].stream # f.stream
             /\ f.key /\ Done /\ Shows
          \/ /\ f.request = watch[v].request /\ picture[v].stream # f.stream
             /\ ~f.key /\ Failed(v) /\ picture' = [picture EXCEPT ![v] = NoPicture]
    /\ UNCHANGED <<player, used, video, allowed, host>>

-----------------------------------------------------------------------------
(* Consent in the game on the host. *)

Advertise(p) ==
    /\ Free /\ allowed' = [allowed EXCEPT ![p] = IF ready[p] THEN "open" ELSE "idle"]
    /\ UNCHANGED <<player, link, used, demand, video, incoming, picture, toHost,
                   toClient, host>>

Expire(p) ==
    /\ Fault(p, "expiry") /\ allowed[p] # "out" /\ allowed' = [allowed EXCEPT ![p] = "out"]
    /\ UNCHANGED <<player, link, used, demand, video, incoming, picture, toHost,
                   toClient, host>>

-----------------------------------------------------------------------------
(* The relay. *)

\* A new socket of the player follows in what is sent to the host.
Starts(q) == {i \in 1 .. Len(q) : q[i] = Auth}
Later(q) == IF Starts(q) = {} THEN <<>> ELSE SubSeq(q, Min(Starts(q)), Len(q))

\* The socket the relay holds, and has read up to up, is the player's present one.
Reaches(p, up) ==
    link[p] /\ \A i \in 1 .. Len(up) : up[i] \notin {Auth, Closed}

\* The relay sends a message to each of a set of players.
Sent(S, m) ==
    [p \in Players |-> IF p \in S /\ Reaches(p, toHost[p])
                       THEN Append(toClient[p], m[p]) ELSE toClient[p]]

\* The relay closes the sockets of S; up and down is what is under way.
Shut(S, down, up) ==
    /\ toHost' = [p \in Players |-> IF p \in S THEN Later(up[p]) ELSE up[p]]
    /\ toClient' = [p \in Players |-> IF p \in S /\ Reaches(p, up[p])
                                      THEN Append(down[p], Closed) ELSE down[p]]

Stale(S) == [p \in Players |-> IF p \in S THEN [sources[p] EXCEPT !.stream = 0]
                               ELSE sources[p]]
Rest(p) == [toHost EXCEPT ![p] = Tail(@)]

\* Mutant: the stream a player sends goes on when it connects again.
Receiving(p) == {s \in Players : p \in sources[s].viewers}

Rejoined(p) == {s \in Players : s = p \/ p \in sources[s].viewers}

\* Relay::Connected: the streams this player sends or receives start again.
HearAuth(p) ==
    \/ /\ authority[p] # "out"
       /\ peers' = [peers EXCEPT ![p] = [NoPeer EXCEPT !.on = TRUE]]
       /\ live' = [live EXCEPT ![p] = TRUE]
       /\ sources' = Stale(Rejoined(p))
       /\ toHost' = Rest(p) /\ UNCHANGED toClient
    \/ /\ authority[p] = "out"
       /\ Shut({p}, toClient, Rest(p))
       /\ UNCHANGED <<peers, live, sources>>

HearOptions(p, m) ==
    /\ peers' = IF peers[p].on
                THEN [peers EXCEPT ![p].ready = m.ready, ![p].watch = m.watch]
                ELSE peers
    /\ sources' = IF peers[p].on /\ m.watch \notin {NoWatch, peers[p].watch}
                  THEN Stale({m.watch.target}) ELSE sources
    /\ toHost' = Rest(p) /\ UNCHANGED <<live, toClient>>

Accepted(p, f) ==
    LET s == sources[p] IN
    /\ authority[p] = "open" /\ peers[p].on /\ peers[p].ready
    /\ s.stream # 0 /\ f.stream = s.stream /\ f.n > s.n /\ (s.key \/ f.key)

Recipients(p) ==
    {v \in sources[p].viewers : peers[v].on /\ live[v] /\ peers[v].watch.target = p}

Forwarded(f, to) ==
    Sent(to, [v \in Players |-> [f EXCEPT !.request = peers[v].watch.request]])

Full(p) == {v \in Recipients(p) : Queued(toClient[v]) >= Room}

\* Mutant: a viewer whose queue is full misses the frame only.
Spared(p) == {}

Congested(p) == Full(p)

\* Relay::Publish; a viewer whose queue is full is closed and the stream ends.
HearVideo(p, f) ==
    LET published == [sources EXCEPT ![p].n = f.n, ![p].key = @ \/ f.key,
                                     ![p].stream = IF Congested(p) = {} THEN @ ELSE 0]
    IN \/ ~Accepted(p, f) /\ Free /\ toHost' = Rest(p)
            /\ UNCHANGED <<live, sources, toClient>>
       \/ /\ Accepted(p, f)
          /\ IF Full(p) = {} THEN Free ELSE \E v \in Full(p) : Fault(v, "overflow")
          /\ sources' = published
          /\ live' = [v \in Players |-> live[v] /\ v \notin Congested(p)]
          /\ Shut(Congested(p), Forwarded(f, Recipients(p) \ Full(p)), Rest(p))

\* One message; those of a socket the relay has closed are not read any more.
Hear(p) ==
    /\ toHost[p] # <<>>
    /\ UNCHANGED <<player, link, used, demand, video, incoming, picture, allowed,
                   authority, serial>>
    /\ LET m == Head(toHost[p]) IN
         \/ m.kind = "auth" /\ Free /\ HearAuth(p)
         \/ m.kind = "options" /\ live[p] /\ Free /\ HearOptions(p, m)
         \/ m.kind = "video" /\ live[p] /\ HearVideo(p, m) /\ UNCHANGED peers
         \/ /\ m.kind = "closed" \/ (~live[p] /\ m.kind # "auth")
            /\ Free /\ live' = [live EXCEPT ![p] = FALSE] /\ toHost' = Rest(p)
            /\ UNCHANGED <<peers, sources, toClient>>

\* Relay::Refresh over the peers that are left.
Watching(left, p) ==
    {v \in Players : /\ authority[p] = "open" /\ left[p].ready
                     /\ left[v].on /\ left[v].watch.target = p /\ left[v].ready
                     /\ authority[v] = "open"}

Desired(left, p) == Max({left[v].watch.profile : v \in Watching(left, p)})

Restarted(left) ==
    {p \in Players :
       /\ left[p].on /\ Watching(left, p) # {}
       /\ \/ sources[p].stream = 0
          \/ sources[p].profile # Desired(left, p)
          \/ sources[p].viewers # Watching(left, p)}

\* Mutant: the serial is counted after the number is given.
NumberAfter(left, p) == serial + 1 + Cardinality(Restarted(left) \cap 1 .. p)

Number(left, p) == serial + Cardinality(Restarted(left) \cap 1 .. p)

Refreshed(left) ==
    [p \in Players |->
       IF ~left[p].on \/ Watching(left, p) = {} THEN NoSource
       ELSE IF p \in Restarted(left)
       THEN [NoSource EXCEPT !.stream = Number(left, p),
                             !.profile = Desired(left, p),
                             !.viewers = Watching(left, p)]
       ELSE sources[p]]

Demand(s) == <<s.stream, s.profile>>

\* The end of one turn of the loop and the authority check of the next one.
Turn ==
    LET left == [p \in Players |-> IF live[p] THEN peers[p] ELSE NoPeer]
        next == Refreshed(left)
        told == {p \in Players : live[p] /\ Demand(next[p]) # Demand(sources[p])}
        gone == {p \in Players : live[p] /\ allowed[p] = "out"}
    IN /\ Free
       /\ UNCHANGED <<player, link, used, demand, video, incoming, picture, allowed>>
       /\ sources' = next
       /\ serial' = serial + Cardinality(Restarted(left))
       /\ authority' = allowed
       /\ peers' = [p \in Players |-> IF p \in gone THEN NoPeer ELSE left[p]]
       /\ live' = [p \in Players |-> live[p] /\ p \notin gone]
       /\ Shut(gone, Sent(told, [p \in Players |-> Control(next[p].stream)]), toHost)

\* Mutant: the streams are numbered anew.
ResetAnew ==
    /\ \E p \in Players : Fault(p, "reset")
    /\ peers' = [p \in Players |-> NoPeer]
    /\ live' = [p \in Players |-> FALSE]
    /\ sources' = [p \in Players |-> NoSource]
    /\ authority' = [p \in Players |-> "out"]
    /\ Shut(Players, toClient, toHost) /\ serial' = 0
    /\ UNCHANGED <<player, link, used, demand, video, incoming, picture, allowed>>

\* The port has changed or the authority is too old: every socket is closed.
Reset ==
    /\ \E p \in Players : Fault(p, "reset")
    /\ peers' = [p \in Players |-> NoPeer]
    /\ live' = [p \in Players |-> FALSE]
    /\ sources' = [p \in Players |-> NoSource]
    /\ authority' = [p \in Players |-> "out"]
    /\ Shut(Players, toClient, toHost)
    /\ UNCHANGED <<player, link, used, demand, video, incoming, picture, allowed, serial>>

-----------------------------------------------------------------------------
Transport(p) == Connect(p) \/ SendOptions(p) \/ Read(p)
Video(p) == TakeCapture(p) \/ Queue(p) \/ Submit(p) \/ Decode(p)

Next ==
    \/ Turn \/ Reset
    \/ \E v \in Viewers : Close(v) \/ Retune(v) \/ \E s \in Sources : Open(v, s)
    \/ \E p \in Players : \/ Hear(p) \/ Advertise(p) \/ Transport(p) \/ Video(p)
                          \/ Toggle(p) \/ Lose(p) \/ Expire(p)

Spec == Init /\ [][Next]_vars

\* The relay's loop reads every socket and ends a turn again and again; the
\* game on the host, the transports and the video threads keep running.
FairSpec ==
    /\ Spec /\ WF_vars(Turn)
    /\ \A p \in Players : /\ WF_vars(Hear(p)) /\ WF_vars(Advertise(p))
                          /\ WF_vars(Transport(p)) /\ WF_vars(Video(p))
=============================================================================
