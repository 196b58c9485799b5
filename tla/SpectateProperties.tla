------------------------- MODULE SpectateProperties -------------------------
(***************************************************************************)
(* What watching promises to the viewer and to the player who is watched.  *)
(***************************************************************************)
EXTENDS Spectate

Watches == {NoWatch} \cup [target : Sources, request : Nat, profile : 1 .. 2]
Wishing == [kind : {"options"}, ready : BOOLEAN, watch : Watches]

\* Stream numbers that the relay has given; 0 stands for no stream.
Streams == 0 .. serial
Pictures == [stream : Streams, n : 0 .. MaxFrames, after : 0 .. MaxFrames, key : BOOLEAN]
Frames == [kind : {"video"}, stream : Streams, n : 0 .. MaxFrames,
           after : 0 .. MaxFrames, key : BOOLEAN, request : Nat]
Counts == [stream : Streams, n : 0 .. MaxFrames]
Captures == [stream : Streams, n : 0 .. MaxFrames, current : BOOLEAN, queued : BOOLEAN]
Chains == [stream : Streams, top : 0 .. MaxFrames, place : 0 .. Gop - 1]
Upward == {Auth, Closed} \cup Wishing \cup Frames
Downward == {Closed} \cup [kind : {"capture"}, stream : Streams] \cup Frames

Bounds ==
    /\ moves \in [Players -> Nat] /\ fault \in [Players -> Faults]
    /\ frames \in 1 .. MaxFrames

PlayersTyped ==
    /\ ready \in [Players -> BOOLEAN]
    /\ watch \in [Players -> Watches]
    /\ requests \in [Players -> Nat]
    /\ Bounds

LinksTyped ==
    /\ link \in [Players -> BOOLEAN]
    /\ used \in [Players -> Wishing]
    /\ demand \in [Players -> Streams]
    /\ incoming \in [Players -> Seq(Frames)]
    /\ toHost \in [Players -> Seq(Upward)]
    /\ toClient \in [Players -> Seq(Downward)]

VideoTyped ==
    /\ capture \in [Players -> SUBSET Captures]
    /\ captured \in [Players -> Counts]
    /\ encoder \in [Players -> Chains]
    /\ picture \in [Players -> Pictures]

HostTyped ==
    /\ allowed \in [Players -> {"out", "idle", "open"}]
    /\ authority \in [Players -> {"out", "idle", "open"}]
    /\ peers \in [Players -> [on : BOOLEAN, ready : BOOLEAN, watch : Watches]]
    /\ live \in [Players -> BOOLEAN]
    /\ sources \in [Players -> [stream : Streams, profile : 0 .. 2,
                                viewers : SUBSET Players, n : 0 .. MaxFrames,
                                key : BOOLEAN]]
    /\ serial \in Nat

\* Every variable has its type; no stream number, wherever it is under way, is
\* ahead of the relay's serial.
TypeOK == PlayersTyped /\ LinksTyped /\ VideoTyped /\ HostTyped

\* A stream number in use anywhere: in the relay, at a player, or under way.
Carried(q) == {q[i].stream : i \in {j \in DOMAIN q : q[j].kind \in {"capture", "video"}}}
InUse(p) ==
    {sources[p].stream, demand[p], captured[p].stream, encoder[p].stream, picture[p].stream}
      \cup {c.stream : c \in capture[p]}
      \cup Carried(incoming[p]) \cup Carried(toHost[p]) \cup Carried(toClient[p])

\* A stream that starts has a number nobody knows yet, and nobody else gets it:
\* the number alone tells the relay a frame of the present stream from one that
\* was captured, encoded or sent for an earlier one, whoever watched it, and
\* also after the relay was reset.
FreshStreams ==
    [][\A p \in Players : sources'[p].stream \notin {0, sources[p].stream} =>
         \A q \in Players : /\ sources'[p].stream \notin InUse(q)
                            /\ q # p => sources'[q].stream # sources'[p].stream]_vars

\* A picture is decoded only from a key frame, or right after the latest capture
\* that the encoder has put into the chain before it: no predictive frame is lost
\* on the way through encoder, queues, sockets and relay while its stream goes
\* on, but those that a later capture has overtaken on its way to the encoder,
\* which relay and decoder drop, and unless the viewer has changed the profile
\* of the view.
PicturesFollow ==
    [][\A v \in Viewers :
         picture'[v] \notin {picture[v], NoPicture} /\ watch[v].profile = 1 =>
           \/ picture'[v].key
           \/ /\ picture'[v].stream = picture[v].stream
              /\ picture'[v].after = picture[v].n]_vars

\* When the players have stopped changing their minds and the network its
\* faults, every viewer of a player who allows it has a picture, and a player
\* nobody watches has stopped capturing.
Wishes(v, s) == watch[v].target = s /\ ready[v] /\ ready[s]
Unwatched(s) == \A v \in Viewers : ~Wishes(v, s)

CaptureFollowsWatchers ==
    <>[]\A s \in Sources :
          /\ \A v \in Viewers : Wishes(v, s) => picture[v] # NoPicture
          /\ Unwatched(s) => demand[s] = 0
=============================================================================
