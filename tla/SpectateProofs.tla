--------------------------- MODULE SpectateProofs ---------------------------
(***************************************************************************)
(* Watching, for any number of players, sources, frames and moves: every   *)
(* stream number under way was given by the relay, so a number that it     *)
(* gives next is new to everybody.                                         *)
(***************************************************************************)
EXTENDS SpectateProperties, FiniteSetTheorems, WellFoundedInduction, SequenceTheorems, TLAPS

USE SpectateAssumption DEF SpectateAssumption

----------------------------------------------------------------------------
(* The players, the frames and what is left of a sequence. *)

LEMMA PlayersAre == /\ Players \subseteq Nat \ {0} /\ IsFiniteSet(Players)
                    /\ Viewers \subseteq Players /\ NPlayers \in Nat
<1>1. NPlayers \in Nat
  OBVIOUS
<1>2. IsFiniteSet(1 .. NPlayers)
  BY <1>1, FS_Interval
<1> QED
  BY <1>1, <1>2 DEF Players, Viewers

\* As long as no stream starts, what may be under way is the same.
LEMMA SameSerial ==
    ASSUME serial' = serial
    PROVE  /\ Streams' = Streams /\ Frames' = Frames
           /\ Upward' = Upward /\ Downward' = Downward
           /\ Pictures' = Pictures /\ Counts' = Counts
           /\ Captures' = Captures /\ Chains' = Chains
  BY DEF Streams, Frames, Upward, Downward, Pictures, Counts, Captures, Chains

\* What was under way may be so with a higher serial.
LEMMA HigherSerial ==
    ASSUME serial \in Nat, serial' \in Nat, serial' >= serial
    PROVE  /\ Streams \subseteq Streams' /\ Frames \subseteq Frames'
           /\ Upward \subseteq Upward' /\ Downward \subseteq Downward'
<1>1. Streams \subseteq Streams'
  BY DEF Streams
<1>2. Frames \subseteq Frames'
  BY <1>1 DEF Frames
<1> QED
  BY <1>1, <1>2 DEF Upward, Downward

LEMMA MinIsIn ==
    ASSUME NEW S, S \subseteq Nat, S # {}
    PROVE  Min(S) \in S
<1> DEFINE Lt == {ss \in Nat \X Nat : ss[1] < ss[2]}
<1>1. \A m, n \in Nat : m < n => <<m, n>> \in Lt
  OBVIOUS
<1>2. IsWellFoundedOn(Lt, Nat)
  BY NatLessThanWellFounded DEF OpToRel
<1> HIDE DEF Lt
<1>3. PICK n \in S : \A m \in S : <<m, n>> \notin Lt
  BY <1>2, WFMin
<1>4. ASSUME NEW m \in S PROVE n <= m
  <2>1. m \in Nat /\ n \in Nat /\ ~(m < n)
    BY <1>1, <1>3
  <2> QED
    BY <2>1
<1> QED
  BY <1>3, <1>4 DEF Min

\* A socket that follows another sends a part of the same messages.
LEMMA LaterIs ==
    ASSUME NEW M, NEW q \in Seq(M)
    PROVE  Later(q) \in Seq(M)
<1>1. CASE Starts(q) = {}
  BY <1>1 DEF Later
<1>2. CASE Starts(q) # {}
  <2>1. Starts(q) \subseteq 1 .. Len(q) /\ Starts(q) \subseteq Nat
    BY DEF Starts
  <2>2. Min(Starts(q)) \in 1 .. Len(q)
    BY <1>2, <2>1, MinIsIn
  <2>3. \A i \in Min(Starts(q)) .. Len(q) : q[i] \in M
    BY <2>2
  <2>4. SubSeq(q, Min(Starts(q)), Len(q)) \in Seq(M)
    BY <2>2, <2>3, SubSeqProperties
  <2> QED
    BY <1>2, <2>4 DEF Later
<1> QED
  BY <1>1, <1>2

LEMMA TailIs ==
    ASSUME NEW M, NEW q \in Seq(M), q # <<>>
    PROVE  Head(q) \in M /\ Tail(q) \in Seq(M)
  BY HeadTailProperties

LEMMA ShutIs ==
    ASSUME NEW S, NEW M, NEW N, NEW down \in [Players -> Seq(N)], NEW up \in [Players -> Seq(M)],
           Closed \in N, Shut(S, down, up)
    PROVE  toHost' \in [Players -> Seq(M)] /\ toClient' \in [Players -> Seq(N)]
<1>1. \A p \in Players : Later(up[p]) \in Seq(M) /\ Append(down[p], Closed) \in Seq(N)
  BY LaterIs
<1> QED
  BY <1>1 DEF Shut

LEMMA SentIs ==
    ASSUME NEW S, NEW N, toClient \in [Players -> Seq(N)], NEW m, \A p \in S : m[p] \in N
    PROVE  Sent(S, m) \in [Players -> Seq(N)]
  BY DEF Sent

LEMMA FailedIs ==
    ASSUME TypeOK, NEW p \in Players, Failed(p), serial' = serial
    PROVE  /\ link' \in [Players -> BOOLEAN] /\ demand' \in [Players -> Streams]
           /\ incoming' \in [Players -> Seq(Frames)] /\ toClient' \in [Players -> Seq(Downward)]
           /\ toHost' \in [Players -> Seq(Upward)]
<1>1. Closed \in Upward /\ 0 \in Streams
  BY DEF TypeOK, HostTyped, Upward, Streams
<1>2. Append(toHost[p], Closed) \in Seq(Upward)
  BY <1>1 DEF TypeOK, LinksTyped
<1> QED
  BY <1>1, <1>2 DEF TypeOK, LinksTyped, Failed

----------------------------------------------------------------------------
(* The players. *)

LEMMA OpenTypes == ASSUME TypeOK, NEW v \in Viewers, NEW s \in Sources, Open(v, s) PROVE TypeOK'
<1>1. v \in Players
  BY PlayersAre
<1>2. serial' = serial
  BY DEF Open, host
<1>3. requests' \in [Players -> Nat]
  BY <1>1 DEF Open, TypeOK, PlayersTyped, Bounds
<1>4. [target |-> s, request |-> requests'[v], profile |-> 1] \in Watches
  BY <1>1, <1>3 DEF Watches
<1>5. watch' \in [Players -> Watches]
  BY <1>4 DEF Open, TypeOK, PlayersTyped, Bounds
<1>6. NoPicture \in Pictures
  BY DEF NoPicture, Pictures, Streams, TypeOK, HostTyped
<1>7. Bounds'
  BY <1>1 DEF Open, Move, TypeOK, PlayersTyped, Bounds
<1>8. picture' \in [Players -> Pictures]
  BY <1>6 DEF Open, TypeOK, VideoTyped
<1> QED
  BY <1>2, <1>3, <1>5, <1>7, <1>8, SameSerial DEF Open, TypeOK, PlayersTyped, Bounds, LinksTyped, VideoTyped, HostTyped, host, video

LEMMA CloseTypes == ASSUME TypeOK, NEW v \in Viewers, Close(v) PROVE TypeOK'
<1>1. v \in Players
  BY PlayersAre
<1>2. serial' = serial
  BY DEF Close, host
<1>3. NoPicture \in Pictures /\ NoWatch \in Watches
  BY DEF NoPicture, Pictures, Streams, Watches, TypeOK, HostTyped
<1>4. watch' \in [Players -> Watches]
  BY <1>3 DEF Close, TypeOK, PlayersTyped, Bounds
<1>5. Bounds'
  BY <1>1 DEF Close, Move, TypeOK, PlayersTyped, Bounds
<1>6. picture' \in [Players -> Pictures]
  BY <1>3 DEF Close, TypeOK, VideoTyped
<1> QED
  BY <1>2, <1>4, <1>5, <1>6, SameSerial
     DEF Close, TypeOK, PlayersTyped, Bounds, LinksTyped, VideoTyped, HostTyped, host, video

LEMMA RetuneTypes == ASSUME TypeOK, NEW v \in Viewers, Retune(v) PROVE TypeOK'
<1>1. v \in Players
  BY PlayersAre
<1>2. serial' = serial
  BY DEF Retune, host
<1>3. watch[v] \in [target : Sources, request : Nat, profile : 1 .. 2]
  BY <1>1 DEF Retune, Watches, TypeOK, PlayersTyped, Bounds
<1>4. [watch[v] EXCEPT !.profile = 3 - watch[v].profile] \in Watches
  BY <1>3 DEF Watches
<1>5. watch' \in [Players -> Watches]
  BY <1>4 DEF Retune, TypeOK, PlayersTyped, Bounds
<1>6. Bounds'
  BY <1>1 DEF Retune, Move, TypeOK, PlayersTyped, Bounds
<1> QED
  BY <1>2, <1>5, <1>6, SameSerial
     DEF Retune, TypeOK, PlayersTyped, Bounds, LinksTyped, VideoTyped, HostTyped, host, video

LEMMA ToggleTypes == ASSUME TypeOK, NEW p \in Players, Toggle(p) PROVE TypeOK'
<1>1. serial' = serial
  BY DEF Toggle, host
<1>2. NoPicture \in Pictures
  BY DEF NoPicture, Pictures, Streams, TypeOK, HostTyped
<1>3. ready' \in [Players -> BOOLEAN]
  BY DEF Toggle, TypeOK, PlayersTyped, Bounds
<1>4. Bounds'
  BY DEF Toggle, Move, TypeOK, PlayersTyped, Bounds
<1>5. picture' \in [Players -> Pictures]
  BY <1>2 DEF Toggle, TypeOK, VideoTyped
<1>6. capture' \in [Players -> SUBSET Captures]
  <2>1. \A c \in Captures : [c EXCEPT !.current = FALSE] \in Captures
    BY DEF Captures
  <2>2. \A q \in Players : capture[q] \subseteq Captures
    BY DEF TypeOK, VideoTyped
  <2>3. {[c EXCEPT !.current = FALSE] : c \in capture[p]} \subseteq Captures
    BY <2>1, <2>2
  <2> QED
    BY <2>3 DEF Toggle, TypeOK, VideoTyped
<1>7. captured' \in [Players -> Counts]
  <2>1. NoCapture \in Counts
    BY DEF NoCapture, Counts, Streams, TypeOK, HostTyped
  <2> QED
    BY <2>1 DEF Toggle, TypeOK, VideoTyped
<1>8. incoming' \in [Players -> Seq(Frames)]
  BY DEF Toggle, TypeOK, LinksTyped
<1> QED
  BY <1>1, <1>3, <1>4, <1>5, <1>6, <1>7, <1>8, SameSerial
     DEF Toggle, TypeOK, PlayersTyped, Bounds, LinksTyped, VideoTyped, HostTyped, host

----------------------------------------------------------------------------
(* The transport. *)

\* What a message brings.
LEMMA Messages ==
    /\ \A m \in Downward : /\ m.kind = "capture" => m.stream \in Streams
                           /\ m.kind = "video" => m \in Frames
    /\ \A m \in Upward : /\ m.kind = "options" => m.ready \in BOOLEAN /\ m.watch \in Watches
                         /\ m.kind = "video" => m \in Frames
<1>1. ASSUME NEW m \in Downward PROVE /\ m.kind = "capture" => m.stream \in Streams
                                      /\ m.kind = "video" => m \in Frames
  BY <1>1 DEF Downward, Frames, Closed
<1>2. ASSUME NEW m \in Upward
      PROVE  /\ m.kind = "options" => m.ready \in BOOLEAN /\ m.watch \in Watches
             /\ m.kind = "video" => m \in Frames
  <2>1. m.kind = "video" => m \in Frames
    BY <1>2 DEF Upward, Wishing, Auth, Closed
  <2>2. m.kind = "options" => m \in Wishing
    BY <1>2 DEF Upward, Frames, Auth, Closed
  <2> QED
    BY <2>1, <2>2 DEF Wishing
<1> QED
  BY <1>1, <1>2

LEMMA WantedIs == ASSUME TypeOK, NEW p \in Players PROVE Wanted(p) \in Wishing
  BY DEF Wanted, Options, Wishing, TypeOK, PlayersTyped, Bounds

LEMMA ConnectTypes == ASSUME TypeOK, NEW p \in Players, Connect(p) PROVE TypeOK'
<1>1. serial' = serial
  BY DEF Connect, host
<1>2. Wanted(p) \in Wishing /\ Wanted(p) \in Upward /\ Auth \in Upward
  BY WantedIs DEF Upward
<1>3. link' \in [Players -> BOOLEAN] /\ used' \in [Players -> Wishing]
  BY <1>2 DEF Connect, TypeOK, LinksTyped
<1>4. PICK old \in {toHost[p], <<>>} :
         toHost' = [toHost EXCEPT ![p] = old \o <<Auth, Wanted(p)>>]
  BY DEF Connect
<1>5. old \in Seq(Upward) /\ <<Auth, Wanted(p)>> \in Seq(Upward)
  <2>1. <<>> \in Seq(Upward) /\ toHost[p] \in Seq(Upward)
    BY DEF TypeOK, LinksTyped
  <2>2. <<Auth, Wanted(p)>> \in Seq(Upward)
    BY <1>2
  <2> QED
    BY <1>4, <2>1, <2>2
<1>6. old \o <<Auth, Wanted(p)>> \in Seq(Upward)
  BY <1>5, ConcatProperties
<1>7. toHost' \in [Players -> Seq(Upward)]
  BY <1>4, <1>6 DEF TypeOK, LinksTyped
<1> QED
  BY <1>1, <1>3, <1>7, SameSerial DEF Connect, Free, TypeOK, PlayersTyped, Bounds, LinksTyped,
     VideoTyped, HostTyped, host, player, video

LEMMA SendOptionsTypes == ASSUME TypeOK, NEW p \in Players, SendOptions(p) PROVE TypeOK'
<1>1. serial' = serial
  BY DEF SendOptions, host
<1>2. Wanted(p) \in Wishing /\ Wanted(p) \in Upward
  BY WantedIs DEF Upward
<1>3. used' \in [Players -> Wishing] /\ incoming' \in [Players -> Seq(Frames)]
  BY <1>2 DEF SendOptions, TypeOK, LinksTyped
<1>4. toHost' \in [Players -> Seq(Upward)]
  BY <1>2 DEF SendOptions, TypeOK, LinksTyped
<1> QED
  BY <1>1, <1>3, <1>4, SameSerial DEF SendOptions, Free, TypeOK, PlayersTyped, Bounds, LinksTyped,
     VideoTyped, HostTyped, host, player, video

LEMMA ReadTypes == ASSUME TypeOK, NEW p \in Players, Read(p) PROVE TypeOK'
<1>1. serial' = serial
  BY DEF Read, host
<1> DEFINE m == Head(toClient[p])
<1>2. m \in Downward /\ Tail(toClient[p]) \in Seq(Downward)
  BY TailIs DEF Read, TypeOK, LinksTyped
<1>3. Take(p) => toClient' \in [Players -> Seq(Downward)]
  BY <1>2 DEF Take, TypeOK, LinksTyped
<1>4. LinksTyped'
  <2>1. used' = used /\ Streams' = Streams /\ Frames' = Frames /\ Upward' = Upward
        /\ Downward' = Downward
    BY <1>1, SameSerial DEF Read
  <2>2. CASE m.kind = "capture" /\ Take(p) /\ demand' = [demand EXCEPT ![p] = m.stream]
             /\ UNCHANGED <<link, incoming, toHost>>
    <3>1. m.stream \in Streams
      BY <1>2, <2>2, Messages
    <3> QED
      BY <1>3, <2>1, <2>2, <3>1 DEF TypeOK, LinksTyped
  <2>3. CASE m.kind = "video" /\ Take(p)
             /\ incoming' = (IF Accepts(p, m) THEN [incoming EXCEPT ![p] = Append(@, m)]
                             ELSE incoming)
             /\ UNCHANGED <<link, demand, toHost>>
    <3>1. m \in Frames
      BY <1>2, <2>3, Messages
    <3>2. incoming' \in [Players -> Seq(Frames)]
      BY <2>3, <3>1 DEF TypeOK, LinksTyped
    <3> QED
      BY <1>3, <2>1, <2>3, <3>2 DEF TypeOK, LinksTyped
  <2>4. CASE Failed(p)
    BY <1>1, <2>1, <2>4, FailedIs DEF TypeOK, LinksTyped
  <2> QED
    BY <2>2, <2>3, <2>4 DEF Read
<1> QED
  BY <1>1, <1>4, SameSerial DEF Read, Free, TypeOK, PlayersTyped, Bounds, VideoTyped, HostTyped,
     host, player, video

LEMMA LoseTypes == ASSUME TypeOK, NEW p \in Players, Lose(p) PROVE TypeOK'
<1>1. serial' = serial
  BY DEF Lose, host
<1>2. Bounds'
  BY DEF Lose, Fault, Faults, TypeOK, PlayersTyped, Bounds
<1>3. LinksTyped'
  BY <1>1, FailedIs, SameSerial DEF Lose, TypeOK, LinksTyped
<1> QED
  BY <1>1, <1>2, <1>3, SameSerial DEF Lose, TypeOK, PlayersTyped, Bounds, VideoTyped, HostTyped,
     host, player, video

----------------------------------------------------------------------------
(* Capture, encoder and decoder. *)

LEMMA TakeCaptureTypes == ASSUME TypeOK, NEW p \in Players, TakeCapture(p) PROVE TypeOK'
<1>1. serial' = serial
  BY DEF TakeCapture, host
<1>2. demand[p] \in Streams /\ captured[p] \in Counts /\ frames \in 1 .. MaxFrames
  BY DEF TypeOK, LinksTyped, VideoTyped, PlayersTyped, Bounds
<1>3. Taken(p) \in Counts
  <2>1. captured[p].n \in Nat
    BY <1>2 DEF Counts
  <2>2. Taken(p).n <= frames /\ Taken(p).n \in Nat /\ Taken(p).stream = demand[p]
    BY <2>1 DEF TakeCapture, Taken
  <2>3. Taken(p).n \in 0 .. MaxFrames
    BY <1>2, <2>2
  <2>4. Taken(p) = [stream |-> demand[p], n |-> Taken(p).n]
    BY DEF Taken
  <2> QED
    BY <1>2, <2>3, <2>4 DEF Counts
<1>4. [stream |-> demand[p], n |-> Taken(p).n, current |-> TRUE, queued |-> FALSE] \in Captures
  BY <1>2, <1>3 DEF Captures, Counts
<1>5. capture' \in [Players -> SUBSET Captures] /\ captured' \in [Players -> Counts]
  BY <1>3, <1>4 DEF TakeCapture, TypeOK, VideoTyped
<1> QED
  BY <1>1, <1>5, SameSerial DEF TakeCapture, Free, TypeOK, PlayersTyped, Bounds, LinksTyped,
     VideoTyped, HostTyped, host, player

LEMMA QueueTypes == ASSUME TypeOK, NEW p \in Players, Queue(p) PROVE TypeOK'
<1>1. serial' = serial
  BY DEF Queue, host
<1>2. PICK new \in capture[p] :
         capture' = [capture EXCEPT ![p] = {[new EXCEPT !.queued = TRUE]}]
  BY DEF Queue
<1>3. new \in Captures
  BY DEF TypeOK, VideoTyped
<1>4. {[new EXCEPT !.queued = TRUE]} \subseteq Captures
  BY <1>3 DEF Captures
<1>5. capture' \in [Players -> SUBSET Captures]
  BY <1>2, <1>4 DEF TypeOK, VideoTyped
<1> QED
  BY <1>1, <1>5, SameSerial DEF Queue, Free, TypeOK, PlayersTyped, Bounds, LinksTyped,
     VideoTyped, HostTyped, host, player

\* A capture that is encoded fits its stream and the chain.
LEMMA EncodedIs ==
    ASSUME TypeOK, NEW p \in Players, NEW c \in capture[p]
    PROVE  Chained(p, c) \in Chains /\ Encoded(p, c) \in Frames /\ Encoded(p, c) \in Upward
<1> DEFINE e == encoder[p]
<1>1. /\ e \in Chains /\ c \in Captures /\ 0 \in Streams /\ Gop \in Nat \ {0}
  BY DEF TypeOK, VideoTyped, HostTyped, Streams
<1>2. c.n \in 0 .. MaxFrames /\ c.stream \in Streams
  BY <1>1 DEF Captures
<1>3. e.top \in 0 .. MaxFrames /\ e.place \in Nat /\ e.stream \in Streams
  BY <1>1 DEF Chains
<1>4. Chained(p, c) \in Chains
  <2>1. CASE e.stream = c.stream
    <3>1. (e.place + 1) % Gop \in 0 .. Gop - 1
      BY <1>1, <1>3
    <3>2. Chained(p, c) = [e EXCEPT !.top = IF c.n > e.top THEN c.n ELSE e.top,
                                    !.place = (e.place + 1) % Gop]
      BY <2>1 DEF Chained
    <3>3. (IF c.n > e.top THEN c.n ELSE e.top) \in 0 .. MaxFrames
      BY <1>2, <1>3
    <3> QED
      BY <1>1, <3>1, <3>2, <3>3 DEF Chains
  <2>2. CASE e.stream # c.stream
    <3>1. Chained(p, c) = [stream |-> c.stream, top |-> c.n, place |-> 0]
      BY <2>2 DEF Chained
    <3> QED
      BY <1>1, <1>2, <3>1 DEF Chains
  <2> QED
    BY <2>1, <2>2
<1>5. Encoded(p, c) \in Frames
  <2>1. (IF e.stream = c.stream THEN e.top ELSE 0) \in 0 .. MaxFrames
    BY <1>3
  <2>2. (Chained(p, c).place = 0) \in BOOLEAN
    OBVIOUS
  <2> QED
    BY <1>2, <2>1, <2>2 DEF Encoded, Frame, Frames
<1> QED
  BY <1>4, <1>5 DEF Upward

LEMMA SubmitTypes == ASSUME TypeOK, NEW p \in Players, Submit(p) PROVE TypeOK'
<1>1. serial' = serial /\ UNCHANGED <<player, used, captured, picture, allowed, host>>
  BY DEF Submit, host
<1>2. PICK c \in capture[p] :
         /\ encoder' = [encoder EXCEPT ![p] = Chained(p, c)]
         /\ capture' = [capture EXCEPT ![p] = @ \ {c}]
         /\ \/ Free /\ UNCHANGED <<link, demand, incoming, toHost, toClient>>
            \/ /\ Free
               /\ toHost' = [toHost EXCEPT ![p] = Append(@, Encoded(p, c))]
               /\ UNCHANGED <<link, demand, incoming, toClient>>
            \/ Fault(p, "overflow") /\ Failed(p)
  BY DEF Submit
<1>3. Chained(p, c) \in Chains /\ Encoded(p, c) \in Upward
  BY EncodedIs
<1>4. encoder' \in [Players -> Chains] /\ capture' \in [Players -> SUBSET Captures]
  BY <1>2, <1>3 DEF TypeOK, VideoTyped
<1>5. LinksTyped'
  <2>1. used' = used /\ Streams' = Streams /\ Frames' = Frames /\ Upward' = Upward
        /\ Downward' = Downward
    BY <1>1, SameSerial
  <2>2. CASE UNCHANGED <<link, demand, incoming, toHost, toClient>>
    BY <2>1, <2>2 DEF TypeOK, LinksTyped
  <2>3. CASE /\ toHost' = [toHost EXCEPT ![p] = Append(@, Encoded(p, c))]
             /\ UNCHANGED <<link, demand, incoming, toClient>>
    <3>1. toHost' \in [Players -> Seq(Upward)]
      BY <1>3, <2>3 DEF TypeOK, LinksTyped
    <3> QED
      BY <2>1, <2>3, <3>1 DEF TypeOK, LinksTyped
  <2>4. CASE Failed(p)
    BY <1>1, <2>1, <2>4, FailedIs DEF TypeOK, LinksTyped
  <2> QED
    BY <1>2, <2>2, <2>3, <2>4
<1>6. Bounds'
  BY <1>2 DEF Free, Fault, Faults, TypeOK, PlayersTyped, Bounds
<1> QED
  BY <1>1, <1>4, <1>5, <1>6, SameSerial DEF TypeOK, PlayersTyped, Bounds, VideoTyped, HostTyped,
     host, player

LEMMA DecodeTypes == ASSUME TypeOK, NEW v \in Players, Decode(v) PROVE TypeOK'
<1>1. serial' = serial
  BY DEF Decode, host
<1> DEFINE f == Head(incoming[v])
<1>2. f \in Frames /\ Tail(incoming[v]) \in Seq(Frames)
  BY TailIs DEF Decode, TypeOK, LinksTyped
<1> DEFINE shown == [stream |-> f.stream, n |-> f.n, after |-> f.after, key |-> f.key]
<1>3. shown \in Pictures /\ NoPicture \in Pictures
  <2>1. /\ f.stream \in Streams /\ f.n \in 0 .. MaxFrames
        /\ f.after \in 0 .. MaxFrames /\ f.key \in BOOLEAN
    BY <1>2 DEF Frames
  <2>2. NoPicture \in Pictures
    BY DEF NoPicture, Pictures, Streams, TypeOK, HostTyped
  <2> QED
    BY <2>1, <2>2 DEF Pictures
<1>4. \/ picture' = picture
      \/ picture' = [picture EXCEPT ![v] = shown]
      \/ picture' = [picture EXCEPT ![v] = NoPicture]
  BY DEF Decode
<1>5. picture' \in [Players -> Pictures]
  BY <1>3, <1>4 DEF TypeOK, VideoTyped
<1>6. LinksTyped'
  <2>1. used' = used /\ Streams' = Streams /\ Frames' = Frames /\ Upward' = Upward
        /\ Downward' = Downward
    BY <1>1, SameSerial DEF Decode
  <2>2. CASE incoming' = [incoming EXCEPT ![v] = Tail(@)]
             /\ UNCHANGED <<link, demand, toHost, toClient>>
    <3>1. incoming' \in [Players -> Seq(Frames)]
      BY <1>2, <2>2 DEF TypeOK, LinksTyped
    <3> QED
      BY <2>1, <2>2, <3>1 DEF TypeOK, LinksTyped
  <2>3. CASE Failed(v)
    BY <1>1, <2>1, <2>3, FailedIs DEF TypeOK, LinksTyped
  <2> QED
    BY <2>2, <2>3 DEF Decode
<1> QED
  BY <1>1, <1>5, <1>6, SameSerial DEF Decode, Free, TypeOK, PlayersTyped, Bounds, VideoTyped,
     HostTyped, host, player, video

----------------------------------------------------------------------------
(* Consent on the host. *)

LEMMA AdvertiseTypes == ASSUME TypeOK, NEW p \in Players, Advertise(p) PROVE TypeOK'
<1>1. serial' = serial
  BY DEF Advertise, host
<1>2. allowed' \in [Players -> {"out", "idle", "open"}]
  BY DEF Advertise, TypeOK, HostTyped
<1> QED
  BY <1>1, <1>2, SameSerial DEF Advertise, Free, TypeOK, PlayersTyped, Bounds, LinksTyped,
     VideoTyped, HostTyped, host, player, video

LEMMA ExpireTypes == ASSUME TypeOK, NEW p \in Players, Expire(p) PROVE TypeOK'
<1>1. serial' = serial
  BY DEF Expire, host
<1>2. allowed' \in [Players -> {"out", "idle", "open"}]
  BY DEF Expire, TypeOK, HostTyped
<1>3. Bounds'
  BY DEF Expire, Fault, Faults, TypeOK, PlayersTyped, Bounds
<1> QED
  BY <1>1, <1>2, <1>3, SameSerial DEF Expire, TypeOK, PlayersTyped, Bounds, LinksTyped,
     VideoTyped, HostTyped, host, player, video

----------------------------------------------------------------------------
(* The relay hears a message. *)

SourceRows == [stream : Streams, profile : 0 .. 2, viewers : SUBSET Players,
               n : 0 .. MaxFrames, key : BOOLEAN]
PeerRows == [on : BOOLEAN, ready : BOOLEAN, watch : Watches]

\* What one message may change of the relay and the sockets.
Heard == /\ peers' \in [Players -> PeerRows] /\ live' \in [Players -> BOOLEAN]
         /\ sources' \in [Players -> SourceRows]
         /\ toHost' \in [Players -> Seq(Upward)] /\ toClient' \in [Players -> Seq(Downward)]

LEMMA Rows == ASSUME TypeOK
              PROVE  /\ sources \in [Players -> SourceRows] /\ peers \in [Players -> PeerRows]
                     /\ live \in [Players -> BOOLEAN] /\ 0 \in Streams
                     /\ toHost \in [Players -> Seq(Upward)]
                     /\ toClient \in [Players -> Seq(Downward)]
                     /\ NoPeer \in PeerRows /\ NoWatch \in Watches
  BY DEF TypeOK, HostTyped, LinksTyped, SourceRows, PeerRows, NoPeer, Streams, Watches

LEMMA RestIs ==
    ASSUME TypeOK, NEW p \in Players, toHost[p] # <<>>
    PROVE  /\ Rest(p) \in [Players -> Seq(Upward)]
           /\ Head(toHost[p]) \in Upward
  BY TailIs DEF Rest, TypeOK, LinksTyped

LEMMA StaleIs ==
    ASSUME TypeOK, NEW S
    PROVE  Stale(S) \in [Players -> SourceRows]
<1>1. ASSUME NEW p \in Players
      PROVE  sources[p] \in SourceRows /\ [sources[p] EXCEPT !.stream = 0] \in SourceRows
  <2>1. sources[p] \in SourceRows /\ 0 \in Streams
    BY Rows
  <2> QED
    BY <2>1 DEF SourceRows
<1> QED
  BY <1>1 DEF Stale

LEMMA HearAuthIs ==
    ASSUME TypeOK, NEW p \in Players, toHost[p] # <<>>, HearAuth(p)
    PROVE  Heard
<1>1. Closed \in Downward
  BY DEF Downward
<1>2. CASE authority[p] # "out"
  <2>1. peers' = [peers EXCEPT ![p] = [NoPeer EXCEPT !.on = TRUE]]
        /\ live' = [live EXCEPT ![p] = TRUE] /\ sources' = Stale(Rejoined(p))
        /\ toHost' = Rest(p) /\ toClient' = toClient
    BY <1>2 DEF HearAuth
  <2>2. [NoPeer EXCEPT !.on = TRUE] \in PeerRows
    BY Rows DEF PeerRows
  <2> QED
    BY <2>1, <2>2, Rows, RestIs, StaleIs DEF Heard
<1>3. CASE authority[p] = "out"
  <2>1. Shut({p}, toClient, Rest(p)) /\ UNCHANGED <<peers, live, sources>>
    BY <1>3 DEF HearAuth
  <2>2. toHost' \in [Players -> Seq(Upward)] /\ toClient' \in [Players -> Seq(Downward)]
    BY <1>1, <2>1, Rows, RestIs, ShutIs
  <2> QED
    BY <2>1, <2>2, Rows DEF Heard
<1> QED
  BY <1>2, <1>3

LEMMA HearOptionsIs ==
    ASSUME TypeOK, NEW p \in Players, toHost[p] # <<>>, NEW m \in Wishing, HearOptions(p, m)
    PROVE  Heard
<1>1. toHost' = Rest(p) /\ live' = live /\ toClient' = toClient
  BY DEF HearOptions
<1>2. peers' \in [Players -> PeerRows]
  <2>1. [peers[p] EXCEPT !.ready = m.ready, !.watch = m.watch] \in PeerRows
    BY Rows DEF PeerRows, Wishing
  <2>2. CASE peers[p].on
    <3>1. peers' = [peers EXCEPT ![p].ready = m.ready, ![p].watch = m.watch]
      BY <2>2 DEF HearOptions
    <3>2. peers' = [peers EXCEPT ![p] = [peers[p] EXCEPT !.ready = m.ready, !.watch = m.watch]]
      BY <3>1, Rows
    <3> QED
      BY <2>1, <3>2, Rows
  <2>3. CASE ~peers[p].on
    BY <2>3, Rows DEF HearOptions
  <2> QED
    BY <2>2, <2>3
<1>3. sources' \in [Players -> SourceRows]
  BY Rows, StaleIs DEF HearOptions
<1> QED
  BY <1>1, <1>2, <1>3, Rows, RestIs DEF Heard

LEMMA HearVideoIs ==
    ASSUME TypeOK, NEW p \in Players, toHost[p] # <<>>, NEW f \in Frames, HearVideo(p, f),
           UNCHANGED peers
    PROVE  Heard /\ Bounds'
<1>1. CASE ~Accepted(p, f)
  <2>1. Free /\ toHost' = Rest(p) /\ UNCHANGED <<live, sources, toClient>>
    BY <1>1 DEF HearVideo
  <2>2. Bounds'
    BY <2>1 DEF Free, TypeOK, PlayersTyped, Bounds
  <2>3. Heard
    BY <2>1, Rows, RestIs DEF Heard
  <2> QED
    BY <2>2, <2>3
<1>2. CASE Accepted(p, f)
  <2> DEFINE s == IF Congested(p) = {} THEN sources[p].stream ELSE 0
  <2>1. /\ IF Full(p) = {} THEN Free ELSE \E v \in Full(p) : Fault(v, "overflow")
        /\ sources' = [sources EXCEPT ![p].n = f.n, ![p].key = @ \/ f.key, ![p].stream = s]
        /\ live' = [v \in Players |-> live[v] /\ v \notin Congested(p)]
        /\ Shut(Congested(p), Forwarded(f, Recipients(p) \ Full(p)), Rest(p))
    BY <1>2 DEF HearVideo
  <2>2. Bounds'
    BY <2>1 DEF Free, Fault, Faults, TypeOK, PlayersTyped, Bounds
  <2>3. sources' \in [Players -> SourceRows]
    <3>1. sources[p] \in SourceRows /\ s \in Streams /\ f.n \in 0 .. MaxFrames
      BY Rows DEF SourceRows, Frames
    <3>2. (sources[p].key \/ f.key) \in BOOLEAN
      OBVIOUS
    <3>3. [sources[p] EXCEPT !.n = f.n, !.key = sources[p].key \/ f.key, !.stream = s]
             \in SourceRows
      BY <3>1, <3>2 DEF SourceRows
    <3>4. sources' = [sources EXCEPT ![p] = [sources[p] EXCEPT !.n = f.n,
                         !.key = sources[p].key \/ f.key, !.stream = s]]
      BY <2>1, Rows
    <3> QED
      BY <3>3, <3>4, Rows
  <2>4. live' \in [Players -> BOOLEAN]
    BY <2>1
  <2>5. Closed \in Downward
    BY DEF Downward
  <2>6. Forwarded(f, Recipients(p) \ Full(p)) \in [Players -> Seq(Downward)]
    <3> DEFINE m == [v \in Players |-> [f EXCEPT !.request = peers[v].watch.request]]
    <3>1. \A v \in Players : peers[v].watch.request \in Nat
      BY Rows DEF PeerRows, Watches, NoWatch
    <3>2. \A v \in Players : m[v] \in Downward
      BY <3>1 DEF Frames, Downward
    <3>3. Recipients(p) \subseteq Players
      BY Rows DEF Recipients, SourceRows
    <3> HIDE DEF m
    <3>4. Sent(Recipients(p) \ Full(p), m) \in [Players -> Seq(Downward)]
      BY <3>2, <3>3, SentIs, Rows
    <3> QED
      BY <3>4 DEF Forwarded, m
  <2>7. toHost' \in [Players -> Seq(Upward)] /\ toClient' \in [Players -> Seq(Downward)]
    BY <2>1, <2>5, <2>6, RestIs, ShutIs
  <2> QED
    BY <2>2, <2>3, <2>4, <2>7, Rows DEF Heard
<1> QED
  BY <1>1, <1>2

LEMMA HearTypes == ASSUME TypeOK, NEW p \in Players, Hear(p) PROVE TypeOK'
<1> DEFINE m == Head(toHost[p])
<1>1. toHost[p] # <<>> /\ serial' = serial
      /\ UNCHANGED <<player, link, used, demand, video, incoming, picture, allowed, authority>>
  BY DEF Hear
<1>2. m \in Upward
  BY <1>1, RestIs
<1>3. Heard /\ Bounds'
  <2>1. Free => Bounds'
    BY DEF Free, TypeOK, PlayersTyped, Bounds
  <2>2. CASE m.kind = "auth" /\ Free /\ HearAuth(p)
    BY <1>1, <2>1, <2>2, HearAuthIs
  <2>3. CASE m.kind = "options" /\ live[p] /\ Free /\ HearOptions(p, m)
    <3>1. m \in Wishing
      BY <1>2, <2>3 DEF Upward, Frames, Auth, Closed
    <3> QED
      BY <1>1, <2>1, <2>3, <3>1, HearOptionsIs
  <2>4. CASE m.kind = "video" /\ live[p] /\ HearVideo(p, m) /\ UNCHANGED peers
    <3>1. m \in Frames
      BY <1>2, <2>4, Messages
    <3> QED
      BY <1>1, <2>4, <3>1, HearVideoIs
  <2>5. CASE /\ Free /\ live' = [live EXCEPT ![p] = FALSE] /\ toHost' = Rest(p)
             /\ UNCHANGED <<peers, sources, toClient>>
    BY <1>1, <2>1, <2>5, Rows, RestIs DEF Heard
  <2> QED
    BY <2>2, <2>3, <2>4, <2>5 DEF Hear
<1>4. SourceRows' = SourceRows
  BY <1>1, SameSerial DEF SourceRows
<1> QED
  BY <1>1, <1>3, SameSerial DEF Heard, SourceRows, PeerRows, TypeOK, PlayersTyped, Bounds, LinksTyped,
     VideoTyped, HostTyped, player, video

LEMMA ResetTypes == ASSUME TypeOK, Reset PROVE TypeOK'
<1>1. serial' = serial /\ Shut(Players, toClient, toHost)
      /\ UNCHANGED <<player, link, used, demand, video, incoming, picture, allowed>>
  BY DEF Reset
<1>2. Bounds'
  BY DEF Reset, Fault, Faults, TypeOK, PlayersTyped, Bounds
<1>3. NoSource \in SourceRows /\ Closed \in Downward
  BY Rows DEF NoSource, SourceRows, Downward
<1>4. toHost' \in [Players -> Seq(Upward)] /\ toClient' \in [Players -> Seq(Downward)]
  BY <1>1, <1>3, Rows, ShutIs
<1>5. /\ peers' \in [Players -> PeerRows] /\ live' \in [Players -> BOOLEAN]
      /\ sources' \in [Players -> SourceRows]
      /\ authority' \in [Players -> {"out", "idle", "open"}]
  BY <1>3, Rows DEF Reset
<1> QED
  BY <1>1, <1>2, <1>4, <1>5, SameSerial DEF SourceRows, PeerRows, TypeOK, PlayersTyped, Bounds,
     LinksTyped, VideoTyped, HostTyped, player, video

----------------------------------------------------------------------------
(* The relay decides which streams start, and numbers them. *)

\* The streams that start in one turn get different numbers.
LEMMA Numbers ==
    ASSUME NEW R, R \subseteq Players
    PROVE  /\ Cardinality(R) \in Nat
           /\ \A p \in R : Cardinality(R \cap 1 .. p) \in 1 .. Cardinality(R)
           /\ \A p, q \in R : p # q => Cardinality(R \cap 1 .. p) # Cardinality(R \cap 1 .. q)
<1>1. IsFiniteSet(R) /\ R \subseteq Nat \ {0}
  BY PlayersAre, FS_Subset
<1>2. Cardinality(R) \in Nat
  BY <1>1, FS_CardinalityType
<1>3. ASSUME NEW p \in R
      PROVE  /\ IsFiniteSet(R \cap 1 .. p) /\ Cardinality(R \cap 1 .. p) \in Nat
             /\ Cardinality(R \cap 1 .. p) <= Cardinality(R)
             /\ p \in R \cap 1 .. p
  <2>1. R \cap 1 .. p \in SUBSET R
    OBVIOUS
  <2>2. IsFiniteSet(R \cap 1 .. p) /\ Cardinality(R \cap 1 .. p) <= Cardinality(R)
    BY <1>1, <2>1, FS_Subset
  <2>3. Cardinality(R \cap 1 .. p) \in Nat
    BY <2>2, FS_CardinalityType
  <2> QED
    BY <1>1, <2>2, <2>3
<1>4. ASSUME NEW p \in R PROVE Cardinality(R \cap 1 .. p) # 0
  BY <1>3, FS_EmptySet
<1>5. ASSUME NEW p \in R, NEW q \in R, p < q
      PROVE  Cardinality(R \cap 1 .. p) # Cardinality(R \cap 1 .. q)
  <2>1. R \cap 1 .. p \in SUBSET (R \cap 1 .. q)
    BY <1>1, <1>5
  <2>2. q \notin R \cap 1 .. p /\ q \in R \cap 1 .. q
    BY <1>1, <1>5
  <2> QED
    BY <1>3, <2>1, <2>2, FS_Subset
<1>6. \A p, q \in R : p # q => p < q \/ q < p
  BY <1>1
<1>7. ASSUME NEW p \in R PROVE Cardinality(R \cap 1 .. p) \in 1 .. Cardinality(R)
  <2>1. /\ Cardinality(R \cap 1 .. p) \in Nat /\ Cardinality(R \cap 1 .. p) # 0
        /\ Cardinality(R \cap 1 .. p) <= Cardinality(R)
    BY <1>3, <1>4
  <2> QED
    BY <1>2, <2>1
<1>8. ASSUME NEW p \in R, NEW q \in R, p # q
      PROVE  Cardinality(R \cap 1 .. p) # Cardinality(R \cap 1 .. q)
  BY <1>5, <1>6, <1>8
<1> QED
  BY <1>2, <1>7, <1>8

\* The peers whose sockets the relay still has.
Left == [p \in Players |-> IF live[p] THEN peers[p] ELSE NoPeer]

LEMMA LeftIs == ASSUME TypeOK PROVE Left \in [Players -> PeerRows]
  BY Rows DEF Left

LEMMA RestartedIs ==
    ASSUME TypeOK, NEW left \in [Players -> PeerRows]
    PROVE  /\ Restarted(left) \subseteq Players
           /\ Cardinality(Restarted(left)) \in Nat
           /\ \A p \in Restarted(left) :
                Number(left, p) \in serial + 1 .. serial + Cardinality(Restarted(left))
           /\ \A p, q \in Restarted(left) : p # q => Number(left, p) # Number(left, q)
<1>1. Restarted(left) \subseteq Players /\ serial \in Nat
  BY DEF Restarted, TypeOK, HostTyped
<1> DEFINE C(p) == Cardinality(Restarted(left) \cap 1 .. p)
<1>2. /\ Cardinality(Restarted(left)) \in Nat
      /\ \A p \in Restarted(left) : C(p) \in 1 .. Cardinality(Restarted(left))
      /\ \A p, q \in Restarted(left) : p # q => C(p) # C(q)
  BY <1>1, Numbers
<1>3. \A p : Number(left, p) = serial + C(p)
  BY DEF Number
<1> HIDE DEF C
<1> QED
  BY <1>1, <1>2, <1>3

LEMMA DesiredIs ==
    ASSUME NEW left \in [Players -> PeerRows], NEW p \in Players, Watching(left, p) # {}
    PROVE  Desired(left, p) \in 0 .. 2
<1> DEFINE S == {left[v].watch.profile : v \in Watching(left, p)}
<1>1. ASSUME NEW v \in Watching(left, p) PROVE left[v].watch.profile \in 1 .. 2
  <2>1. v \in Players /\ left[v].watch.target = p /\ p # 0
    BY PlayersAre DEF Watching
  <2>2. left[v].watch \in Watches
    BY <2>1 DEF PeerRows
  <2> QED
    BY <2>1, <2>2 DEF Watches, NoWatch
<1>2. S \subseteq {1, 2} /\ S # {}
  BY <1>1
<1>3. Desired(left, p) = Max(S)
  BY DEF Desired
<1> HIDE DEF S
<1>4. \E x \in S : \A y \in S : x >= y
  <2>1. CASE 2 \in S
    BY <1>2, <2>1
  <2>2. CASE 2 \notin S
    <3>1. \A y \in S : y = 1
      BY <1>2, <2>2
    <3>2. PICK x \in S : TRUE
      BY <1>2
    <3> QED
      BY <3>1, <3>2
  <2> QED
    BY <2>1, <2>2
<1>5. Max(S) \in S
  BY <1>4 DEF Max
<1>6. Max(S) = 1 \/ Max(S) = 2
  BY <1>2, <1>5
<1> QED
  BY <1>3, <1>6

LEMMA RefreshedIs ==
    ASSUME TypeOK, NEW left \in [Players -> PeerRows],
           serial' = serial + Cardinality(Restarted(left))
    PROVE  Refreshed(left) \in [Players -> SourceRows']
<1>1. serial \in Nat /\ serial' \in Nat /\ serial' >= serial
  BY RestartedIs DEF TypeOK, HostTyped
<1>2. Streams \subseteq Streams' /\ 0 \in Streams'
  BY <1>1, HigherSerial DEF Streams
<1>3. SourceRows \subseteq SourceRows'
  BY <1>2 DEF SourceRows
<1>4. NoSource \in SourceRows'
  BY <1>2 DEF NoSource, SourceRows
<1>5. ASSUME NEW p \in Restarted(left)
      PROVE  [NoSource EXCEPT !.stream = Number(left, p), !.profile = Desired(left, p),
                              !.viewers = Watching(left, p)] \in SourceRows'
  <2>1. p \in Players /\ Watching(left, p) # {} /\ Watching(left, p) \subseteq Players
    BY <1>5 DEF Restarted, Watching
  <2>2. Number(left, p) \in Streams'
    BY <1>1, <1>5, RestartedIs DEF Streams
  <2>3. Desired(left, p) \in 0 .. 2
    BY <2>1, DesiredIs
  <2> QED
    BY <1>4, <2>1, <2>2, <2>3 DEF SourceRows
<1>6. \A p \in Players : sources[p] \in SourceRows'
  BY <1>3, Rows
<1> QED
  BY <1>4, <1>5, <1>6 DEF Refreshed

LEMMA MoreSequences == ASSUME NEW M, NEW N, M \subseteq N PROVE Seq(M) \subseteq Seq(N)
  OBVIOUS

\* What has its type keeps it when more streams have a number.
LEMMA Widened ==
    ASSUME TypeOK, serial' \in Nat, serial' >= serial,
           UNCHANGED <<player, link, used, demand, video, incoming, picture>>
    PROVE  /\ demand' \in [Players -> Streams'] /\ incoming' \in [Players -> Seq(Frames')]
           /\ VideoTyped'
           /\ toHost \in [Players -> Seq(Upward')] /\ toClient \in [Players -> Seq(Downward')]
<1>1. /\ Streams \subseteq Streams' /\ Seq(Frames) \subseteq Seq(Frames')
      /\ Seq(Upward) \subseteq Seq(Upward') /\ Seq(Downward) \subseteq Seq(Downward')
  BY HigherSerial, MoreSequences DEF TypeOK, HostTyped
<1>2. /\ demand' \in [Players -> Streams'] /\ incoming' \in [Players -> Seq(Frames')]
      /\ toHost \in [Players -> Seq(Upward')] /\ toClient \in [Players -> Seq(Downward')]
  BY <1>1 DEF TypeOK, LinksTyped
<1>3. /\ Captures \subseteq Captures' /\ Counts \subseteq Counts'
      /\ Chains \subseteq Chains' /\ Pictures \subseteq Pictures'
  BY <1>1 DEF Captures, Counts, Chains, Pictures
<1>4. VideoTyped'
  BY <1>3 DEF TypeOK, VideoTyped, video
<1> QED
  BY <1>2, <1>4

LEMMA TurnTypes == ASSUME TypeOK, Turn PROVE TypeOK'
<1> DEFINE next == Refreshed(Left)
           told == {p \in Players : live[p] /\ Demand(next[p]) # Demand(sources[p])}
           gone == {p \in Players : live[p] /\ allowed[p] = "out"}
           m == [p \in Players |-> Control(next[p].stream)]
<1>1. /\ Free /\ UNCHANGED <<player, link, used, demand, video, incoming, picture, allowed>>
      /\ sources' = next /\ authority' = allowed
      /\ serial' = serial + Cardinality(Restarted(Left))
      /\ peers' = [p \in Players |-> IF p \in gone THEN NoPeer ELSE Left[p]]
      /\ live' = [p \in Players |-> live[p] /\ p \notin gone]
      /\ Shut(gone, Sent(told, m), toHost)
  BY DEF Turn, Left
<1>2. Left \in [Players -> PeerRows]
  BY LeftIs
<1>3. serial' \in Nat /\ serial' >= serial
  BY <1>1, <1>2, RestartedIs DEF TypeOK, HostTyped
<1>4. next \in [Players -> SourceRows']
  BY <1>1, <1>2, RefreshedIs
<1>5. peers' \in [Players -> PeerRows] /\ live' \in [Players -> BOOLEAN]
  BY <1>1, <1>2, Rows
<1>6. /\ demand' \in [Players -> Streams'] /\ incoming' \in [Players -> Seq(Frames')]
      /\ VideoTyped'
      /\ toHost \in [Players -> Seq(Upward')] /\ toClient \in [Players -> Seq(Downward')]
  BY <1>1, <1>3, Widened
<1>7. \A p \in told : m[p] \in Downward'
  BY <1>4 DEF Control, SourceRows, Downward
<1>8. Sent(told, m) \in [Players -> Seq(Downward')]
  <2> HIDE DEF told, m
  <2> QED
    BY <1>6, <1>7, SentIs
<1>9. toHost' \in [Players -> Seq(Upward')] /\ toClient' \in [Players -> Seq(Downward')]
  <2>1. Closed \in Downward'
    BY DEF Downward
  <2> HIDE DEF told, m, gone
  <2> QED
    BY <1>1, <1>6, <1>8, <2>1, ShutIs
<1>10. LinksTyped' /\ PlayersTyped'
  BY <1>1, <1>6, <1>9 DEF Free, TypeOK, LinksTyped, PlayersTyped, Bounds, player
<1>11. HostTyped'
  BY <1>1, <1>3, <1>4, <1>5 DEF TypeOK, HostTyped, PeerRows, SourceRows
<1> QED
  BY <1>6, <1>10, <1>11 DEF TypeOK

----------------------------------------------------------------------------
(* The types, always. *)

LEMMA InitTypes == Init => TypeOK
<1> SUFFICES ASSUME Init PROVE TypeOK
  OBVIOUS
<1>1. PICK c \in Scenarios :
         /\ moves = c.moves /\ fault = c.fault /\ frames = c.frames
         /\ watch \in [Players -> {NoWatch} \cup [target : Sources, request : {1}, profile : {1}]]
  BY DEF Init
<1>2. Bounds
  BY <1>1 DEF Bounds
<1>3. {NoWatch} \cup [target : Sources, request : {1}, profile : {1}] \subseteq Watches
  BY DEF Watches
<1>4. watch \in [Players -> Watches]
  BY <1>1, <1>3
<1>5. \A w \in Watches : w.request \in Nat
  BY DEF Watches, NoWatch
<1>6. requests \in [Players -> Nat]
  BY <1>4, <1>5 DEF Init
<1>7. serial = 0 /\ 0 \in Streams /\ NoWatch \in Watches
  BY DEF Init, Streams, Watches
<1>8. Options(TRUE, NoWatch) \in Wishing
  BY <1>7 DEF Options, Wishing
<1>9. \A M : <<>> \in Seq(M)
  OBVIOUS
<1>10. PlayersTyped
  BY <1>2, <1>4, <1>6 DEF Init, PlayersTyped, Bounds
<1>11. LinksTyped
  BY <1>7, <1>8, <1>9 DEF Init, LinksTyped
<1>12. VideoTyped
  BY <1>7 DEF Init, VideoTyped, NoCapture, NoPicture, NoChain, Counts, Chains, Pictures
<1>13. HostTyped
  <2>1. NoPeer \in PeerRows /\ NoSource \in SourceRows
    BY <1>7 DEF NoPeer, NoSource, PeerRows, SourceRows
  <2>2. [NoPeer EXCEPT !.on = TRUE] \in PeerRows
    BY <2>1 DEF PeerRows
  <2> QED
    BY <1>7, <2>1, <2>2 DEF Init, HostTyped, PeerRows, SourceRows
<1> QED
  BY <1>10, <1>11, <1>12, <1>13 DEF TypeOK

LEMMA TypesStep == TypeOK /\ [Next]_vars => TypeOK'
<1> SUFFICES ASSUME TypeOK, [Next]_vars PROVE TypeOK'
  OBVIOUS
<1>1. CASE Turn \/ Reset
  BY <1>1, TurnTypes, ResetTypes
<1>2. ASSUME NEW v \in Viewers, Close(v) \/ Retune(v) \/ \E s \in Sources : Open(v, s)
      PROVE  TypeOK'
  BY <1>2, CloseTypes, RetuneTypes, OpenTypes
<1>3. ASSUME NEW p \in Players, Hear(p) \/ Advertise(p) \/ Toggle(p) \/ Lose(p) \/ Expire(p)
      PROVE  TypeOK'
  BY <1>3, HearTypes, AdvertiseTypes, ToggleTypes, LoseTypes, ExpireTypes
<1>4. ASSUME NEW p \in Players, Transport(p)
      PROVE  TypeOK'
  BY <1>4, ConnectTypes, SendOptionsTypes, ReadTypes DEF Transport
<1>5. ASSUME NEW p \in Players, Video(p)
      PROVE  TypeOK'
  BY <1>5, TakeCaptureTypes, QueueTypes, SubmitTypes, DecodeTypes DEF Video
<1>6. CASE UNCHANGED vars
  BY <1>6, SameSerial DEF vars, TypeOK, PlayersTyped, Bounds, LinksTyped, VideoTyped, HostTyped
<1> QED
  BY <1>1, <1>2, <1>3, <1>4, <1>5, <1>6 DEF Next

\* Types, and with them: no number of a stream is anywhere before the relay has
\* given it.
THEOREM SpectateTypes == Spec => []TypeOK
<1>1. Init => TypeOK
  BY InitTypes
<1>2. TypeOK /\ [Next]_vars => TypeOK'
  BY TypesStep
<1> QED
  BY <1>1, <1>2, PTL DEF Spec

----------------------------------------------------------------------------
(* Numbers are fresh. *)

LEMMA CarriedIs ==
    ASSUME NEW M, NEW q \in Seq(M),
           \A m \in M : m.kind \in {"capture", "video"} => m.stream \in Streams
    PROVE  Carried(q) \subseteq Streams
  BY DEF Carried

\* What is in use has been given.
LEMMA InUseIs == ASSUME TypeOK, NEW p \in Players PROVE InUse(p) \subseteq Streams
<1>1. /\ sources[p].stream \in Streams /\ demand[p] \in Streams /\ captured[p].stream \in Streams
      /\ encoder[p].stream \in Streams /\ picture[p].stream \in Streams
  BY Rows DEF TypeOK, LinksTyped, VideoTyped, SourceRows, Counts, Chains, Pictures
<1>9. {c.stream : c \in capture[p]} \subseteq Streams
  BY DEF TypeOK, VideoTyped, Captures
<1>2. /\ incoming[p] \in Seq(Frames) /\ toHost[p] \in Seq(Upward)
      /\ toClient[p] \in Seq(Downward)
  BY DEF TypeOK, LinksTyped
<1>3. \A m \in Frames : m.stream \in Streams
  BY DEF Frames
<1>4. Carried(incoming[p]) \subseteq Streams
  BY <1>2, <1>3, CarriedIs
<1>5. \A m \in Downward : m.kind \in {"capture", "video"} => m.stream \in Streams
  BY <1>3, Messages
<1>6. Carried(toClient[p]) \subseteq Streams
  BY <1>2, <1>5, CarriedIs
<1>7. \A m \in Upward : m.kind \in {"capture", "video"} => m.stream \in Streams
  <2>1. \A m \in Upward : m.kind # "capture"
    BY DEF Upward, Wishing, Frames, Auth, Closed
  <2> QED
    BY <1>3, <2>1, Messages
<1>8. Carried(toHost[p]) \subseteq Streams
  BY <1>2, <1>7, CarriedIs
<1> QED
  BY <1>1, <1>4, <1>6, <1>8, <1>9 DEF InUse

\* A stream that the relay starts.
Started(p) == sources'[p].stream \notin {0, sources[p].stream}

\* A message starts no stream, it can only end one.
LEMMA HearStartsNone == ASSUME TypeOK, NEW p \in Players, Hear(p), NEW q \in Players PROVE ~Started(q)
<1>1. \A S : Stale(S)[q].stream \in {0, sources[q].stream}
  <2>1. sources[q] \in SourceRows
    BY Rows
  <2> QED
    BY <2>1 DEF Stale, SourceRows
<1>2. ASSUME NEW f, sources' = [sources EXCEPT ![p].n = f.n, ![p].key = @ \/ f.key,
                                  ![p].stream = IF Congested(p) = {} THEN @ ELSE 0]
      PROVE  sources'[q].stream \in {0, sources[q].stream}
  BY <1>2, Rows DEF SourceRows
<1>3. sources' = sources => sources'[q].stream \in {0, sources[q].stream}
  OBVIOUS
<1> DEFINE m == Head(toHost[p])
<1>4. HearAuth(p) => sources' = sources \/ sources' = Stale(Rejoined(p))
  BY DEF HearAuth
<1>5. HearOptions(p, m) => sources' = sources \/ sources' = Stale({m.watch.target})
  BY DEF HearOptions
<1>6. HearVideo(p, m) => \/ sources' = sources
                        \/ sources' = [sources EXCEPT ![p].n = m.n, ![p].key = @ \/ m.key,
                                         ![p].stream = IF Congested(p) = {} THEN @ ELSE 0]
  BY DEF HearVideo
<1>7. HearAuth(p) \/ HearOptions(p, m) \/ HearVideo(p, m) \/ sources' = sources
  BY DEF Hear
<1> QED
  BY <1>1, <1>2, <1>3, <1>4, <1>5, <1>6, <1>7 DEF Started

LEMMA StartsInTurn ==
    ASSUME TypeOK, [Next]_vars, NEW q \in Players, Started(q)
    PROVE  Turn
<1>1. ASSUME Reset PROVE ~Started(q)
  BY <1>1 DEF Reset, Started, NoSource
<1>2. sources' # sources
  BY DEF Started
<1>3. ASSUME NEW v \in Viewers, Close(v) \/ Retune(v) \/ \E s \in Sources : Open(v, s)
      PROVE  FALSE
  BY <1>2, <1>3 DEF Close, Retune, Open, host
<1>4. ASSUME NEW p \in Players, Advertise(p) \/ Toggle(p) \/ Lose(p) \/ Expire(p)
      PROVE  FALSE
  BY <1>2, <1>4 DEF Advertise, Toggle, Lose, Expire, host
<1>5. ASSUME NEW p \in Players, Transport(p) \/ Video(p)
      PROVE  FALSE
  <2>1. CASE Connect(p) \/ SendOptions(p) \/ Read(p)
    BY <1>2, <2>1 DEF Connect, SendOptions, Read, host
  <2>2. CASE TakeCapture(p) \/ Queue(p) \/ Submit(p) \/ Decode(p)
    BY <1>2, <2>2 DEF TakeCapture, Queue, Submit, Decode, host
  <2> QED
    BY <1>5, <2>1, <2>2 DEF Transport, Video
<1>6. ASSUME NEW p \in Players, Hear(p) PROVE FALSE
  BY <1>6, HearStartsNone
<1>7. ~UNCHANGED vars
  BY <1>2 DEF vars
<1> QED
  BY <1>1, <1>3, <1>4, <1>5, <1>6, <1>7 DEF Next

\* In a turn, a stream is as it was, or ended, or has its number of the turn.
LEMMA TurnNumbers ==
    ASSUME TypeOK, Turn, NEW p \in Players
    PROVE  \/ ~Started(p)
           \/ p \in Restarted(Left) /\ sources'[p].stream = Number(Left, p)
<1>1. sources' = Refreshed(Left)
  BY DEF Turn, Left
<1>2. Refreshed(Left)[p] =
        (IF ~Left[p].on \/ Watching(Left, p) = {} THEN NoSource
         ELSE IF p \in Restarted(Left)
         THEN [NoSource EXCEPT !.stream = Number(Left, p), !.profile = Desired(Left, p),
                               !.viewers = Watching(Left, p)]
         ELSE sources[p])
  BY DEF Refreshed
<1>3. NoSource.stream = 0
  BY DEF NoSource
<1>4. p \in Restarted(Left) =>
        [NoSource EXCEPT !.stream = Number(Left, p), !.profile = Desired(Left, p),
                         !.viewers = Watching(Left, p)].stream = Number(Left, p)
  BY DEF NoSource
<1> QED
  BY <1>1, <1>2, <1>3, <1>4 DEF Started

LEMMA FreshStep ==
    ASSUME TypeOK, [Next]_vars, NEW p \in Players, Started(p), NEW q \in Players
    PROVE  /\ sources'[p].stream \notin InUse(q)
           /\ q # p => sources'[q].stream # sources'[p].stream
<1>1. Turn /\ p \in Restarted(Left) /\ sources'[p].stream = Number(Left, p)
  BY StartsInTurn, TurnNumbers
<1>2. Left \in [Players -> PeerRows]
  BY LeftIs
<1>3. serial \in Nat /\ Number(Left, p) \in Nat /\ Number(Left, p) > serial
  BY <1>1, <1>2, RestartedIs DEF TypeOK, HostTyped
<1>4. sources'[p].stream \notin Streams
  BY <1>1, <1>3 DEF Streams
<1>5. ASSUME q # p PROVE sources'[q].stream # sources'[p].stream
  <2>1. CASE Started(q)
    BY <1>1, <1>2, <1>5, <2>1, TurnNumbers, RestartedIs
  <2>2. CASE ~Started(q)
    BY <1>4, <2>2, Rows DEF Started, SourceRows
  <2> QED
    BY <2>1, <2>2
<1> QED
  BY <1>4, <1>5, InUseIs

\* A number that the relay gives to a stream is new to every player, queue and
\* decoder, also after a reset, and is given to one source only.
THEOREM NumbersAreFresh == Spec => FreshStreams
<1>1. TypeOK /\ [Next]_vars =>
        [\A p \in Players : sources'[p].stream \notin {0, sources[p].stream} =>
           \A q \in Players : /\ sources'[p].stream \notin InUse(q)
                              /\ q # p => sources'[q].stream # sources'[p].stream]_vars
  BY FreshStep DEF Started
<1>2. Spec => []TypeOK
  BY SpectateTypes
<1> QED
  BY <1>1, <1>2, PTL DEF Spec, FreshStreams
=============================================================================
