----------------------------- MODULE AudioStreams -----------------------------
(***************************************************************************)
(* The PCM streams of the audio thread (src/src/audio/processing.cpp): one *)
(* for every input and output of the graph that is a port of a sound card, *)
(* opened when the graph is rebuilt and serviced in every block.  Cards    *)
(* come and go, calls fail, and the buffers grow and shrink (BufferLevel). *)
(* The graph is published by other threads (Routing); here, only its cards *)
(* matter, and whether an effect was added to it.                          *)
(***************************************************************************)
EXTENDS Integers, FiniteSets, Functions

CONSTANTS
    Device, NoDevice,
    Ports,        \* the directions, "in" and "out", that each device has
    Slots,        \* card indices of ALSA
    AtFirst,      \* the cards that may be plugged in at the start
    MaxStreams,   \* kMaxCaptureStreams, kMaxPlaybackStreams
    Retry,        \* kReopenRetryBlocks
    Ring, Block,  \* kCaptureRingFrames, BUFFER_FRAMES
    MaxSize,      \* of the buffers: the last level of BufferLevel
    MaxCardEvents \* bound: changes of cards and of levels, requests and failing calls

VARIABLES
    hw,       \* the cards that are plugged in
    listed,   \* ctx->devices, with deviceGeneration
    pub,      \* the published graph
    bt,       \* the reload of the Bluetooth thread: where it is, what it has read
    size,     \* adaptiveAudioBuffer.level()
    at,       \* the audio thread: where it is in a block
    snapshot, \* RuntimeGraph::snapshot
    streams,  \* the streams of each direction
    place,    \* AlsaCaptureBackend::nodeToStream, 0 for none
    busy,     \* the ports of present cards that a handle holds
    cardEvents \* of MaxCardEvents

sysVars   == <<hw, listed, pub, bt>>
audioVars == <<at, snapshot, streams, place, busy>>
streamsVars == <<sysVars, size, audioVars, cardEvents>>

\* A card has one index.
ASSUME StreamsAssumption ==
    /\ {Slots, MaxStreams, Retry, Ring, MaxSize, MaxCardEvents} \subseteq Nat /\ Block \in Nat \ {0}
    /\ NoDevice \notin Device /\ Ports \in [Device -> SUBSET {"in", "out"}]
    /\ AtFirst \subseteq [1..Slots -> Device \cup {NoDevice}]
    /\ \A cards \in AtFirst, s, r \in 1..Slots : cards[s] = cards[r] /\ s # r => cards[s] = NoDevice

-----------------------------------------------------------------------------
Dir  == {"in", "out"}
CardIndex == 1..Slots
CardEvent == cardEvents > 0 /\ cardEvents' = cardEvents - 1

\* The ports of the cards that are listed.  A graph is known by its cards; its things
\* are in their order.
PortOf(d, dev) == [dir |-> d, dev |-> dev]
Offers(cards, d) == {s \in CardIndex : cards[s] # NoDevice /\ d \in Ports[cards[s]]}
ThingsOf(cards) == UNION {{PortOf(d, cards[s]) : s \in Offers(cards, d)} : d \in Dir}
\* Which card's things come before which other's.
Listing(cards) == {<<cards[p[1]], cards[p[2]]>> : p \in {q \in CardIndex \X CardIndex :
    q[1] <= q[2] /\ {q[1], q[2]} \subseteq UNION {Offers(cards, d) : d \in Dir}}}
NoCards == [s \in CardIndex |-> NoDevice]

\* resolveThingCardDevice(): by the cards that are listed now.
Resolves(dev) == {s \in CardIndex : listed.cards[s] = dev}

RingReset(s) == [s EXCEPT !.count = 0, !.from = {}, !.pending = 0, !.offset = 0]

\* A stream before it is opened.  `opens` tells one handle from the next, `from` and
\* `of` whose sound is in the ring and in the block, `since` counts the blocks since
\* the stream was last tried.
FreshStream(t, s) == RingReset([
    node |-> t, slot |-> s, pcm |-> "none", retry |-> 0, since |-> 0, level |-> 0, opens |-> 0, count |-> 0, from |-> {}, pending |-> 0, offset |-> 0, of |-> 0])

\* A card that is there accepts some rate, format and period, in its own directions.
Accepts(d, s) == hw[s] # NoDevice /\ d \in Ports[hw[s]]
\* audio_pcm_open_configured(): a port is open once at a time.
CanOpen(d, s, held) == Accepts(d, s.slot) /\ <<d, s.slot>> \notin held
\* openCaptureStream() starts with an empty ring, openPlaybackStream() with nothing to write.
Live(s) == [s EXCEPT !.pcm = "live", !.opens = 1 - @, !.level = size, !.retry = 0, !.since = 0]
OpenedIn(s) == [Live(s) EXCEPT !.count = 0, !.from = {}]
OpenedOut(s) == [Live(s) EXCEPT !.pending = 0, !.offset = 0]
Opened(d, s) == IF d = "in" THEN OpenedIn(s) ELSE OpenedOut(s)
NotOpened(s) == [s EXCEPT !.retry = Retry, !.since = 0]

Closed(s) == [s EXCEPT !.pcm = "none"]
Releases(d, s) == IF s.pcm = "live" THEN {<<d, s.slot>>} ELSE {}

-----------------------------------------------------------------------------
StreamsInit ==
    /\ hw \in AtFirst
    /\ listed = [gen |-> 1, cards |-> hw]
    /\ pub = [gen |-> 1, top |-> 1, fx |-> FALSE, cards |-> hw]
    /\ bt = [pc |-> "idle", top |-> 0, fx |-> FALSE, cards |-> NoCards]
    /\ size = 0
    /\ at = [pc |-> "top", dir |-> "in", i |-> 1]
    /\ snapshot = [gen |-> 0, top |-> 0, fx |-> FALSE, cards |-> NoCards]
    /\ streams = [d \in Dir |-> <<>>] /\ place = <<>> /\ busy = {}
    /\ cardEvents = MaxCardEvents

-----------------------------------------------------------------------------
(* Cards, and the threads that publish graphs                              *)

PlugCard(s, d) ==
    /\ CardEvent /\ hw[s] = NoDevice /\ \A r \in CardIndex : hw[r] # d
    /\ hw' = [hw EXCEPT ![s] = d]
    /\ UNCHANGED <<listed, pub, bt, size, audioVars>>

\* The handles of a card that is gone are of no use, but stay open.
UnplugCard(s) ==
    /\ CardEvent /\ hw[s] # NoDevice /\ hw' = [hw EXCEPT ![s] = NoDevice]
    /\ busy' = {b \in busy : b[2] # s}
    /\ streams' = [d \in Dir |-> [i \in DOMAIN streams[d] |->
        IF streams[d][i].slot = s /\ streams[d][i].pcm = "live"
        THEN [streams[d][i] EXCEPT !.pcm = "dead"] ELSE streams[d][i]]]
    /\ UNCHANGED <<listed, pub, bt, size, at, snapshot, place>>

\* rescanDevices(), and then reloadRoutingGraph() until the graph is of this generation.
RescanCards ==
    /\ hw # listed.cards /\ listed' = [gen |-> listed.gen + 1, cards |-> hw]
    /\ UNCHANGED <<hw, pub, bt, size, audioVars, cardEvents>>
ReloadThings ==
    /\ pub.top # listed.gen
    /\ pub' = [pub EXCEPT !.gen = @ + 1, !.top = listed.gen, !.cards = listed.cards]
    /\ UNCHANGED <<hw, listed, bt, size, audioVars, cardEvents>>

\* A user's request that reloads the graph, perhaps after adding an effect.
Edit ==
    /\ CardEvent
    /\ \E fx \in BOOLEAN : pub' = [gen |-> pub.gen + 1, top |-> listed.gen, fx |-> fx,
                                   cards |-> listed.cards]
    /\ UNCHANGED <<hw, listed, bt, size, audioVars>>

\* The Bluetooth thread reads the generation, then the cards, and then publishes.
BtBegins ==
    /\ CardEvent /\ bt.pc = "idle" /\ bt' = [bt EXCEPT !.pc = "list", !.top = listed.gen]
    /\ UNCHANGED <<hw, listed, pub, size, audioVars>>
BtLists ==
    /\ bt.pc = "list"
    /\ bt' = [bt EXCEPT !.pc = "publish", !.cards = listed.cards, !.fx = pub.fx]
    /\ UNCHANGED <<hw, listed, pub, size, audioVars, cardEvents>>
BtPublishes ==
    /\ bt.pc = "publish"
    /\ pub' = [gen |-> pub.gen + 1, top |-> bt.top, fx |-> bt.fx, cards |-> bt.cards]
    /\ bt' = [pc |-> "idle", top |-> 0, fx |-> FALSE, cards |-> NoCards]
    /\ UNCHANGED <<hw, listed, size, audioVars, cardEvents>>

-----------------------------------------------------------------------------
(* The audio thread                                                        *)

\* Where the thread goes after stream i of a direction.
Service(d, i, some) ==
    IF i \in DOMAIN some[d] THEN [pc |-> "sync", dir |-> d, i |-> i]
    ELSE [pc |-> IF d = "in" THEN "render" ELSE "top", dir |-> "in", i |-> 1]
NextStream(some) == Service(at.dir, at.i + 1, some)

\* In the order of the cards of the graph, as many as there is room for.
Resolved(d) == {s \in Offers(pub.cards, d) : Resolves(pub.cards[s]) # {}}
Rank(d, s) == Cardinality({r \in Resolved(d) : r <= s})
Attached(d) == [i \in {Rank(d, s) : s \in Resolved(d)} \cap 1..MaxStreams |->
    LET dev == pub.cards[CHOOSE s \in Resolved(d) : Rank(d, s) = i]
    IN  FreshStream(PortOf(d, dev), CHOOSE s \in Resolves(dev) : TRUE)]

\* Mutant of TopologyChanged: only the things are compared.
LayoutChanged == pub.fx # snapshot.fx \/ Listing(pub.cards) # Listing(snapshot.cards)
TopologyChanged == pub.top # snapshot.top \/ LayoutChanged

\* rebuildRuntimeGraph(): every stream is closed and those of the new graph are opened.
Rebuild ==
    LET new == [d \in Dir |-> Attached(d)]
        old  == UNION {{<<d, i>> : i \in DOMAIN streams[d]} : d \in Dir}
        held == busy \ UNION {Releases(o[1], streams[o[1]][o[2]]) : o \in old}
        able == {o \in Dir \X (1..MaxStreams) :
                    o[2] \in DOMAIN new[o[1]] /\ CanOpen(o[1], new[o[1]][o[2]], held)}
    IN  \E ok \in SUBSET able :
        /\ IF ok = able THEN UNCHANGED cardEvents ELSE CardEvent
        /\ streams' = [d \in Dir |-> [i \in DOMAIN new[d] |->
            IF <<d, i>> \in ok THEN Opened(d, new[d][i]) ELSE NotOpened(new[d][i])]]
        /\ busy' = held \cup {<<o[1], new[o[1]][o[2]].slot>> : o \in ok}
        /\ place' = [t \in ThingsOf(pub.cards) |->
            IF \E i \in DOMAIN new["in"] : new["in"][i].node = t
            THEN CHOOSE i \in DOMAIN new["in"] : new["in"][i].node = t ELSE 0]

\* Otherwise they stay open, and are found again by the cards that are listed now.
Remap ==
    LET on(d, t) == {i \in DOMAIN streams[d] : t.dir = d /\ streams[d][i].slot \in Resolves(t.dev)}
        nodes(d, i) == {t \in ThingsOf(pub.cards) : i \in on(d, t)}
    IN  /\ place' = [t \in ThingsOf(pub.cards) |->
            IF on("in", t) = {} THEN 0 ELSE CHOOSE i \in on("in", t) : TRUE]
        /\ streams' = [d \in Dir |-> [i \in DOMAIN streams[d] |->
            IF nodes(d, i) = {} THEN streams[d][i]
            ELSE [streams[d][i] EXCEPT !.node = CHOOSE t \in nodes(d, i) : TRUE]]]
        /\ UNCHANGED <<busy, cardEvents>>

TakeGraph ==
    /\ at.pc = "top" /\ pub.gen # snapshot.gen /\ snapshot' = pub
    /\ IF TopologyChanged THEN Rebuild ELSE Remap
    /\ at' = Service("in", 1, streams')
    /\ UNCHANGED <<sysVars, size>>

\* AdaptiveAudioBuffer::tick() may take the level down.
StartBlock ==
    /\ at.pc = "top" /\ pub.gen = snapshot.gen /\ snapshot.gen # 0
    /\ size' \in {size} \cup {l \in 0..MaxSize : l = size - 1}
    /\ IF size' = size THEN UNCHANGED cardEvents ELSE CardEvent
    /\ at' = Service("in", 1, streams)
    /\ UNCHANGED <<sysVars, snapshot, streams, place, busy>>

-----------------------------------------------------------------------------
(* One stream                                                              *)

\* syncCaptureBuffer(), syncPlaybackBuffer(): a handle with an old buffer is closed.
Stale(s) == s.pcm # "none" /\ s.level # size
Synced(s) == IF Stale(s) THEN [Closed(RingReset(s)) EXCEPT !.retry = 0] ELSE s
Served == streams[at.dir][at.i]
Becomes(s) == streams' = [streams EXCEPT ![at.dir][at.i] = s]
HeldAfterSync == IF Stale(Served) THEN busy \ Releases(at.dir, Served) ELSE busy

ToIo == at' = [at EXCEPT !.pc = "io"]
ToNext == at' = NextStream(streams)
Frame == UNCHANGED <<sysVars, snapshot, place>>

StayOpen ==
    /\ at.pc = "sync" /\ Synced(Served).pcm # "none" /\ ToIo
    /\ Frame /\ UNCHANGED <<size, streams, busy, cardEvents>>

\* maybeReopen: not before `retry` blocks have passed.
WaitToReopen ==
    /\ at.pc = "sync" /\ Served.pcm = "none" /\ Served.retry > 0 /\ ToNext
    /\ Becomes([Served EXCEPT !.retry = @ - 1, !.since = @ + 1])
    /\ Frame /\ UNCHANGED <<size, busy, cardEvents>>

Reopen ==
    LET s == Synced(Served) IN
    /\ at.pc = "sync" /\ s.pcm = "none" /\ s.retry = 0
    /\ CanOpen(at.dir, s, HeldAfterSync) /\ Becomes(Opened(at.dir, s)) /\ ToIo
    /\ busy' = HeldAfterSync \cup {<<at.dir, s.slot>>}
    /\ Frame /\ UNCHANGED <<size, cardEvents>>

CannotReopen ==
    LET s == Synced(Served) IN
    /\ at.pc = "sync" /\ s.pcm = "none" /\ s.retry = 0
    /\ IF CanOpen(at.dir, s, HeldAfterSync) THEN CardEvent ELSE UNCHANGED cardEvents
    /\ Becomes(NotOpened(s)) /\ ToNext /\ busy' = HeldAfterSync
    /\ Frame /\ UNCHANGED size

\* The handle is given up and the stream tried again later.
Lose(s) ==
    /\ Becomes([Closed(s) EXCEPT !.retry = Retry, !.since = 0])
    /\ busy' = busy \ Releases(at.dir, s)

\* A card that is gone says so (ENODEV); any other may have had an overrun or an
\* underrun (EPIPE), which counts towards a higher level, and is recovered from, or not.
Fails(kept, lost) ==
    \/ Served.pcm = "dead" /\ Lose(lost) /\ UNCHANGED <<size, cardEvents>>
    \/ /\ Served.pcm = "live" /\ CardEvent
       /\ size' \in {size} \cup {l \in 0..MaxSize : l = size + 1}
       /\ \/ Becomes(kept) /\ UNCHANGED busy
          \/ Lose(lost)

\* The ring takes n frames, and they are those of this handle.
Pushed(s, n) == [s EXCEPT !.count = @ + n,
                          !.from = IF n > 0 THEN @ \cup {s.opens} ELSE @]

\* serviceCaptureIo(): reads until the ring is full or the card has no more.
Capture ==
    /\ at.pc = "io" /\ at.dir = "in" /\ ToNext /\ Frame
    /\ \/ \E n \in 0..(Ring - Served.count) :
            /\ Served.pcm = "live" /\ Becomes(Pushed(Served, n))
            /\ UNCHANGED <<size, busy, cardEvents>>
       \/ \E n \in {m \in 0..(Ring - Served.count) : m % Block = 0 /\ m # Ring - Served.count} :
            /\ Served.pcm = "dead" => n = 0
            /\ Fails(Pushed(Served, n), Pushed(Served, n))

\* renderCaptureSource() reads the rings of the inputs that are in the graph.
Heard(i) == \E t \in DOMAIN place : place[t] = i
Read(s, n) == [s EXCEPT !.count = @ - n, !.from = IF s.count = n THEN {} ELSE @]
Dropped(s) == [s EXCEPT !.pending = 0, !.offset = 0]
\* beginAudioSleep() drops what was left to play (AudioIdle says when).
Emptied(some) == [i \in DOMAIN some |-> Dropped(some[i])]

Render ==
    /\ at.pc = "render" /\ at' = Service("out", 1, streams)
    /\ \E n \in [DOMAIN streams["in"] -> 0..Ring], asleep \in BOOLEAN :
        /\ \A i \in DOMAIN n : n[i] <= streams["in"][i].count /\ (~Heard(i) => n[i] = 0)
        /\ IF asleep THEN CardEvent ELSE UNCHANGED cardEvents
        /\ streams' = [d \in Dir |-> IF d = "in" THEN [i \in DOMAIN n |-> Read(streams[d][i], n[i])]
                                   ELSE IF asleep THEN Emptied(streams[d]) ELSE streams[d]]
    /\ Frame /\ UNCHANGED <<size, busy>>

\* servicePlaybackIo(): a block is prepared when the last one has been written, and as
\* much of it written as the card takes; an error drops the rest.
Prepared(s) == IF s.pending = 0 THEN [s EXCEPT !.pending = Block, !.offset = 0, !.of = s.opens] ELSE s
Written(s, n) == IF s.offset + n = s.pending THEN Dropped(s) ELSE [s EXCEPT !.offset = @ + n]
Play ==
    LET s == Prepared(Served) IN
    /\ at.pc = "io" /\ at.dir = "out" /\ ToNext /\ Frame
    /\ \/ \E n \in 0..(s.pending - s.offset) :
            /\ s.pcm = "live" /\ Becomes(Written(s, n))
            /\ UNCHANGED <<size, busy, cardEvents>>
       \/ Fails(Dropped(s), Dropped(s))

Audio ==
    \/ TakeGraph \/ StartBlock \/ StayOpen \/ WaitToReopen \/ Reopen \/ CannotReopen
    \/ Capture \/ Render \/ Play

StreamsNext ==
    \/ \E s \in CardIndex : UnplugCard(s) \/ \E d \in Device : PlugCard(s, d)
    \/ RescanCards \/ ReloadThings \/ Edit \/ BtBegins \/ BtLists \/ BtPublishes
    \/ Audio

StreamsSpec == StreamsInit /\ [][StreamsNext]_streamsVars

-----------------------------------------------------------------------------
All(d) == Range(streams[d])

\* Every handle has its place: a port is held by just the stream of its direction
\* and card, so that none is left open when the graph changes (its card could never
\* be opened again) and none is closed twice (rebuildRuntimeGraph, closeAllStreams).
NoHandleIsLost ==
    \A d \in Dir, s \in CardIndex :
        (<<d, s>> \in busy) <=> \E r \in All(d) : r.slot = s /\ r.pcm = "live"

\* Once the thread has taken the newest graph and that graph is of the newest cards,
\* each input and output that there is room for has a stream on its own card, although
\* names are resolved by cards that may be listed after the graph was made (graph.cpp
\* reads the generation first) and a card may come back under another index.
SettledThings(d) == {PortOf(d, pub.cards[s]) : s \in Offers(pub.cards, d)}
StreamsMatchGraph ==
    snapshot.gen = pub.gen /\ pub.top = listed.gen =>
        /\ pub.cards = listed.cards
        /\ \A d \in Dir :
            /\ \A r \in All(d) : r.slot \in Resolves(r.node.dev)
            /\ \A i, j \in DOMAIN streams[d] : streams[d][i].slot = streams[d][j].slot => i = j
            /\ Cardinality(SettledThings(d)) <= MaxStreams =>
                {r.node : r \in All(d)} = SettledThings(d)
        /\ \A t \in DOMAIN place : place[t] # 0 => streams["in"][place[t]].node = t
        /\ \A i \in DOMAIN streams["in"] : Heard(i)

\* No card hears the rest of a block that was made for another handle, with its channels
\* and format, and no input is heard that an earlier handle left in the ring.
BlocksStayWhole ==
    \A d \in Dir : \A s \in All(d) :
        /\ s.pending > 0 => s.pcm # "none" /\ s.of = s.opens /\ s.offset < s.pending
        /\ s.pcm # "none" => s.from \subseteq {s.opens}
        /\ s.count \in 0..Ring

\* A stream that lost its card is tried again, at the latest after Retry blocks.
OfflineIsRetried == \A d \in Dir : \A s \in All(d) : s.pcm = "none" => s.since + s.retry = Retry

StreamsAreKept == NoHandleIsLost /\ StreamsMatchGraph /\ BlocksStayWhole /\ OfflineIsRetried

StreamsTyped ==
    /\ hw \in [CardIndex -> Device \cup {NoDevice}] /\ listed.cards \in [CardIndex -> Device \cup {NoDevice}]
    /\ size \in 0..MaxSize /\ at.pc \in {"top", "sync", "io", "render"}
    /\ \A d \in Dir : DOMAIN streams[d] \subseteq 1..MaxStreams
    /\ at.pc \in {"sync", "io"} => at.i \in DOMAIN streams[at.dir]
    /\ busy \subseteq Dir \X CardIndex /\ cardEvents \in Nat
=============================================================================
