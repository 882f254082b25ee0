------------------------------- MODULE Routing -------------------------------
(***************************************************************************)
(* How routing.txt becomes the routing graph: reloadRoutingGraph() of      *)
(* src/src/audio/graph.cpp with the file operations of config/router.cpp   *)
(* and the scans of audio/hotplug.cpp.  A reload reads the file again for  *)
(* every route, may write it back with the identifiers it should have, and *)
(* runs on the main thread (web interface, hotplug) and on the Bluetooth   *)
(* thread (paired devices); only the last step of it is under a mutex.     *)
(***************************************************************************)
EXTENDS Naturals, Sequences, SequencesExt, FiniteSets, Functions

CONSTANTS
    Slot,       \* card indices
    Card,       \* sound cards
    Nameless,   \* those without an ALSA name or a USB identity
    Speaker,    \* Bluetooth devices with an output
    Files,      \* what the user saves as routing.txt
    Empty,      \* the file while it is being written
    MaxEdges,   \* AUDIO_GRAPH_MAX_EDGES, the limit of the file also
    Initially,  \* the cards that may be plugged in at start, by index
    MaxEvents   \* bound: requests, changes of devices and faults, taken together

VARIABLES
    plugged,    \* the cards, by index
    seen,       \* devices: the cards as of the last scan
    generation, \* deviceGeneration
    wide,       \* channels of the effect, 0 when there is none
    paired,
    file,       \* routing.txt
    graph,      \* routingGraph
    th,         \* the two threads, each where it is in a reload
    user,       \* history: what the user saved last
    mixed,      \* history: a file was written while the other thread was at work on it,
                \*   or could not be written
    owed,       \* history: why the graph need not be that of the file: "asked" (nobody
                \*   reloaded it, or it was refused), "late" (of another thread), or "no"
    left        \* of MaxEvents

devVars == <<plugged, seen, generation>>
vars == <<devVars, wide, paired, file, graph, th, user, mixed, owed, left>>

-----------------------------------------------------------------------------
Thread == {"main", "bluetooth"}
Other(t) == CHOOSE o \in Thread : o # t
NoCard == "none"

\* Things are known by their kind and name.  A card is known by its name, by an
\* older alias of it, or by its index; "any" is the old identifier for every
\* Bluetooth output there is.
Sound  == <<"fixed", "soundboard">>
Fx     == <<"effect", "fx">>
Helper == <<"helper", "mixer">>
AnyBt  == <<"bluetooth", "any">>
Named(c) == <<"card", c>>
Alias(c) == <<"alias", c>>
Index(k) == <<"index", k>>
Bt(d)    == <<"bluetooth", d>>

\* stableCardId, which falls back on the index.
StableId(dev, k) == IF dev[k] \in Nameless THEN Index(k) ELSE Named(dev[k])
Occupied(dev) == {k \in Slot : dev[k] # NoCard}

\* A route goes from a channel of a thing to a channel of another.
Route == [src : {Sound, Fx, Helper}, from : 0..1,
          dst : {Fx, Helper, AnyBt} \cup {Named(c) : c \in Card} \cup {Alias(c) : c \in Card}
                \cup {Index(k) : k \in Slot} \cup {Bt(d) : d \in Speaker},
          to : 0..1]

File == [routes : Seq(Route), helper : BOOLEAN]

ASSUME RoutingAssumption ==
    /\ MaxEdges \in Nat /\ IsFiniteSet(Speaker)
    /\ Files \subseteq File /\ \A f \in Files : Len(f.routes) <= MaxEdges
    /\ Empty = [routes |-> <<>>, helper |-> FALSE]
    /\ Initially \subseteq [Slot -> Card \cup {NoCard}]

\* The locals of a reload; `acc` is what was made of the first i - 1 routes, and
\* `late` is history: the other thread changed something meanwhile.
Idle == [pc |-> "idle", gen |-> 0, things |-> {}, wide |-> 0, i |-> 1, n |-> 0, acc |-> <<>>,
         skipped |-> 0, dirty |-> FALSE, edges |-> <<>>, late |-> FALSE]

Spend == left > 0 /\ left' = left - 1

-----------------------------------------------------------------------------
(* What a route stands for                                                 *)

\* copyRoutingThings()
Things(dev, w, pair, helper) ==
    {Sound} \cup {StableId(dev, k) : k \in Occupied(dev)} \cup {Bt(d) : d \in pair}
    \cup (IF w > 0 THEN {Fx} ELSE {}) \cup (IF helper THEN {Helper} ELSE {})

\* normalizeRouteThingId()
Normal(id, things, dev) ==
    LET is(k) == \/ id[1] \in {"card", "alias"} /\ dev[k] = id[2] /\ dev[k] \notin Nameless
                 \/ id = Index(k)
        found == {k \in Occupied(dev) : is(k)}
    IN  IF id \in things \/ found = {} THEN id ELSE StableId(dev, CHOOSE k \in found : TRUE)

NormalRoute(r, things, dev) ==
    [r EXCEPT !.src = Normal(@, things, dev), !.dst = Normal(@, things, dev)]

\* toStableRouteId() says of an index that it has changed also when it has not.
Renames(r, things, dev) ==
    NormalRoute(r, things, dev) # r \/ \E k \in Occupied(dev) : Index(k) \in {r.src, r.dst}

Dormant(id) == id[1] = "bluetooth"
InRange(id, channel, w) == channel < (IF id = Fx THEN w ELSE 2)

\* "active", or why a route is not: only "skipped" counts against the reload.
Verdict(r, things, w) ==
    IF \E id \in {r.src, r.dst} : id \notin things
    THEN IF \A id \in {r.src, r.dst} : id \in things \/ Dormant(id) THEN "dormant" ELSE "skipped"
    ELSE IF InRange(r.src, r.from, w) /\ InRange(r.dst, r.to, w) THEN "active" ELSE "skipped"

\* migrateLegacyBluetoothRoutes(): a route to every paired device.
Migrated(r, things) ==
    LET outs == SetToSeq({id \in things : id[1] = "bluetooth"})
    IN  IF r.dst # AnyBt \/ outs = <<>> THEN <<r>>
        ELSE [j \in DOMAIN outs |-> [r EXCEPT !.dst = outs[j]]]

\* expandRoutingHelper(): direct routes first, then the paths through the mixer.
Expanded(edges) ==
    LET direct == SelectSeq(edges, LAMBDA e : Helper \notin {e.src, e.dst})
        into   == SelectSeq(edges, LAMBDA e : e.dst = Helper)
        paths(e) == [j \in DOMAIN edges |->
            IF edges[j].src = Helper /\ edges[j].from = e.to
            THEN <<[e EXCEPT !.dst = edges[j].dst, !.to = edges[j].to]>> ELSE <<>>]
        all    == direct \o FlattenSeq(FlattenSeq([j \in DOMAIN into |-> paths(into[j])]))
    IN  SubSeq(all, 1, IF Len(all) < MaxEdges THEN Len(all) ELSE MaxEdges)

\* The routes that are in use, in their order.
InUse(routes, things, w) ==
    LET on == {j \in DOMAIN routes : Verdict(routes[j], things, w) = "active"}
        nth(n) == {j \in on : Cardinality({k \in on : k <= j}) = n}
    IN  [n \in 1..Cardinality(on) |-> CHOOSE r \in {routes[j] : j \in nth(n)} : TRUE]

\* The graph that the routes make of the things there are.
AllNormal(routes, things, dev) == [j \in DOMAIN routes |-> NormalRoute(routes[j], things, dev)]
Compiled(routes, things, dev, w) == Expanded(InUse(AllNormal(routes, things, dev), things, w))

-----------------------------------------------------------------------------
(* A reload by the thread t                                                *)
At(t, pc) == th[t].pc = pc
Rests(t) == th[t].pc \in {"off", "idle"}
Goes(t, rec) == th' = [th EXCEPT ![t] = rec]

\* What the thread t changes may come too late for a reload of the other.
Outdates(t, rec) ==
    th' = [th EXCEPT ![t] = rec, ![Other(t)] = IF Rests(Other(t)) THEN @ ELSE [@ EXCEPT !.late = TRUE]]

Keep == UNCHANGED <<devVars, wide, paired, file, graph, user, mixed, owed, left>>

\* Mutant of Load: the generation is looked up after the things.
LoadLate(t) ==
    /\ Keep
    /\ \/ /\ At(t, "load")
          /\ Goes(t, [Idle EXCEPT !.pc = "gen", !.wide = wide,
                                  !.things = Things(seen, wide, paired, file.helper)])
       \/ At(t, "gen") /\ Goes(t, [th[t] EXCEPT !.pc = "old", !.gen = generation])

\* The generation is loaded first, so that things older than it are replaced.
Load(t) == At(t, "load") /\ Keep /\ Goes(t, [Idle EXCEPT !.pc = "things", !.gen = generation])

CopyThings(t) ==
    /\ At(t, "things") /\ Keep
    /\ Goes(t, [th[t] EXCEPT !.pc = "old", !.wide = wide,
                             !.things = Things(seen, wide, paired, file.helper)])

\* getRouteCount(); a file that cannot be read ends the reload, and nobody
\* tries again unless the devices have changed.
CountRoutes(t) ==
    /\ th[t].pc \in {"old", "count"} /\ Keep
    /\ Goes(t, [th[t] EXCEPT !.n = Len(file.routes), !.i = 1, !.acc = <<>>, !.dirty = FALSE,
            !.pc = IF @ = "count" THEN "build" ELSE IF file.routes = <<>> THEN "count" ELSE "migrate"])

CannotRead(t) ==
    /\ th[t].pc \in {"old", "count"} /\ Spend
    /\ IF At(t, "old") THEN Goes(t, [th[t] EXCEPT !.pc = "count"]) /\ UNCHANGED owed
       ELSE Goes(t, Idle) /\ owed' = "asked"
    /\ UNCHANGED <<devVars, wide, paired, file, graph, user, mixed>>

\* getRoute() reads the whole file anew, as it is by now, and `used` is what comes
\* of it; the route is skipped if there are no longer that many.
SavedRoute(t) == file.routes[th[t].i]
ReadRoute(t, pc, used) ==
    /\ At(t, pc) /\ th[t].i <= th[t].n /\ Keep
    /\ LET r == IF th[t].i <= Len(file.routes) THEN used ELSE th[t]
       IN  Goes(t, [r EXCEPT !.i = @ + 1])
HasRead(t, pc) == At(t, pc) /\ th[t].i > th[t].n

Migrate(t) ==
    LET parts == Migrated(SavedRoute(t), th[t].things)
    IN  ReadRoute(t, "migrate",
            [th[t] EXCEPT !.acc = @ \o parts, !.dirty = @ \/ parts # <<SavedRoute(t)>>])
\* Mutant of Migration: as many routes as there are devices.
MigrationUnlimited(t) ==
    /\ HasRead(t, "migrate") /\ Keep
    /\ LET save == th[t].dirty
       IN  Goes(t, [th[t] EXCEPT !.pc = IF save THEN "open1" ELSE "count", !.dirty = FALSE,
                                !.i = 1, !.n = 0, !.acc = IF save THEN @ ELSE <<>>])

\* More routes than there is room for are left as they were.
Migration(t) ==
    /\ HasRead(t, "migrate") /\ Keep
    /\ LET save == th[t].dirty /\ Len(th[t].acc) <= MaxEdges
       IN  Goes(t, [th[t] EXCEPT !.pc = IF save THEN "open1" ELSE "count", !.dirty = FALSE,
                                !.i = 1, !.n = 0, !.acc = IF save THEN @ ELSE <<>>])

Build(t) ==
    LET r == th[t]
        e == NormalRoute(SavedRoute(t), r.things, seen)
        verdict == Verdict(e, r.things, r.wide)
    IN  ReadRoute(t, "build",
            CASE verdict = "active" /\ Len(r.acc) < MaxEdges -> [r EXCEPT !.acc = Append(@, e)]
              [] verdict = "dormant" -> r
              [] OTHER -> [r EXCEPT !.skipped = @ + 1])

\* A reload that would silence everything is refused, unless devices changed.
Built(t) ==
    LET r == th[t]
        refused == r.n > 0 /\ r.acc = <<>> /\ r.skipped > 0 /\ r.gen = graph.gen
    IN  /\ HasRead(t, "build") /\ UNCHANGED <<devVars, wide, paired, file, graph, user, mixed, left>>
        /\ owed' = IF refused THEN "asked" ELSE owed
        /\ Goes(t, IF refused THEN Idle
                   ELSE [r EXCEPT !.pc = "names", !.i = 1, !.acc = <<>>, !.skipped = 0, !.edges = Expanded(r.acc)])

\* Mutant of Rename: only what is in the graph is written back.
RenameActive(t) ==
    LET r == th[t]
        e == NormalRoute(SavedRoute(t), r.things, seen)
    IN  ReadRoute(t, "names",
            [r EXCEPT !.acc = IF Verdict(e, r.things, r.wide) = "active" THEN Append(@, e) ELSE @,
                      !.dirty = @ \/ Renames(SavedRoute(t), r.things, seen)])

\* The routes with the identifiers they should have, also those out of use.
Rename(t) ==
    LET r == th[t]
    IN  ReadRoute(t, "names",
            [r EXCEPT !.acc = Append(@, NormalRoute(SavedRoute(t), r.things, seen)),
                      !.dirty = @ \/ Renames(SavedRoute(t), r.things, seen)])
Renamed(t) ==
    /\ HasRead(t, "names") /\ Keep
    /\ LET r == th[t]
       IN  Goes(t, [Idle EXCEPT !.pc = IF r.dirty THEN "open2" ELSE "publish", !.gen = r.gen,
                                !.acc = IF r.dirty THEN r.acc ELSE <<>>, !.edges = r.edges, !.late = r.late])

\* saveRoutes(): the mixer's line is read and the file emptied, then written.
\* It may not be opened, or nothing be written to it; nobody is told.
Disturbs(t, lost) == mixed' = (mixed \/ lost \/ ~Rests(Other(t)))
AfterWrite(pc) == IF pc \in {"open1", "write1"} THEN "count" ELSE "publish"
OpenFile(t) ==
    /\ th[t].pc \in {"open1", "open2"} /\ file' = Empty /\ Disturbs(t, FALSE)
    /\ Outdates(t, [th[t] EXCEPT !.pc = IF @ = "open1" THEN "write1" ELSE "write2",
                                 !.acc = [routes |-> @, helper |-> file.helper]])
    /\ UNCHANGED <<devVars, wide, paired, graph, user, owed, left>>
WriteFile(t) ==
    /\ th[t].pc \in {"write1", "write2"} /\ file' = th[t].acc /\ Disturbs(t, FALSE)
    /\ Outdates(t, [th[t] EXCEPT !.pc = AfterWrite(@), !.acc = <<>>])
    /\ UNCHANGED <<devVars, wide, paired, graph, user, owed, left>>
CannotWrite(t) ==
    /\ th[t].pc \in {"open1", "open2", "write1", "write2"} /\ Spend
    /\ Disturbs(t, th[t].pc \in {"write1", "write2"})
    /\ Outdates(t, [th[t] EXCEPT !.pc = AfterWrite(@), !.acc = <<>>, !.late = TRUE])
    /\ UNCHANGED <<devVars, wide, paired, file, graph, user, owed>>

Publish(t) ==
    /\ At(t, "publish") /\ Goes(t, Idle)
    /\ graph' = [gen |-> th[t].gen, edges |-> th[t].edges]
    /\ owed' = IF th[t].late THEN "late" ELSE "no"
    /\ UNCHANGED <<devVars, wide, paired, file, user, mixed, left>>

-----------------------------------------------------------------------------
(* The main thread                                                         *)
Ready == At("main", "idle") /\ ~At("bluetooth", "off")
Begin == [Idle EXCEPT !.pc = "load"]

\* The Bluetooth thread, the web interface and the main loop are started once
\* the audio threads are set up, which fails with the first reload.
Start ==
    /\ At("main", "idle") /\ At("bluetooth", "off") /\ graph.gen > 0 /\ Goes("bluetooth", Idle) /\ Keep

\* rescanDevices(), by poll() or by forceRescan(), which reloads in any case.
Rescan(force) ==
    /\ Ready /\ seen' = plugged
    /\ generation' = IF seen = plugged THEN generation ELSE generation + 1
    /\ Goes("main", [Idle EXCEPT !.pc = IF force THEN "load" ELSE "check"])
    /\ UNCHANGED <<plugged, wide, paired, file, graph, user, mixed, owed>>
    /\ IF force THEN Spend ELSE UNCHANGED left /\ (seen # plugged \/ graph.gen # generation)
Check ==
    /\ At("main", "check") /\ Keep
    /\ Goes("main", IF graph.gen # generation THEN Begin ELSE Idle)

Reload == Ready /\ Spend /\ Goes("main", Begin)
          /\ UNCHANGED <<devVars, wide, paired, file, graph, user, mixed, owed>>

\* The upload of routing.txt empties the file and fills it; the reload is
\* another request.
Save(f) ==
    /\ Ready /\ Spend /\ f # file /\ file' = Empty /\ Disturbs("main", FALSE)
    /\ Outdates("main", [Idle EXCEPT !.pc = "put", !.acc = f])
    /\ UNCHANGED <<devVars, wide, paired, graph, user, owed>>
Saved ==
    /\ At("main", "put") /\ file' = th["main"].acc /\ user' = file'
    /\ mixed' = ~Rests("bluetooth") /\ owed' = "asked" /\ Outdates("main", Idle)
    /\ UNCHANGED <<devVars, wide, paired, graph, left>>

\* setRoutingHelper()
SetHelper(on) ==
    /\ Ready /\ Spend /\ file' = Empty /\ Disturbs("main", FALSE)
    /\ Outdates("main", [Idle EXCEPT !.pc = "helper", !.acc = [routes |-> file.routes, helper |-> on]])
    /\ UNCHANGED <<devVars, wide, paired, graph, user, owed>>
HelperSet ==
    /\ At("main", "helper") /\ file' = th["main"].acc
    /\ user' = [user EXCEPT !.helper = file'.helper] /\ Disturbs("main", FALSE) /\ Outdates("main", Begin)
    /\ UNCHANGED <<devVars, wide, paired, graph, owed, left>>

\* An effect is created or deleted, or its channels set.
SetEffect(w) ==
    /\ Ready /\ Spend /\ w # wide /\ wide' = w /\ Outdates("main", Begin)
    /\ UNCHANGED <<devVars, paired, file, graph, user, mixed, owed>>

\* The Bluetooth thread: a device is paired or forgotten, or its roles are learned.
SetPaired(pair) ==
    /\ At("bluetooth", "idle") /\ Spend /\ pair # paired /\ paired' = pair
    /\ Outdates("bluetooth", Begin)
    /\ UNCHANGED <<devVars, wide, file, graph, user, mixed, owed>>

\* A card is plugged in or pulled out.
Plug(k, c) ==
    /\ Spend /\ c # plugged[k] /\ (c = NoCard \/ \A j \in Slot : plugged[j] # c)
    /\ plugged' = [plugged EXCEPT ![k] = c]
    /\ UNCHANGED <<seen, generation, wide, paired, file, graph, th, user, mixed, owed>>

-----------------------------------------------------------------------------
\* The first reload is that of setupThreads().
Init ==
    /\ plugged \in Initially /\ seen = plugged /\ generation = 1 /\ wide = 2 /\ paired \in {{}, Speaker}
    /\ file \in Files /\ user = file /\ graph = [gen |-> 0, edges |-> <<>>]
    /\ th = [main |-> Begin, bluetooth |-> [Idle EXCEPT !.pc = "off"]] /\ mixed = FALSE /\ owed = "asked"
    /\ left = MaxEvents

ReloadStep(t) ==
    \/ Load(t) \/ CopyThings(t) \/ CountRoutes(t) \/ CannotRead(t)
    \/ Migrate(t) \/ Migration(t) \/ Build(t) \/ Built(t) \/ Rename(t) \/ Renamed(t)
    \/ OpenFile(t) \/ WriteFile(t) \/ CannotWrite(t) \/ Publish(t)

Next ==
    \/ \E t \in Thread : ReloadStep(t)
    \/ \E force \in BOOLEAN : Rescan(force)
    \/ Start \/ Check \/ Reload \/ Saved \/ HelperSet
    \/ \E f \in Files : Save(f)
    \/ \E on \in BOOLEAN : SetHelper(on)
    \/ \E w \in 0..2 : SetEffect(w)
    \/ \E pair \in SUBSET Speaker : SetPaired(pair)
    \/ \E k \in Slot, c \in Card \cup {NoCard} : Plug(k, c)

Spec == Init /\ [][Next]_vars

-----------------------------------------------------------------------------
(* What must hold.                                                         *)
TypeOK ==
    /\ {plugged, seen} \subseteq [Slot -> Card \cup {NoCard}] /\ generation \in Nat /\ wide \in 0..2
    /\ paired \subseteq Speaker /\ file.helper \in BOOLEAN /\ Len(file.routes) <= MaxEdges
    /\ \A j \in DOMAIN file.routes : file.routes[j] \in Route
    /\ Len(graph.edges) <= MaxEdges /\ graph.gen <= generation
    /\ \A t \in Thread : th[t].i <= th[t].n + 1 \/ th[t].n = 0
    /\ mixed \in BOOLEAN /\ owed \in {"no", "late", "asked"}

Quiet == \A t \in Thread : Rests(t)

\* The identifier `now` is one that a reload may have put in the place of `id`.
MayMean(now, id) ==
    \/ now = id
    \/ now[1] = "card" /\ (id[1] = "index" \/ id = <<"alias", now[2]>>)
    \/ id = AnyBt /\ now[1] = "bluetooth"
Continues(now, r) ==
    [now EXCEPT !.src = r.src, !.dst = r.dst] = r /\ MayMean(now.src, r.src) /\ MayMean(now.dst, r.dst)

\* A reload renames things in routing.txt and loses nothing of what the user
\* saved, whatever is plugged in or paired at the time; nor does it add to it.
\* Left out is a file that the two threads were at work on together, and one
\* that could not be written.
RoutesAreKept ==
    Quiet /\ ~mixed =>
        /\ file.helper = user.helper
        /\ \A r \in Range(user.routes) : \E now \in Range(file.routes) : Continues(now, r)
        /\ \A now \in Range(file.routes) : \E r \in Range(user.routes) : Continues(now, r)

Current == Compiled(file.routes, Things(seen, wide, paired, file.helper), seen, wide)

\* When nobody has anything left to do the graph is the one that the file makes
\* of the things there are: a reload that was overtaken by a scan does not pass
\* for one that came after it.
GraphFollows == Quiet /\ owed = "no" /\ graph.gen = generation => graph.edges = Current

\* What docs/guide/bluetooth.md promises: routes of a device that is forgotten
\* stay saved, "and return if you pair it again".
RoutesReturn ==
    Quiet /\ owed # "asked" /\ graph.gen = generation =>
        \A r \in Range(file.routes) :
            r.src = Sound /\ r.dst \in {Bt(d) : d \in paired} => r \in Range(graph.edges)
=============================================================================
