------------------------------ MODULE EffectHosts ------------------------------
(***************************************************************************)
(* The effects of AudioContext (src/audio/setup.cpp), the plugin hosts     *)
(* behind them (src/audio/plugins.cpp), and the audio thread               *)
(* (src/audio/processing.cpp), which works on a copy of the parameters -   *)
(* a pointer to the host among them - and takes a new copy when            *)
(* effectStatesSeq has moved.  A host that is taken out of service is      *)
(* retired and destroyed once the audio thread has seen the change.        *)
(*                                                                         *)
(* Every operation of the main thread changes the effects under            *)
(* effectsMutex, under which the audio thread copies them: each is one     *)
(* step.  The mailbox of GraphMailbox is the register it implements.       *)
(* What an effect remembers of its input is modelled for plugins, whose    *)
(* memory is their host's.                                                 *)
(***************************************************************************)
EXTENDS Naturals, FiniteSets

CONSTANTS
  MaxEffects,   \* bound on the effects' numbers
  Values,       \* settings of an effect's parameters
  Default,      \* the one that setSlotDefaultsForType() makes
  Setups,       \* setups of effects that are stored: the boot's and scenes
  NoHost,       \* no plugin host
  MaxSeq        \* bound on the changes

Effects == 1..MaxEffects
Types == {"gain", "plugin"}

(* A host is known by the effect it was made for, and when.                *)
Host == [effect : Effects, since : Nat]

(* SlotParams                                                              *)
Params == [type : Types, enabled : BOOLEAN, value : Values, host : Host \cup {NoHost}]

(* Things are listed in the order of their names.  Only effects matter.    *)
Listings == {g \in UNION {[1..n -> Effects] : n \in 0..MaxEffects} :
               \A i, j \in DOMAIN g : i < j => g[i] < g[j]}
Node == 1..MaxEffects

ASSUME HostsAssumption ==
  /\ MaxEffects \in Nat
  /\ Default \in Values
  /\ NoHost \notin Host
  /\ MaxSeq \in Nat \ {0, 1}
  /\ \A c \in Setups : \E S \in SUBSET Effects :
       c \in [S -> [type : Types, enabled : BOOLEAN, value : Values]]

VARIABLES
  \* AudioContext
  seq,         \* effectStatesSeq
  states,      \* effectStates: for each effect there is, its parameters
  hosts,       \* pluginHosts: the hosts in service, by effect
  retired,     \* retiredPlugins
  nextId,      \* nextEffectId
  observed,    \* pluginObservedSeq, and idleEffectSeq of the audio thread
  graph,       \* the things of the graph published last
  fresh,       \* which the audio thread has not taken yet
  \* reloadPlugins()
  reloading,   \* instances
  \* RuntimeGraph, the audio thread's
  pc,
  nodes,       \* the effects among snapshot.things, by node
  known,       \* idleControlsKnown
  loaded,      \* effectSeq of updateIdleControls()
  todo,        \* nodes the current loop has not come to
  cache,       \* effectParamsCache
  cacheSeq,    \* effectParamsSeq
  done,        \* processedEffectType, processedEffectEnabled
  sleeping,
  \* history
  tails,       \* hosts that remember something of what they were fed
  moved,       \* nodes that the last rebuild gave to another effect
  misjudged    \* hosts bypassed in a block in which their node was such a one

effectVars == <<seq, states, hosts, retired, nextId>>
graphVars == <<graph, fresh>>
copyVars == <<nodes, known, loaded, cache, cacheSeq>>
audioVars == <<observed, pc, copyVars, todo, done, sleeping>>
history == <<tails, moved, misjudged>>
vars == <<effectVars, graphVars, reloading, audioVars, history>>

Put(f, e, x) == [d \in DOMAIN f \cup {e} |-> IF d = e THEN x ELSE f[d]]
Drop(f, e) == [d \in DOMAIN f \ {e} |-> f[d]]

(* setSlotDefaultsForType()                                                *)
Fresh(t, enabled) == [type |-> t, enabled |-> enabled, value |-> Default, host |-> NoHost]

(* preparePlugin() for effect e, for a change that counts on from s.        *)
HostMadeAt(e, s) == [effect |-> e, since |-> s]
NewHost(e) == HostMadeAt(e, seq)

Live == {hosts[e] : e \in DOMAIN hosts}
RetiredHosts == {r.host : r \in retired}

(* A stored setup is made, with a host for the plugins that could be       *)
(* started.                                                                *)
StatesOf(c, started, s) ==
  [e \in DOMAIN c |-> [type |-> c[e].type, enabled |-> c[e].enabled, value |-> c[e].value,
                       host |-> IF e \in started THEN HostMadeAt(e, s) ELSE NoHost]]
HostsOf(started, s) == [e \in started |-> HostMadeAt(e, s)]
Plugins(s) == {e \in DOMAIN s : s[e].type = "plugin"}
NextIdOf(c, m) == (\A e \in DOMAIN c : e < m) /\ (m = 1 \/ m - 1 \in DOMAIN c)

GraphOf(g, s) == {g[i] : i \in DOMAIN g} = DOMAIN s

(* effectStatesSeq starts with 1; loadEffectsFromConfig() counts on.       *)
Init ==
  /\ \E c \in Setups : \E started \in SUBSET Plugins(c) :
       /\ states = StatesOf(c, started, 1)
       /\ hosts = HostsOf(started, 1)
       /\ \E m \in 1..(MaxEffects + 1) : NextIdOf(c, m) /\ nextId = m
  /\ seq = 2
  /\ retired = {}
  /\ observed = 0
  /\ \E g \in Listings : GraphOf(g, states) /\ graph = g
  /\ fresh = TRUE
  /\ reloading = {}
  /\ pc = "top" /\ nodes = [n \in {} |-> 1] /\ known = FALSE /\ loaded = 0 /\ todo = {}
  /\ cache = [n \in Node |-> Fresh("gain", FALSE)]
  /\ cacheSeq = [n \in Node |-> 0]
  /\ done = [n \in Node |-> [type |-> "gain", enabled |-> FALSE]]
  /\ sleeping = FALSE
  /\ tails = {} /\ moved = {} /\ misjudged = {}

-----------------------------------------------------------------------------
(* The main thread.                                                        *)

Idle == reloading = {}
otherVars == <<graphVars, audioVars, history>>

(* Mutant of RetireSeq: the change before it.                              *)
RetireSeqBefore == seq

(* The number the audio thread is to have seen before a host retired now   *)
(* may be destroyed: that of the change under way.                         *)
RetireSeq == seq + 1

(* retirePlugin(), for each of the effects S.                              *)
Retire(S) ==
  retired' = retired \cup
    {[sequence |-> RetireSeq, host |-> hosts[e]] : e \in S \cap DOMAIN hosts}

(* effectStatesSeq.fetch_add(1)                                            *)
Count == seq < MaxSeq /\ seq' = seq + 1

(* attachPlugin(), and the parameters stored: the tail of several          *)
(* operations.                                                             *)
Attach(e, params, host) ==
  /\ Retire({e})
  /\ hosts' = IF host = NoHost THEN Drop(hosts, e) ELSE Put(hosts, e, host)
  /\ states' = Put(states, e, [params EXCEPT !.host = host])
  /\ Count

HostFor(e, t) == IF t = "plugin" THEN NewHost(e) ELSE NoHost

(* The first number from nextEffectId on that is free.                     *)
IsNextId(e) ==
  /\ e \in Effects /\ e >= nextId /\ e \notin DOMAIN states
  /\ \A d \in nextId..(e - 1) : d \in DOMAIN states

CreateEffect(e, t) ==
  /\ Idle
  /\ IsNextId(e)
  /\ nextId' = e + 1
  /\ Attach(e, Fresh(t, TRUE), HostFor(e, t))
  /\ UNCHANGED <<reloading, otherVars>>

(* The plugin could not be started; the number is used up.                 *)
CreateFails(e) ==
  /\ Idle
  /\ IsNextId(e)
  /\ nextId' = e + 1
  /\ UNCHANGED <<seq, states, hosts, retired, reloading, otherVars>>

(* The type changes; if its plugin cannot be started, nothing does.         *)
SetEffectType(e, t) ==
  /\ Idle
  /\ e \in DOMAIN states
  /\ Attach(e, Fresh(t, states[e].enabled), HostFor(e, t))
  /\ UNCHANGED <<nextId, reloading, otherVars>>

(* setEffectEnabled(), and toggleEffectEnabled().                          *)
SetEffectEnabled(e, b) ==
  /\ Idle
  /\ e \in DOMAIN states
  /\ states' = [states EXCEPT ![e].enabled = b]
  /\ Count
  /\ UNCHANGED <<hosts, retired, nextId, reloading, otherVars>>

SetEffectParam(e, v) ==
  /\ Idle
  /\ e \in DOMAIN states
  /\ states' = [states EXCEPT ![e].value = v]
  /\ Count
  /\ UNCHANGED <<hosts, retired, nextId, reloading, otherVars>>

DeleteEffect(e) ==
  /\ Idle
  /\ e \in DOMAIN states
  /\ Retire({e})
  /\ hosts' = Drop(hosts, e)
  /\ states' = Drop(states, e)
  /\ Count
  /\ UNCHANGED <<nextId, reloading, otherVars>>

(* recall() swaps in the effects of a scene; all plugins were started      *)
(* before.                                                                 *)
SwapSetup(c) ==
  /\ Idle
  /\ Retire(DOMAIN hosts)
  /\ states' = StatesOf(c, Plugins(c), seq)
  /\ hosts' = HostsOf(Plugins(c), seq)
  /\ \E m \in 1..(MaxEffects + 1) : NextIdOf(c, m) /\ nextId' = m
  /\ Count
  /\ UNCHANGED <<reloading, otherVars>>

(* reloadPlugins() notes the plugin effects, and then takes them one by    *)
(* one; effectsMutex is released while a host is started.                  *)
ReloadPlugins ==
  /\ Idle
  /\ seq < MaxSeq
  /\ reloading' = Plugins(states)
  /\ UNCHANGED <<effectVars, otherVars>>

(* An effect that had no host gets its saved parameters.                   *)
ReloadInstance(e, v) ==
  /\ e \in reloading
  /\ states[e].host # NoHost => v = states[e].value
  /\ Attach(e, [states[e] EXCEPT !.value = v], NewHost(e))
  /\ reloading' = reloading \ {e}
  /\ UNCHANGED <<nextId, otherVars>>

ReloadInstanceFails(e) ==
  /\ e \in reloading
  /\ reloading' = reloading \ {e}
  /\ UNCHANGED <<effectVars, otherVars>>

(* pollPlugins() destroys the retired hosts the audio thread has let go.   *)
PollPlugins ==
  /\ Idle
  /\ retired' = {r \in retired : observed < r.sequence}
  /\ UNCHANGED <<seq, states, hosts, nextId, reloading, otherVars>>

(* reloadRoutingGraph(), here or on the Bluetooth thread: the effects are  *)
(* listed, and the graph is published.                                     *)
PublishGraph(g) ==
  /\ GraphOf(g, states)
  /\ graph' = g
  /\ fresh' = TRUE
  /\ UNCHANGED <<effectVars, reloading, audioVars, history>>

-----------------------------------------------------------------------------
(* The audio thread: one block.                                            *)

audioRest == <<effectVars, reloading>>

(* Mutant of TakeGraph: the copied parameters stay with their nodes.       *)
TakeGraphKeepingCopies ==
  /\ pc = "top"
  /\ fresh
  /\ fresh' = FALSE
  /\ nodes' = [n \in {n \in DOMAIN graph : graph[n] \in DOMAIN states} |-> graph[n]]
  /\ moved' = {n \in DOMAIN nodes' : n \notin DOMAIN nodes \/ nodes'[n] # nodes[n]}
  /\ sleeping' = FALSE
  /\ pc' = "load"
  /\ UNCHANGED <<audioRest, graph, observed, loaded, cache, todo, done, known, cacheSeq,
                 tails, misjudged>>

(* rebuildRuntimeGraph().  What is no effect any more passes its input on. *)
TakeGraph ==
  /\ pc = "top"
  /\ fresh
  /\ fresh' = FALSE
  /\ nodes' = [n \in {n \in DOMAIN graph : graph[n] \in DOMAIN states} |-> graph[n]]
  /\ moved' = {n \in DOMAIN nodes' : n \notin DOMAIN nodes \/ nodes'[n] # nodes[n]}
  /\ known' = FALSE
  /\ cacheSeq' = [n \in Node |-> 0]
  /\ sleeping' = FALSE
  /\ pc' = "load"
  /\ UNCHANGED <<audioRest, graph, observed, loaded, cache, todo, done, tails, misjudged>>

NoNewGraph ==
  /\ pc = "top"
  /\ ~fresh
  /\ pc' = "load"
  /\ UNCHANGED <<audioRest, graphVars, observed, copyVars, todo, done, sleeping, history>>

(* updateIdleControls(): effectStatesSeq is read first...                  *)
LoadSeq ==
  /\ pc = "load"
  /\ loaded' = seq
  /\ todo' = DOMAIN nodes
  /\ pc' = "copy"
  /\ UNCHANGED <<audioRest, graphVars, observed, nodes, known, cache, cacheSeq, done,
                 sleeping, history>>

(* getEffectParams(), or, for an effect that is gone, a gain.              *)
ParamsOf(e) == IF e \in DOMAIN states THEN states[e] ELSE Fresh("gain", TRUE)

(* ... and then, under effectsMutex, the parameters of one node after the  *)
(* other.                                                                  *)
CopyParams(n) ==
  /\ pc = "copy"
  /\ n \in todo
  /\ IF ~known \/ cacheSeq[n] # loaded
       THEN /\ cache' = [cache EXCEPT ![n] = ParamsOf(nodes[n])]
            /\ cacheSeq' = [cacheSeq EXCEPT ![n] = loaded]
       ELSE UNCHANGED <<cache, cacheSeq>>
  /\ todo' = todo \ {n}
  /\ UNCHANGED <<audioRest, graphVars, observed, pc, nodes, known, loaded, done, sleeping,
                 history>>

ControlsChanged == ~known \/ loaded # observed

(* pluginObservedSeq is stored.  A change wakes the audio thread.          *)
Observe ==
  /\ pc = "copy"
  /\ todo = {}
  /\ known' = TRUE
  /\ observed' = loaded
  /\ sleeping' = (sleeping /\ ~ControlsChanged)
  /\ todo' = IF ControlsChanged THEN DOMAIN nodes ELSE {}
  /\ pc' = IF ControlsChanged THEN "process" ELSE "decide"
  /\ UNCHANGED <<audioRest, graphVars, nodes, loaded, cache, cacheSeq, done, history>>

(* Nothing has changed: the thread is or stays awake...                    *)
StayAwake ==
  /\ pc = "decide"
  /\ sleeping' = FALSE
  /\ todo' = DOMAIN nodes
  /\ pc' = "process"
  /\ UNCHANGED <<audioRest, graphVars, observed, copyVars, done, history>>

CachedHosts == {cache[n].host : n \in DOMAIN nodes} \ {NoHost}

(* ... or falls asleep, and all effects forget what they have heard...     *)
BeginSleep ==
  /\ pc = "decide"
  /\ ~sleeping
  /\ sleeping' = TRUE
  /\ tails' = tails \ CachedHosts
  /\ pc' = "top"
  /\ moved' = {}
  /\ UNCHANGED <<audioRest, graphVars, observed, copyVars, todo, done, misjudged>>

(* ... or sleeps on.                                                       *)
SleepOn ==
  /\ pc = "decide"
  /\ sleeping
  /\ pc' = "top"
  /\ moved' = {}
  /\ UNCHANGED <<audioRest, graphVars, observed, copyVars, todo, done, sleeping, tails,
                 misjudged>>

(* Mutant of Resets: only a change of the type counts.                     *)
ResetsOnType(n) ==
  ~cache[n].enabled /\ cache[n].host # NoHost /\ done[n].type # cache[n].type

(* processNode(): an effect that was processed and is now bypassed is      *)
(* reset.  Both are told by the node.                                      *)
Resets(n) == ~cache[n].enabled /\ cache[n].host # NoHost /\ done[n].enabled

ProcessNode(n) ==
  /\ pc = "process"
  /\ n \in todo
  /\ done' = [done EXCEPT ![n] = [type |-> cache[n].type, enabled |-> cache[n].enabled]]
  /\ tails' = IF Resets(n) THEN tails \ {cache[n].host}
              ELSE IF cache[n].enabled /\ cache[n].host # NoHost THEN tails \cup {cache[n].host}
              ELSE tails
  /\ misjudged' = IF ~cache[n].enabled /\ n \in moved THEN misjudged \cup {cache[n].host}
                  ELSE misjudged
  /\ todo' = todo \ {n}
  /\ UNCHANGED <<audioRest, graphVars, observed, pc, copyVars, sleeping, moved>>

EndBlock ==
  /\ pc = "process"
  /\ todo = {}
  /\ pc' = "top"
  /\ moved' = {}
  /\ UNCHANGED <<audioRest, graphVars, observed, copyVars, todo, done, sleeping, tails,
                 misjudged>>

-----------------------------------------------------------------------------
ReloadNext == \E e \in Effects :
                \/ \E v \in Values : ReloadInstance(e, v)
                \/ ReloadInstanceFails(e)

MainNext ==
  \/ \E e \in Effects :
       \/ \E t \in Types : CreateEffect(e, t) \/ SetEffectType(e, t)
       \/ CreateFails(e)
       \/ \E b \in BOOLEAN : SetEffectEnabled(e, b)
       \/ \E v \in Values : SetEffectParam(e, v)
       \/ DeleteEffect(e)
  \/ \E c \in Setups : SwapSetup(c)
  \/ ReloadPlugins
  \/ ReloadNext
  \/ PollPlugins
  \/ \E g \in Listings : PublishGraph(g)

AudioNext ==
  \/ TakeGraph \/ NoNewGraph \/ LoadSeq
  \/ \E n \in Node : CopyParams(n) \/ ProcessNode(n)
  \/ Observe \/ StayAwake \/ BeginSleep \/ SleepOn \/ EndBlock

Next == MainNext \/ AudioNext

Spec == Init /\ [][Next]_vars

(* The audio thread makes block after block.  The main loop finishes what  *)
(* it has begun, and polls in every turn, however many requests come.      *)
Fairness ==
  /\ WF_vars(AudioNext)
  /\ WF_vars(ReloadNext)
  /\ SF_vars(PollPlugins)

FairSpec == Spec /\ Fairness

-----------------------------------------------------------------------------
TypeOK ==
  /\ seq \in 2..MaxSeq
  /\ DOMAIN states \subseteq Effects
  /\ \A e \in DOMAIN states : states[e] \in Params
  /\ DOMAIN hosts \subseteq Effects
  /\ \A e \in DOMAIN hosts : hosts[e] \in Host
  /\ retired \subseteq [sequence : 3..MaxSeq, host : Host]
  /\ nextId \in 1..(MaxEffects + 1)
  /\ observed \in 0..MaxSeq /\ loaded \in 0..MaxSeq
  /\ graph \in Listings /\ fresh \in BOOLEAN
  /\ reloading \subseteq Effects
  /\ pc \in {"top", "load", "copy", "decide", "process"}
  /\ DOMAIN nodes \subseteq Node /\ todo \subseteq DOMAIN nodes
  /\ \A n \in DOMAIN nodes : nodes[n] \in Effects
  /\ known \in BOOLEAN /\ sleeping \in BOOLEAN
  /\ cache \in [Node -> Params] /\ cacheSeq \in [Node -> 0..MaxSeq]
  /\ done \in [Node -> [type : Types, enabled : BOOLEAN]]
  /\ tails \subseteq Host /\ moved \subseteq Node /\ misjudged \subseteq Host \cup {NoHost}

(* No host is destroyed while the audio thread may still call it: those it *)
(* works with are in service or retired.                                   *)
NoFreedHostInUse ==
  pc \in {"decide", "process"} => CachedHosts \subseteq Live \cup RetiredHosts

(* Each host has one owner: an effect has the host pluginHosts has for it, *)
(* hosts in service belong to an effect, and are not retired.              *)
HostsAgree ==
  /\ \A e \in DOMAIN states :
       states[e].host = IF e \in DOMAIN hosts THEN hosts[e] ELSE NoHost
  /\ DOMAIN hosts \subseteq DOMAIN states
  /\ Live \cap RetiredHosts = {}
  /\ \A r, s \in retired : r.host = s.host => r = s

(* "Bypass is immediate and clears effect history"                         *)
(* (docs/guide/effects.md:172): when a block is over, the plugins that     *)
(* were bypassed in it have forgotten what they heard, but for those that  *)
(* were bypassed in the very block in which their effect moved to another  *)
(* node.                                                                   *)
BypassClearsUnmoved ==
  pc = "top" =>
    \A n \in DOMAIN nodes : ~cache[n].enabled => cache[n].host \notin tails \ misjudged

(* The audio thread ends up with what was set last, whatever changes fell  *)
(* into the middle of its copying.                                         *)
ParamsArrive ==
  <>[](pc = "process" => \A n \in DOMAIN nodes : cache[n] = ParamsOf(nodes[n]))

(* Every retired host is destroyed: no plugin process stays behind.        *)
RetiredAreFreed == []<>(retired = {})

(* Changes are carried out to the end: what was set last is played, and    *)
(* the hosts it put out of service are destroyed.                          *)
ChangesArrive == ParamsArrive /\ RetiredAreFreed
=============================================================================
