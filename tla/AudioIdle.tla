------------------------------- MODULE AudioIdle -------------------------------
(***************************************************************************)
(* Idle sleep of the audio thread (src/src/audio/processing.cpp): a block  *)
(* of the compiled graph, and the decision to leave the effects and routes *)
(* out of it.  The decision follows the routes backward from the outputs   *)
(* (buildIdleDemand); what is heard follows them forward.  Of a signal     *)
(* only its peak matters: 0 for none, 1 up to kAudioIdleNoiseFloor and 2   *)
(* above it.  An effect with a memory ("echo") keeps sound in it that      *)
(* comes out after a gap.                                                  *)
(***************************************************************************)
EXTENDS Integers, Sequences, FiniteSets, SequencesExt

CONSTANTS
    Sources, Sinks,
    Listed,      \* the effects, in the order of the things
    RouteSets,   \* the routes that may be published, each free of cycles
    FirstRoutes, FirstFx,
    Echoes,        \* blocks that a sound stays in an echo: heard in the last but one
    Timeout,     \* kAudioIdleTimeoutMs, in blocks
    MaxChanges

VARIABLES
    fx, seq, gain,   \* effectStates and effectStatesSeq, nodeGainAtomics
    pub,             \* the published routes
    trigger,         \* the soundboard's queue has an entry
    left,            \* bound on changes
    pc,              \* where the audio thread is in a block
    routes, order,   \* the compiled graph: its routes, processNodes in their order
    known,           \* idleControlsKnown
    seen,            \* idleEffectSeq, idleNodeGains, effectParamsCache
    demanded,        \* demandedOutputs
    asked,           \* of this block: a trigger was there, effectStatesSeq as it was read
    source,          \* the peak of each source in this block
    quiet,           \* blocks since lastActivityMs, Timeout at most
    sleeping,
    slot,            \* ActiveSlot: type and switch of each effect when it was last processed
    tail,            \* the memory of each effect
    skipped,         \* silentEffectChannels
    heard            \* the peaks of the outputs in the last block

userVars  == <<fx, seq, gain, pub, trigger, left>>
graphVars == <<routes, order>>
idleVars  == <<known, seen, demanded>>
dspVars   == <<slot, tail, skipped, heard>>
vars == <<userVars, pc, graphVars, idleVars, asked, source, quiet, sleeping, dspVars>>

-----------------------------------------------------------------------------
Effects == Range(Listed)
Peak == 0..2
Loudest(peaks) == IF peaks = {} THEN 0 ELSE CHOOSE p \in peaks : \A r \in peaks : r <= p

\* nodeBlocksInput()
Blocks(e, params) == params[e].on /\ params[e].kind \in {"cut", "zero"}

\* Kahn's algorithm of rebuildRuntimeGraph(), which takes the first that is ready each time.
Sorted(edges) ==
    LET step[k \in 0..Len(Listed)] ==
            IF k = 0 THEN <<>>
            ELSE LET done == step[k - 1]
                     ready(e) ==
                         /\ e \notin Range(done)
                         /\ \A r \in edges : r[2] = e /\ r[1] \in Effects => r[1] \in Range(done)
                     picks == SelectSeq(Listed, ready)
                 IN  IF picks = <<>> THEN done ELSE Append(done, Head(picks))
    IN  step[Len(Listed)]

Controls == [seq |-> seq, gain |-> gain, fx |-> fx]

Init ==
    /\ fx = FirstFx /\ seq = 1 /\ gain = [n \in Sources \cup Effects |-> 1]
    /\ pub = FirstRoutes /\ trigger = FALSE /\ left = MaxChanges
    /\ pc = "top" /\ routes = FirstRoutes /\ order = Sorted(FirstRoutes)
    /\ known = FALSE /\ seen = Controls /\ demanded = {}
    /\ asked = [trigger |-> FALSE, seq |-> 1]
    /\ source = [s \in Sources |-> 0]
    /\ quiet = 0 /\ sleeping = FALSE
    /\ slot = FirstFx /\ tail = [e \in Effects |-> 0] /\ skipped = {}
    /\ heard = [o \in Sinks |-> 0]

-----------------------------------------------------------------------------
(* The other threads                                                       *)

Change == left > 0 /\ left' = left - 1
          /\ UNCHANGED <<pc, graphVars, idleVars, asked, source, quiet, sleeping, dspVars>>

SetEffect(e, kind, on) ==
    /\ Change /\ fx' = [fx EXCEPT ![e] = [kind |-> kind, on |-> on]] /\ seq' = seq + 1
    /\ fx' # fx /\ UNCHANGED <<gain, pub, trigger>>
SetGain(n) ==
    /\ Change /\ gain' = [gain EXCEPT ![n] = 1 - @] /\ UNCHANGED <<fx, seq, pub, trigger>>
SetRoutes(new) ==
    /\ Change /\ new # pub /\ pub' = new /\ UNCHANGED <<fx, seq, gain, trigger>>
TriggerSound ==
    /\ Change /\ ~trigger /\ trigger' = TRUE /\ UNCHANGED <<fx, seq, gain, pub>>

-----------------------------------------------------------------------------
(* buildIdleDemand()                                                       *)

\* The outputs that a route or an effect leads from to a demanded input.
DemandFrom(wanted, edges, view) ==
    LET through == {e \in Effects \cap wanted : ~Blocks(e, view.fx)}
    IN  {n \in Sources \cup Effects :
            view.gain[n] # 0 /\ \E r \in edges : r[1] = n /\ r[2] \in Sinks \cup through}
Demand(edges, view) ==
    LET step[k \in 0..(Len(Listed) + 1)] ==
            IF k = 0 THEN {} ELSE DemandFrom(step[k - 1], edges, view)
    IN  step[Len(Listed) + 1]

-----------------------------------------------------------------------------
(* A block                                                                 *)

\* rebuildRuntimeGraph(), between blocks.
Rebuild ==
    /\ pc = "top" /\ pub # routes /\ routes' = pub /\ order' = Sorted(pub)
    /\ sleeping' = FALSE /\ known' = FALSE /\ skipped' = {}
    /\ UNCHANGED <<userVars, pc, seen, demanded, asked, source, quiet, slot, tail, heard>>

StartBlock ==
    /\ pc = "top" /\ pub = routes /\ pc' = "decide"
    /\ asked' = [trigger |-> trigger, seq |-> seq] /\ trigger' = FALSE
    /\ UNCHANGED <<fx, seq, gain, pub, left, graphVars, idleVars, source, quiet, sleeping, dspVars>>

Reads == ~known \/ seen.seq # asked.seq
\* updateIdleControls(): the parameters are read after the number that stands for them.
Seen == [seq |-> asked.seq, gain |-> gain, fx |-> IF Reads THEN fx ELSE seen.fx]
Changed == Reads \/ gain # seen.gain

\* Mutant of Pending: only what can be heard in this block counts.
PendingAtOnce(view) ==
    {e \in Effects \cap demanded' : view.fx[e].on /\ view.fx[e].kind = "echo" /\ tail[e] = 2}
\* idleEffectsPending(), with slotHasPendingAudio().
Pending(view) ==
    {e \in Effects \cap demanded' : view.fx[e].on /\ view.fx[e].kind = "echo" /\ tail[e] >= 2}

Elapsed == IF quiet < Timeout THEN quiet + 1 ELSE Timeout
Active(peaks) == \E s \in Sources \cap demanded' : peaks[s] = 2

Decide ==
    /\ pc = "decide" /\ pc' = "mix" /\ known' = TRUE /\ seen' = Seen
    /\ demanded' = IF Changed THEN Demand(routes, Seen) ELSE demanded
    /\ source' \in [Sources -> Peak]
    /\ LET wake  == Changed \/ asked.trigger \/ Active(source')
           begin == ~wake /\ ~sleeping /\ Elapsed = Timeout /\ Pending(Seen) = {}
       IN  /\ sleeping' = (~wake /\ (sleeping \/ begin))
           /\ quiet' = IF wake THEN 0 ELSE Elapsed
           /\ tail' = IF begin THEN [e \in Effects |-> 0] ELSE tail   \* beginAudioSleep()
           /\ skipped' = IF Reads THEN {} ELSE skipped
    /\ UNCHANGED <<userVars, graphVars, asked, slot, heard>>

\* What an effect makes of its input (processNode, prepareSlotAudio): `out`, what it
\* remembers and whether it could be skipped.
Memory(e) == IF slot[e].kind # seen.fx[e].kind \/ (slot[e].on /\ ~seen.fx[e].on) THEN 0 ELSE tail[e]
Echo(e, in) ==
    IF in = 0 /\ (e \in skipped \/ Memory(e) = 0)
    THEN [out |-> 0, tail |-> Memory(e), skip |-> TRUE]
    ELSE [out |-> IF Memory(e) \in {1, 2} THEN Loudest({in, Memory(e)}) ELSE in,
          tail |-> IF in = 2 THEN Echoes ELSE Loudest({in, Memory(e) - 1, 0} \cap Nat),
          skip |-> FALSE]
Process(e, in) ==
    IF seen.fx[e].on /\ seen.fx[e].kind = "echo" THEN Echo(e, in)
    ELSE [out |-> IF Blocks(e, seen.fx) THEN 0 ELSE in, tail |-> Memory(e), skip |-> FALSE]

\* routeCompiledEdge(): the gain is read again.
Input(n, out) == Loudest({out[r[1]] : r \in {e \in routes : e[2] = n /\ gain[e[1]] # 0}})

\* The nodes one after another; those still to come are silent.
Results ==
    LET silent == [n \in Effects |-> [out |-> 0, tail |-> 0, skip |-> FALSE]]
        outs(done) == [n \in Sources \cup Effects |->
                          IF n \in Sources THEN source[n] ELSE done[n].out]
        step[k \in 0..Len(order)] ==
            IF k = 0 THEN silent
            ELSE LET e == order[k]
                 IN  [step[k - 1] EXCEPT ![e] = Process(e, Input(e, outs(step[k - 1])))]
    IN  step[Len(order)]

Outs == [n \in Sources \cup Effects |-> IF n \in Sources THEN source[n] ELSE Results[n].out]

Mix ==
    /\ pc = "mix" /\ ~sleeping /\ pc' = "top"
    /\ tail' = [e \in Effects |-> Results[e].tail] /\ slot' = seen.fx
    /\ skipped' = {e \in Effects : Results[e].skip}
    /\ heard' = [o \in Sinks |-> Input(o, Outs)]
    /\ quiet' = IF \E o \in Sinks : heard'[o] = 2 THEN 0 ELSE quiet
    /\ UNCHANGED <<userVars, graphVars, idleVars, asked, source, sleeping>>

StaySilent ==
    /\ pc = "mix" /\ sleeping /\ pc' = "top" /\ heard' = [o \in Sinks |-> 0]
    /\ UNCHANGED <<userVars, graphVars, idleVars, asked, source, quiet, sleeping, slot, tail>>
    /\ UNCHANGED skipped

Next ==
    \/ \E e \in Effects, kind \in {"gain", "zero", "cut", "echo"}, on \in BOOLEAN :
            SetEffect(e, kind, on)
    \/ \E n \in Sources \cup Effects : SetGain(n)
    \/ \E new \in RouteSets : SetRoutes(new)
    \/ TriggerSound \/ Rebuild \/ StartBlock \/ Decide \/ Mix \/ StaySilent

Spec == Init /\ [][Next]_vars
-----------------------------------------------------------------------------
\* Every path along the routes, from a node to an output (the reference for the demand
\* and for the order of processing, which know no paths).
Paths == UNION {[1..k -> Effects] : k \in 0..Len(Listed)}
Leads(n, path, o, closed) ==
    LET all == <<n>> \o path \o <<o>>
    IN  /\ \A k \in 1..(Len(all) - 1) : <<all[k], all[k + 1]>> \in routes
        /\ \A k \in 1..(Len(all) - 1) : gain[all[k]] # 0
        /\ Range(path) \cap closed = {}
Closed(params) == {e \in Effects : Blocks(e, params)}
Reaches(n) == \E o \in Sinks : \E path \in Paths : Leads(n, path, o, Closed(fx))
\* No control was changed since the thread looked.
Settled == pub = routes /\ seq = seen.seq /\ gain = seen.gain /\ ~trigger /\ pc = "top"

\* While the thread sleeps, there is nothing that should be heard: no source above the
\* floor leads to an output, by any path of the routes and controls as they are now,
\* unless they were just changed, and no effect holds a sound that a change would bring
\* out later (docs/guide/effects.md:184-199).  The demand is computed backward, by
\* rounds, and from copies of the controls.
SleepIsSilent ==
    sleeping =>
        /\ Settled => \A s \in Sources : source[s] = 2 => ~Reaches(s)
        /\ \A e \in Effects : tail[e] = 0

\* A sound in the memory of an effect on its way to an output comes out: falling asleep
\* never drops it, also while the output is silent for longer than the timeout.
TailsComeOut ==
    \A e \in Effects :
        tail[e] >= 2 /\ tail'[e] = 0 =>
            \/ pc = "decide" /\ ~(fx[e].on /\ fx[e].kind = "echo" /\ Reaches(e) /\ fx = seen'.fx)
            \/ pc = "mix" /\ seen.fx[e] # slot[e]

\* A block carries a sound through all effects of its way at once, in whatever order
\* they were listed: an output hears the loudest sound of those that lead to it.
Sounds(n) == IF n \in Sources THEN source[n]
             ELSE IF seen.fx[n].on /\ seen.fx[n].kind = "echo" /\ Memory(n) \in {1, 2}
             THEN Memory(n) ELSE 0
BlocksAreWhole ==
    pc = "mix" /\ pc' = "top" /\ ~sleeping =>
        \A o \in Sinks :
            heard'[o] = Loudest({Sounds(n) : n \in {m \in Sources \cup Effects :
                \E path \in Paths : Leads(m, path, o, Closed(seen.fx))}})

SleepIsSound == [][SleepIsSilent' /\ TailsComeOut /\ BlocksAreWhole]_vars

TypeOK ==
    /\ pc \in {"top", "decide", "mix"} /\ source \in [Sources -> Peak] /\ heard \in [Sinks -> Peak]
    /\ tail \in [Effects -> 0..Echoes] /\ quiet \in 0..Timeout
    /\ demanded \subseteq Sources \cup Effects
    /\ Len(order) = Len(Listed) /\ sleeping \in BOOLEAN /\ skipped \subseteq Effects
=============================================================================
