------------------------------ MODULE EffectMap ------------------------------
(***************************************************************************)
(* The effects and what is kept of them: effectStates of the audio runtime *)
(* (src/audio/setup.cpp), the effect tables of midi_map.txt, fx_params.txt *)
(* and midi->cachedMidiMap, under the requests of src/http/api.cpp, the    *)
(* controller and scripts.                                                 *)
(*                                                                         *)
(* A request changes the runtime FIRST and the two files afterwards, each  *)
(* rewritten in place: the second may fail when the first is written, the  *)
(* first may be left truncated, and the program may end at any moment.     *)
(*                                                                         *)
(* An effect has one parameter.  That of a "gain" is one of the four the   *)
(* fx_state line holds, that of a "delay" is kept in fx_params.txt only.   *)
(***************************************************************************)
EXTENDS Naturals, FiniteSets, Functions

CONSTANTS
    MaxId,          \* bound: effect ids 1..MaxId are given
    Value,          \* parameter values, 1 the default of every type
    Control,        \* notes and controller numbers
    MaxStates,      \* MIDI_EFFECT_STATES_MAX
    MaxMappings,    \* MIDI_EFFECT_CC_MAPPINGS_MAX, _TOGGLE_, _LIGHT_
    MaxSteps,       \* bound: requests, messages and restarts
    MaxLost         \* bound: writes that fail

VARIABLES
    live,           \* effectStates: id -> its type, bypass and value
    nextId,         \* nextEffectId
    map,            \* midi_map.txt: states, cc, toggles, lights
    params,         \* fx_params.txt: id -> the parameter of a type, and its value
    cached,         \* midi->cachedMidiMap
    acked,          \* history: id -> the effect as a request last said it was saved
    deleted,        \* history: ids whose deletion was acknowledged
    remaining

ASSUME EffectsAssumption ==
    /\ {MaxId, MaxStates, MaxMappings} \subseteq Nat
    /\ 1 \in Value

effectVars == <<live, nextId, map, params, cached, acked, deleted, remaining>>

Type == {"gain", "delay"}
Id == 1..MaxId
NoMap == [states |-> <<>>, cc |-> {}, toggles |-> {}, lights |-> {}]
Default(type) == [type |-> type, on |-> TRUE, value |-> 1]

Set(f, e, v) == [x \in DOMAIN f \cup {e} |-> IF x = e THEN v ELSE f[x]]
Drop(f, e)   == [x \in DOMAIN f \ {e} |-> f[x]]
Biggest(S)   == IF S = {} THEN 0 ELSE CHOOSE n \in S : \A m \in S : m <= n

\* loadEffectsFromConfig: the defaults of its type, the values of the state
\* line, then each value of fx_params.txt that is one of a parameter it has.
LoadedEffects(m, p) ==
    [e \in DOMAIN m.states |->
        LET s == m.states[e]
        IN  [type |-> s.type, on |-> s.on,
             value |-> IF e \in DOMAIN p /\ p[e].type = s.type THEN p[e].value
                       ELSE IF s.type = "gain" THEN s.gain ELSE 1]]

StateLine(x) == [type |-> x.type, on |-> x.on, gain |-> IF x.type = "gain" THEN x.value ELSE 1]

\* upsertEffectStateFromRuntime: nothing of an effect the table has no room for.
Upsert(e, x) ==
    IF e \notin DOMAIN map.states /\ Cardinality(DOMAIN map.states) >= MaxStates
    THEN [map |-> map, params |-> params]
    ELSE [map    |-> [map EXCEPT !.states = Set(@, e, StateLine(x))],
          params |-> Set(params, e, [type |-> x.type, value |-> x.value])]

-----------------------------------------------------------------------------
(* Writing.  w holds the new contents of both files; ok is acked when the  *)
(* request is answered 200, bad when it is answered 500: a file that was   *)
(* truncated has lost every effect.                                        *)

Saves(w, ok) ==
    /\ map' = w.map /\ params' = w.params /\ cached' = w.map /\ acked' = ok

WriteFails(w, bad) ==
    /\ remaining.faults > 0
    /\ map' \in {map, NoMap, w.map} /\ params' \in {params, <<>>, w.params}
    /\ <<map', params'>> # <<w.map, w.params>>
       \/ <<w.map, w.params>> = <<map, params>>      \* all is as it was
    /\ acked' = IF \/ map' = NoMap /\ w.map # NoMap
                   \/ params' = <<>> /\ w.params # <<>> THEN <<>> ELSE bad
    /\ UNCHANGED cached

Failed == remaining' = [steps |-> remaining.steps - 1, faults |-> remaining.faults - 1]
Done   == remaining' = [remaining EXCEPT !.steps = @ - 1]

Answer(w, ok, bad) == (Saves(w, ok) /\ Done) \/ (WriteFails(w, bad) /\ Failed)

\* Acknowledged only when the table held it: a full table is not reported.
Told(w, e) == IF e \in DOMAIN w.map.states THEN Set(acked, e, live'[e]) ELSE Drop(acked, e)

Tables(m) == [map |-> m, params |-> params]

-----------------------------------------------------------------------------
(* Requests on effects.                                                    *)

\* handleEffectCreate
Create(type) ==
    /\ nextId <= MaxId
    /\ live' = Set(live, nextId, Default(type)) /\ nextId' = nextId + 1 /\ deleted' = deleted \ {nextId}
    /\ LET w == Upsert(nextId, Default(type)) IN Answer(w, Told(w, nextId), Drop(acked, nextId))

\* handleEffectSet: any of type, enabled and one parameter.  A new type
\* starts from its defaults, but keeps the bypass.
Changed(x, type, on, value) ==
    LET t == IF type = "keep" THEN x ELSE [Default(type) EXCEPT !.on = x.on]
        b == IF on = "keep" THEN t ELSE [t EXCEPT !.on = (on = "1")]
    IN  IF value = 0 THEN b ELSE [b EXCEPT !.value = value]

EffectSet(e) ==
    \E type \in Type \cup {"keep"}, on \in {"keep", "0", "1"}, value \in Value \cup {0} :
        /\ <<type, on, value>> # <<"keep", "keep", 0>>
        /\ live' = [live EXCEPT ![e] = Changed(@, type, on, value)]
        /\ LET w == Upsert(e, live'[e]) IN Answer(w, Told(w, e), Drop(acked, e))
        /\ UNCHANGED <<nextId, deleted>>

\* handleEffectName: it saves an effect that is not saved yet, and says so
\* when there is no room for it.
EffectName(e) ==
    /\ LET w == IF e \in DOMAIN map.states THEN Tables(map) ELSE Upsert(e, live[e])
       IN  /\ e \in DOMAIN w.map.states
           /\ Answer(w, IF e \in DOMAIN map.states THEN acked ELSE Set(acked, e, live[e]), acked)
    /\ UNCHANGED <<live, nextId, deleted>>

\* handleEffectDelete: every table forgets it.
Forget(m, e) ==
    [states  |-> Drop(m.states, e),
     cc      |-> {c \in m.cc : c.effect # e},
     toggles |-> {t \in m.toggles : t.effect # e},
     lights  |-> m.lights \ {e}]

EffectDelete(e) ==
    /\ live' = Drop(live, e) /\ UNCHANGED nextId
    /\ LET w == [map |-> Forget(map, e), params |-> Drop(params, e)]
       IN  \/ Saves(w, Drop(acked, e)) /\ Done /\ deleted' = deleted \cup {e}
           \/ WriteFails(w, Drop(acked, e)) /\ Failed /\ UNCHANGED deleted

-----------------------------------------------------------------------------
(* Requests on the controls: one effect for a controller number or a note, *)
(* one of each for an effect.  A full table takes nothing, and it is not   *)
(* reported.                                                               *)

Bound(table, control, e) ==
    LET rest == {c \in table : c.control # control /\ c.effect # e}
    IN  IF Cardinality(rest) < MaxMappings THEN rest \cup {[control |-> control, effect |-> e]} ELSE rest
Unbound(table, control) == {c \in table : c.control # control}

Controls(m, g) == Answer(Tables(m), acked, acked) /\ deleted' = g /\ UNCHANGED <<live, nextId>>

\* handleEffectMidiCcSet asks for an effect that runs; toggles and lights do not.
CcSet(c, e)     == e \in DOMAIN live /\ Controls([map EXCEPT !.cc = Bound(@, c, e)], deleted)
CcDelete(c)     == Controls([map EXCEPT !.cc = Unbound(@, c)], deleted)
ToggleSet(c, e) == Controls([map EXCEPT !.toggles = Bound(@, c, e)], deleted \ {e})
ToggleDelete(c) == Controls([map EXCEPT !.toggles = Unbound(@, c)], deleted)
LightSet(e)     ==
    LET rest == map.lights \ {e}
    IN  Controls([map EXCEPT !.lights = IF Cardinality(rest) < MaxMappings THEN rest \cup {e} ELSE rest],
                 deleted \ {e})
LightDelete(e)  == Controls([map EXCEPT !.lights = @ \ {e}], deleted)

-----------------------------------------------------------------------------
(* The controller, scripts, restarts.                                      *)

\* Mutant of PersistBypass: the whole line is written as the effect runs.
PersistAll(e, x) ==
    LET w == Upsert(e, x)
        ok == IF e \in DOMAIN acked THEN [acked EXCEPT ![e].on = x.on] ELSE acked
    IN  map' = w.map /\ params' = w.params /\ acked' = ok /\ Done /\ UNCHANGED cached

\* persistEffectBypass: the bypass alone; an effect that is not saved is
\* added without its parameters, if there is room.  Nobody hears of a
\* failure, and cachedMidiMap stays as it is.
PersistBypass(e, x) ==
    LET room == e \in DOMAIN map.states \/ Cardinality(DOMAIN map.states) < MaxStates
        line == IF e \in DOMAIN map.states THEN [map.states[e] EXCEPT !.on = x.on] ELSE StateLine(x)
        w    == Tables([map EXCEPT !.states = Set(@, e, line)])
        ok   == IF e \in DOMAIN acked THEN [acked EXCEPT ![e].on = x.on] ELSE acked
    IN  \/ room /\ map' = w.map /\ params' = w.params /\ acked' = ok /\ Done /\ UNCHANGED cached
        \/ room /\ WriteFails(w, Drop(acked, e)) /\ Failed
        \/ ~room /\ Done /\ UNCHANGED <<map, params, cached, acked>>

PadToggles(t) ==
    /\ t.effect \in DOMAIN live
    /\ live' = [live EXCEPT ![t.effect].on = ~@]
    /\ PersistBypass(t.effect, live'[t.effect])
    /\ UNCHANGED <<nextId, deleted>>

\* A knob, or audio:setEffect... of a script: "runtime-only".
RuntimeOnly(e, v) ==
    /\ live' = [live EXCEPT ![e].value = v] /\ Done
    /\ UNCHANGED <<nextId, map, params, cached, acked, deleted>>
Knob(c, v)      == c.effect \in DOMAIN live /\ RuntimeOnly(c.effect, v)
ScriptSets(e, v) == RuntimeOnly(e, v)

\* A restart: ids are given from the highest one saved.
StartAgain ==
    /\ live' = LoadedEffects(map, params) /\ cached' = map
    /\ nextId' = Biggest(DOMAIN map.states) + 1 /\ Done
    /\ UNCHANGED <<map, params, acked, deleted>>

EffectsInit ==
    /\ live = <<>> /\ nextId = 1
    /\ map = NoMap /\ params = <<>> /\ cached = NoMap
    /\ acked = <<>> /\ deleted = {}
    /\ remaining = [steps |-> MaxSteps, faults |-> MaxLost]

Request ==
    \/ \E type \in Type : Create(type)
    \/ \E e \in DOMAIN live : EffectSet(e) \/ EffectName(e) \/ EffectDelete(e)
    \/ \E c \in Control : CcDelete(c) \/ ToggleDelete(c)
    \/ \E c \in Control, e \in Id : CcSet(c, e) \/ ToggleSet(c, e)
    \/ \E e \in Id : LightSet(e) \/ LightDelete(e)

EffectsNext ==
    /\ remaining.steps > 0
    /\ \/ Request \/ StartAgain
       \/ \E t \in cached.toggles : PadToggles(t)
       \/ \E c \in cached.cc, v \in Value : Knob(c, v)
       \/ \E e \in DOMAIN live, v \in Value : ScriptSets(e, v)

EffectsSpec == EffectsInit /\ [][EffectsNext]_effectVars

-----------------------------------------------------------------------------
(* What must hold.                                                         *)

EffectType == [type : Type, on : BOOLEAN, value : Value]

EffectsTyped ==
    /\ \A f \in {live, acked} : DOMAIN f \subseteq Id /\ \A e \in DOMAIN f : f[e] \in EffectType
    /\ nextId \in Nat \ {0} /\ deleted \subseteq Id
    /\ \A m \in {map, cached} :
          /\ Cardinality(DOMAIN m.states) <= MaxStates
          /\ \A t \in {m.cc, m.toggles} : t \subseteq [control : Control, effect : Id]
          /\ m.lights \subseteq Id
    /\ DOMAIN params \subseteq Id

\* docs/guide/effects.md: "WebUI effect changes take effect as you make them
\* and are written to AudioX's persistent effect configuration".  Whenever the
\* program ends, each effect comes back as the last request that saved it
\* said, a pad's bypass included; knobs, scripts, changes of other effects
\* and their failures do not show, unless a failure truncated a file.
SavedComesBack ==
    \A e \in DOMAIN acked : e \in DOMAIN map.states /\ LoadedEffects(map, params)[e] = acked[e]

\* A deleted effect is gone from the runtime, from both files and from the
\* controller's copy, and no failure, restart or request about another effect
\* brings anything of it back: the effect that is given its id next starts
\* with no controls but those set for the id since.
DeletedLeavesNothing ==
    \A e \in deleted :
        /\ e \notin DOMAIN live \cup DOMAIN params
        /\ \A m \in {map, cached} :
              e \notin DOMAIN m.states \cup m.lights \cup {c.effect : c \in m.cc \cup m.toggles}

EffectsAreKept == SavedComesBack /\ DeletedLeavesNothing
=============================================================================
