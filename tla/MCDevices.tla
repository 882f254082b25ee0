------------------------------ MODULE MCDevices ------------------------------
(***************************************************************************)
(* What depends on devices that come and go: the routing graph, the        *)
(* buffers of the sound cards and the bytes and the pads of a MIDI         *)
(* controller, and beside them what the scripts of the controller store    *)
(* (whose variables and constants are this module's own); the PCM streams  *)
(* of the cards and the idle sleep of the audio thread.  They share no     *)
(* state of the models, so each is run with the others in one of their     *)
(* initial states: `focus` is the one that runs.                           *)
(***************************************************************************)
EXTENDS Routing, BufferLevel, MidiInput, ScriptStore, AudioStreams

CONSTANTS Part, s0, s1, card, other, loud, soft

VARIABLES
    focus,
    ai_fx, ai_seq, ai_gain, ai_pub, ai_trigger, ai_left, ai_pc, ai_routes, ai_order, ai_known,
    ai_seen, ai_demanded, ai_asked, ai_source, ai_quiet, ai_sleeping, ai_slot, ai_tail,
    ai_skipped, ai_heard

-----------------------------------------------------------------------------
(* Two card indices, a card with a name and one without, two speakers, and *)
(* room for two routes.                                                    *)
To(id) == [src |-> Sound, from |-> 0, dst |-> id, to |-> 0]

\* What the user may have saved: names and Bluetooth devices; identifiers of
\* older versions; paths through the mixer; and those of an effect.
SavedFiles ==
    {[routes |-> <<To(Named(card)), To(Bt(loud))>>, helper |-> FALSE],
     [routes |-> <<To(Index(s0)), To(AnyBt)>>, helper |-> FALSE],
     [routes |-> <<To(Helper), [To(Alias(card)) EXCEPT !.src = Helper]>>, helper |-> TRUE],
     [routes |-> <<[To(Fx) EXCEPT !.to = 1], [To(Index(s1)) EXCEPT !.src = Fx]>>, helper |-> FALSE]}
EmptyFile == [routes |-> <<>>, helper |-> FALSE]

\* One route, to a Bluetooth device.
OneFile == {[routes |-> <<To(Bt(loud))>>, helper |-> FALSE]}

\* A card with a name before one without.
SavedCards == {(s0 :> card @@ s1 :> other)}

-----------------------------------------------------------------------------
(* Two pads in pairs of meanings that can be in each other's way, and      *)
(* a queue of one message.                                                 *)
Pads == {<<"hold", "hold">>, <<"effect", "stop">>, <<"sampler", "scene">>}

-----------------------------------------------------------------------------
(* Two cards, one with an input and an output and one with an input, one   *)
(* of them there at first, or both.  A ring of one block, two levels.      *)
CardPorts == [d \in Device |-> IF d = "a" THEN {"in", "out"} ELSE {"in"}]
CardsAtFirst == {<<"a", "none">>, <<"a", "b">>}

-----------------------------------------------------------------------------
(* Seconds so short that two shifts down and back up fit into the time.    *)
Pauses == <<0, 5, 7, 9>>

-----------------------------------------------------------------------------
(* Two effects, listed in the order against most of the routes: one after  *)
(* the other, in the other order and beside a direct route, or by two ways.*)
Chain    == {<<"mic", "p">>, <<"p", "q">>, <<"q", "out">>}
Bypassed == {<<"mic", "q">>, <<"q", "p">>, <<"p", "out">>, <<"mic", "out">>}
Split    == {<<"mic", "p">>, <<"mic", "q">>, <<"p", "q">>, <<"p", "out">>, <<"q", "out">>}

AI == INSTANCE AudioIdle WITH
    Sources <- {"mic"}, Sinks <- {"out"}, Listed <- <<"q", "p">>,
    RouteSets <- {Chain, Bypassed, Split}, FirstRoutes <- Chain,
    FirstFx <- [e \in {"p", "q"} |-> [kind |-> IF e = "p" THEN "echo" ELSE "gain", on |-> TRUE]],
    Echoes <- 4, Timeout <- 2, MaxChanges <- 2, fx <- ai_fx, seq <- ai_seq, gain <- ai_gain,
    pub <- ai_pub, trigger <- ai_trigger, left <- ai_left, pc <- ai_pc, routes <- ai_routes,
    order <- ai_order, known <- ai_known, seen <- ai_seen, demanded <- ai_demanded,
    asked <- ai_asked, source <- ai_source, quiet <- ai_quiet, sleeping <- ai_sleeping,
    slot <- ai_slot, tail <- ai_tail, skipped <- ai_skipped, heard <- ai_heard
aiVars == <<ai_fx, ai_seq, ai_gain, ai_pub, ai_trigger, ai_left, ai_pc, ai_routes, ai_order,
            ai_known, ai_seen, ai_demanded, ai_asked, ai_source, ai_quiet, ai_sleeping,
            ai_slot, ai_tail, ai_skipped, ai_heard>>

-----------------------------------------------------------------------------
(* Two files and room for one, three options and room for two, and plans   *)
(* that write twice, take back and replace what they wrote.  The user's    *)
(* numbers are checked by the program and can be read back.                *)
Put(x, v) == [x |-> x, v |-> v]
StorePlans == {<<Put("f", 1), Put("k", 2), Put("f", 0)>>,
               <<Put("f", 0), Put("k", 0), Put("g", 2), Put("l", 3)>>,
               <<Put("f", 2), Put("l", 1), Put("k", 1), Put("f", 1)>>}
Edits == {Put("k", 2), Put("m", 1)}

-----------------------------------------------------------------------------
DInit ==
    /\ focus \in Part /\ Init /\ ParserInit /\ PadsInit /\ StreamsInit /\ LevelInit /\ AI!Init /\ StoreInit
    /\ focus # "pads" => map = <<"hold", "hold">> /\ mode = 0
    /\ focus # "routing" => file.helper /\ paired = {}
    /\ focus # "streams" => hw = <<"a", "b">>

DNext ==
    /\ UNCHANGED focus
    /\ \/ focus = "routing" /\ Next
          /\ UNCHANGED <<parserVars, padsVars, streamsVars, levelVars, aiVars, storeVars>>
       \/ focus = "parser" /\ ParserNext
          /\ UNCHANGED <<vars, padsVars, streamsVars, levelVars, aiVars, storeVars>>
       \/ focus = "pads" /\ PadsNext
          /\ UNCHANGED <<vars, parserVars, streamsVars, levelVars, aiVars, storeVars>>
       \/ focus = "streams" /\ StreamsNext
          /\ UNCHANGED <<vars, parserVars, padsVars, levelVars, aiVars, storeVars>>
       \/ focus = "level" /\ LevelNext
          /\ UNCHANGED <<vars, parserVars, padsVars, streamsVars, aiVars, storeVars>>
       \/ focus = "idle" /\ AI!Next
          /\ UNCHANGED <<vars, parserVars, padsVars, streamsVars, levelVars, storeVars>>
       \/ focus = "store" /\ StoreNext
          /\ UNCHANGED <<vars, parserVars, padsVars, streamsVars, levelVars, aiVars>>

DSpec == DInit /\ [][DNext]_<<focus, vars, parserVars, padsVars, streamsVars, levelVars, aiVars, storeVars>>

-----------------------------------------------------------------------------
\* The audio thread sleeps only while nothing can be heard, and drops no sound that an
\* effect holds when it falls asleep (AudioIdle).
SleepIsSound == AI!SleepIsSound

\* Every table and queue of the part that runs keeps its type and limit, the
\* routes that are saved and the paths of the graph among them.
TablesKeepTheirLimits ==
    CASE focus = "routing" -> TypeOK [] focus = "parser" -> ParserTyped
      [] focus = "pads" -> PadsTyped [] focus = "streams" -> StreamsTyped
      [] focus = "level" -> LevelTyped [] focus = "idle" -> AI!TypeOK
      [] focus = "store" -> StoreTyped
=============================================================================
