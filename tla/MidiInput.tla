------------------------------ MODULE MidiInput ------------------------------
(***************************************************************************)
(* What the pads of a MIDI controller do: src/src/midi/midi.cpp forwards   *)
(* their messages to the USB host (src/src/midi/usb.cpp) and acts on them, *)
(* on the main thread, which also handles the web interface and the touch  *)
(* screen.  A pad is known by its note; MidiParser makes the messages.     *)
(* Notes begin and end in two messages, between which mappings, modes and  *)
(* connections change.                                                     *)
(***************************************************************************)
EXTENDS MidiParser

CONSTANTS
    Note,
    Maps,       \* what the user may map the notes to
    MaxPending, \* messages in MidiUsbOutput::pending
    MaxPadRequests, MaxPadFaults

VARIABLES
    connected, led,       \* the controller, and ledStateByNote
    map, sampler, dim,    \* cachedMidiMap, samplerModeActive, lightsDimmed
    bypassed,             \* the effect that pads toggle
    stale,                \* TRUE: something changed and the lights were not refreshed
    hold,                 \* heldNote while holdActive, else NoNote
    voice,                \* who began the sound that is held: "nobody" if none is
    touch,                \* SoundboardUiState: visible and held
    mode, open, policy,   \* MidiUsbOutput: mode, midiFd >= 0, notePolicy,
    pending,              \*   and pending
    host,                 \* the notes the host has on
    down,                 \* history: the pads that are down
    excused,              \* history: notes pressed twice without a release between, or
                          \*   of which the host was not silenced
    padsLeft              \* bounds

usbVars  == <<mode, open, policy, pending, host, excused>>
shown    == <<map, sampler, dim, bypassed, hold>>
padsVars == <<connected, led, shown, stale, voice, touch, usbVars, down, padsLeft>>

-----------------------------------------------------------------------------
NoNote == 0
Sounds == {"play", "hold"}

\* A key plays the selected sound; a script and a scene are run elsewhere.
Meaning == Sounds \cup {"free", "stop", "effect", "sampler", "key", "script", "scene"}

ASSUME PadsAssumption == NoNote \notin Note /\ Maps \subseteq [Note -> Meaning] /\ MaxPending \in Nat

\* What the device claims for itself: scenes are looked up apart from the map.
Claimed(n) == map[n] \notin {"free", "scene"}

SpendPads(kind) == padsLeft[kind] > 0 /\ padsLeft' = [padsLeft EXCEPT ![kind] = @ - 1]
Request == SpendPads("requests")
Silenced(ok) == IF ok THEN UNCHANGED padsLeft ELSE SpendPads("faults")

-----------------------------------------------------------------------------
(* Lights                                                                  *)

Desired(m, on, dark, off, held) == [n \in Note |->
    IF dark THEN "dark"
    ELSE CASE m[n] \in Sounds -> IF on \/ (m[n] = "hold" /\ held = n) THEN "playing" ELSE "mapped"
           [] m[n] \in {"stop", "sampler"} -> m[n]
           [] m[n] = "effect" -> IF off THEN "mapped" ELSE "playing"
           [] OTHER -> "dark"]

Unlit == [n \in Note |-> "unknown"]

\* refreshLightingFromState(), of the state that an operation leaves.
RefreshLights ==
    /\ stale' = FALSE
    /\ led' = IF connected' THEN Desired(map', sampler', dim', bypassed', hold') ELSE led

KeepLights == UNCHANGED <<led, stale>>

-----------------------------------------------------------------------------
(* The USB host                                                            *)

\* What the host has on after the messages q: of each note the last one counts.
Hears(notes, q) == {n \in Note :
    IF \E i \in DOMAIN q : q[i].note = n
    THEN \E i \in DOMAIN q : q[i].note = n /\ q[i].on /\ \A j \in (i + 1)..Len(q) : q[j].note # n
    ELSE n \in notes}

\* closeDevices(): the host is silenced if the last write succeeds.
CloseDevices(ok, more) ==
    /\ open' = FALSE /\ pending' = <<>> /\ policy' = [n \in Note |-> "none"]
    /\ host' = IF ok /\ open THEN {} ELSE host
    /\ excused' = excused \cup more \cup (IF ok THEN {} ELSE host)
    /\ Silenced(ok)

\* Mutant of Forward: an end goes where the note is mapped to by now.
ForwardAsMapped(n, on, ok, more) ==
    LET pass == mode = 2 \/ ~Claimed(n)
        full == pass /\ Len(pending) = MaxPending
    IN  /\ UNCHANGED <<mode, policy>>
        /\ IF mode # 0 /\ open /\ full THEN CloseDevices(ok, more)
           ELSE /\ ok /\ UNCHANGED <<open, host, padsLeft>> /\ excused' = excused \cup more
                /\ pending' = IF mode # 0 /\ open /\ pass
                              THEN Append(pending, [note |-> n, on |-> on]) ELSE pending

\* forward(): a note ends where it began, whatever it is mapped to by then.
Forward(n, on, ok, more) ==
    LET pass == IF ~on /\ policy[n] # "none" THEN policy[n] = "sent"
                ELSE mode = 2 \/ ~Claimed(n)
        full == pass /\ Len(pending) = MaxPending
    IN  /\ UNCHANGED mode
        /\ IF mode # 0 /\ open /\ full THEN CloseDevices(ok, more)
           ELSE /\ ok /\ UNCHANGED <<open, host, padsLeft>>
                /\ excused' = excused \cup more
                /\ IF mode = 0 \/ ~open THEN UNCHANGED <<policy, pending>>
                   ELSE /\ policy' = [policy EXCEPT ![n] =
                                        IF ~on THEN "none" ELSE IF pass THEN "sent" ELSE "kept"]
                        /\ pending' = IF pass THEN Append(pending, [note |-> n, on |-> on]) ELSE pending

usbOnly == <<connected, led, shown, stale, voice, touch, down>>

\* The mode that was saved is read, and the devices are opened anew.
SetMode(m, ok) ==
    /\ m # mode /\ mode' = m /\ CloseDevices(ok, {}) /\ UNCHANGED usbOnly

OpenHost == mode # 0 /\ ~open /\ open' = TRUE /\ UNCHANGED <<usbOnly, mode, policy, pending, host, excused, padsLeft>>

\* A failed write, and a host that is no longer there.
WriteFails(ok) == open /\ pending # <<>> /\ CloseDevices(ok, {}) /\ UNCHANGED <<usbOnly, mode>>
HostLeaves ==
    /\ open /\ SpendPads("faults") /\ open' = FALSE /\ pending' = <<>> /\ host' = {}
    /\ policy' = [n \in Note |-> "none"]
    /\ UNCHANGED <<usbOnly, mode, excused>>

WritePending(k) ==
    /\ open /\ host' = Hears(host, SubSeq(pending, 1, k))
    /\ pending' = SubSeq(pending, k + 1, Len(pending))
    /\ UNCHANGED <<usbOnly, mode, open, policy, excused, padsLeft>>

-----------------------------------------------------------------------------
(* Pads                                                                    *)
\* The sound of a pad is held: one that is held by another pad ends.  It may
\* fail to start, for want of room or of the file.
HoldPad(n, starts) ==
    /\ map[n] = "hold" /\ ~sampler /\ UNCHANGED <<map, sampler, dim, bypassed>>
    /\ voice' = IF starts THEN "pad" ELSE IF hold \notin {NoNote, n} THEN "nobody" ELSE voice
    /\ IF starts THEN hold' = n /\ RefreshLights ELSE UNCHANGED hold /\ KeepLights

\* Stop All, the sampler's switch, the selection of its sound, an effect, a
\* script whose pad lights up and a scene that sets the effect.
SwitchPad(n) ==
    /\ map[n] \in {"stop", "sampler", "effect", "script", "scene"} \/ (map[n] \in Sounds /\ sampler)
    /\ hold' = IF map[n] = "stop" THEN NoNote ELSE hold
    /\ voice' = IF map[n] = "stop" THEN "nobody" ELSE voice
    /\ sampler' = (sampler # (map[n] = "sampler"))
    /\ \/ map[n] # "scene" /\ bypassed' = (bypassed # (map[n] = "effect"))
       \/ map[n] = "scene" /\ bypassed' \in BOOLEAN
    /\ UNCHANGED <<map, dim>> /\ RefreshLights

\* A sound that plays once leaves nothing behind.
OtherPad(n) ==
    /\ map[n] \in {"free", "key"} \/ (map[n] = "play" /\ ~sampler)
    /\ UNCHANGED <<shown, voice>> /\ KeepLights

PressPad(n, ok) ==
    /\ connected /\ UNCHANGED connected /\ Forward(n, TRUE, ok, down \cap {n}) /\ down' = down \cup {n}
    /\ \/ \E starts \in BOOLEAN : HoldPad(n, starts)
       \/ SwitchPad(n)
       \/ OtherPad(n)
    /\ UNCHANGED touch

\* Any release ends the sound that a pad holds.
ReleasePad(n, ok) ==
    /\ connected /\ n \in down /\ Forward(n, FALSE, ok, {}) /\ down' = down \ {n}
    /\ UNCHANGED <<connected, touch, map, sampler, dim, bypassed>>
    /\ IF hold # NoNote THEN hold' = NoNote /\ voice' = "nobody" /\ RefreshLights
       ELSE UNCHANGED <<hold, voice>> /\ (RefreshLights \/ KeepLights)

\* disconnect() forgets the pad that holds a sound, not the sound.
Disconnect(ok) ==
    /\ connected /\ connected' = FALSE /\ CloseDevices(ok, {}) /\ down' = {}
    /\ hold' = NoNote /\ led' = Unlit /\ voice' = IF voice = "pad" THEN "orphan" ELSE voice
    /\ UNCHANGED <<map, sampler, dim, bypassed, stale, touch, mode>>

Connect ==
    /\ ~connected /\ connected' = TRUE /\ UNCHANGED <<shown, voice, touch, usbVars, down, padsLeft>>
    /\ RefreshLights

-----------------------------------------------------------------------------
(* The web interface, the touch screen and the poll of the map             *)
others == <<connected, usbVars, down>>

\* The map is saved; most requests refresh the lights, some leave that to the poll.
SaveMap(m, lights) ==
    /\ Request /\ map' = m /\ UNCHANGED <<sampler, dim, bypassed, hold, voice, touch, others>>
    /\ IF lights THEN RefreshLights ELSE stale' = TRUE /\ UNCHANGED led

ReloadMap == UNCHANGED <<shown, voice, touch, others, padsLeft>> /\ RefreshLights

\* reloadSoundboardMappings(), of a map that lost the sounds of some notes.
PurgeSounds(gone) ==
    /\ Request /\ map' = [n \in Note |-> IF n \in gone /\ map[n] \in Sounds THEN "free" ELSE map[n]]
    /\ IF hold # NoNote /\ map'[hold] \notin Sounds
       THEN hold' = NoNote /\ voice' = "nobody" ELSE UNCHANGED <<hold, voice>>
    /\ UNCHANGED <<sampler, dim, bypassed, touch, others>> /\ RefreshLights

\* An effect is switched; the sampler's mode or the dimming of the lights is.
SwitchEffect ==
    /\ Request /\ bypassed' = ~bypassed /\ stale' = TRUE
    /\ UNCHANGED <<led, map, sampler, dim, hold, voice, touch, others>>
SwitchLights(d) ==
    /\ Request /\ dim' = (dim # d) /\ sampler' = (sampler # ~d)
    /\ UNCHANGED <<map, bypassed, hold, voice, touch, others>> /\ RefreshLights

voiceOnly == <<led, stale, shown, others>>

\* Stop All, the mode "play" for all sounds, the release of a sound that the
\* page holds; a clip that ends by itself.
StopVoice ==
    /\ voice # "nobody" /\ voice' = "nobody" /\ UNCHANGED <<voiceOnly, touch, padsLeft>>
PageHolds == Request /\ voice' = "page" /\ UNCHANGED <<voiceOnly, touch>>

TouchPad ==
    /\ touch = "shown" /\ touch' = "held" /\ voice' = "touch" /\ UNCHANGED <<voiceOnly, padsLeft>>
\* The finger is lifted, or leaves the tile.
LiftFinger ==
    touch = "held" /\ touch' = "shown" /\ voice' = "nobody" /\ UNCHANGED <<voiceOnly, padsLeft>>
SwitchView ==
    /\ Request /\ touch' = IF touch = "hidden" THEN "shown" ELSE "hidden"
    /\ voice' = IF touch = "held" THEN "nobody" ELSE voice
    /\ UNCHANGED voiceOnly

-----------------------------------------------------------------------------
PadsInit ==
    /\ connected = FALSE /\ led = Unlit /\ map \in Maps /\ sampler = FALSE /\ dim = FALSE
    /\ bypassed = FALSE /\ stale = FALSE /\ hold = NoNote /\ voice = "nobody" /\ touch = "shown"
    /\ mode \in 0..2 /\ open = FALSE /\ policy = [n \in Note |-> "none"] /\ pending = <<>>
    /\ host = {} /\ down = {} /\ excused = {}
    /\ padsLeft = [requests |-> MaxPadRequests, faults |-> MaxPadFaults]

PadsNext ==
    \/ \E n \in Note, ok \in BOOLEAN : PressPad(n, ok) \/ ReleasePad(n, ok)
    \/ \E m \in 0..2, ok \in BOOLEAN : SetMode(m, ok)
    \/ \E ok \in BOOLEAN : WriteFails(ok) \/ Disconnect(ok)
    \/ \E k \in DOMAIN pending : WritePending(k)
    \/ OpenHost \/ HostLeaves \/ Connect
    \/ \E m \in Maps, lights \in BOOLEAN : SaveMap(m, lights)
    \/ \E gone \in SUBSET Note \ {{}} : PurgeSounds(gone)
    \/ ReloadMap \/ SwitchEffect \/ StopVoice \/ PageHolds \/ TouchPad \/ LiftFinger \/ SwitchView
    \/ \E d \in BOOLEAN : SwitchLights(d)

PadsSpec == PadsInit /\ [][PadsNext]_padsVars

-----------------------------------------------------------------------------
(* What must hold.                                                         *)
PadsTyped ==
    /\ connected \in BOOLEAN /\ map \in [Note -> Meaning] /\ {sampler, dim, bypassed, stale} \subseteq BOOLEAN
    /\ led \in [Note -> {"unknown", "dark", "mapped", "playing", "stop", "sampler"}]
    /\ hold \in Note \cup {NoNote} /\ voice \in {"nobody", "pad", "touch", "page", "orphan"}
    /\ touch \in {"hidden", "shown", "held"} /\ mode \in 0..2 /\ open \in BOOLEAN
    /\ policy \in [Note -> {"none", "sent", "kept"}] /\ Len(pending) <= MaxPending
    /\ {host, down, excused} \subseteq SUBSET Note

\* A note that the host was sent is ended when its pad is released: its map may
\* have changed since, and so may the mode; the queue may have run full; the host
\* or the controller may have gone.  Left out are a pad that sends two beginnings
\* for one end, and the silence that could not be written.
\* A sound that a pad holds is held by a pad that is down, and one that the
\* screen holds by a finger: releasing it ends the sound.  Left out is the sound
\* of a controller that was unplugged.
NothingHangs ==
    /\ Hears(host, pending) \subseteq down \cup excused
    /\ voice = "pad" => connected /\ hold \in down
    /\ voice = "touch" => touch = "held"

\* The table of the lights says what the notes do, what is bypassed and what is
\* held, after every operation that does not leave it to the next poll.
LightsFollow == connected /\ ~stale => led = Desired(map, sampler, dim, bypassed, hold)

\* The host and the device understand the same channel messages of the controller, no
\* note and no sound outlasts what holds it, and the lights say what the pads do.
ControllerIsUnderstood == ParsersAgree /\ NothingHangs /\ LightsFollow
=============================================================================
