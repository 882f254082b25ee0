----------------------------- MODULE SoundClips -----------------------------
(***************************************************************************)
(* The sounds of the soundboard as they are loaded and played: the bank of *)
(* clips and its reload (src/audio/setup.cpp), and the voices of the audio *)
(* thread (src/audio/processing.cpp).                                      *)
(*                                                                         *)
(* The main loop loads clips and triggers them; the audio thread takes the *)
(* triggers at the start of a block, and its voices read the clips without *)
(* a lock.  All that keeps a clip from being freed under a voice is        *)
(* sfxSlotRefs, which one thread counts up and the other down.             *)
(*                                                                         *)
(* A clip is <<file, version>>; a trigger is what waits in the queue and   *)
(* what a voice plays; its n counts down, the later trigger has the lower. *)
(* A step is what a thread does between two accesses the other can see;    *)
(* the ends of several voices within one trigger are one step.             *)
(***************************************************************************)
EXTENDS Naturals, Sequences, FiniteSets

CONSTANTS
    File,           \* names of sounds
    Slot,           \* 1..AUDIO_SFX_SLOT_COUNT
    Voice,          \* 1..kMaxSoundboardVoices
    QueueCap,       \* AUDIO_SFX_QUEUE_CAP
    MaxTriggers,    \* bound: triggers
    MaxStops,       \* bound: releases and Stop All
    MaxChanges      \* bound: uploads, deletions and reloads

VARIABLES
    files,          \* SFX_ROOT_DIR: file -> version, 0 when there is none
    slots, refs,    \* sfxSlots, sfxSlotRefs
    queue,          \* sfxQueue from sfxQueueRead to sfxQueueWrite
    holdStops, stopAll, \* pendingSfxHoldStops, pendingSfxStopAll: any
    ctl,            \* the main loop: its place, the event it will queue, the
                    \* files and slots of its reload
    aud,            \* the audio thread: its place, the events it has taken and
                    \* those it will take of the queue
    voices, holdVoice,
    released,       \* history: held triggers whose release was asked for since
    left

clipsVars == <<files, slots, refs, queue, holdStops, stopAll, ctl, aud, voices, holdVoice,
          released, left>>

\* What setup.cpp has for the constants: slots and voices are counted from one
\* (0 is none), there are finitely many voices and at least one.
ASSUME ClipsAssumption ==
    /\ Slot \subseteq Nat \ {0}
    /\ Voice \subseteq Nat \ {0} /\ IsFiniteSet(Voice) /\ Voice # {}
    /\ "none" \notin File
    /\ QueueCap \in Nat /\ MaxTriggers \in Nat /\ MaxStops \in Nat /\ MaxChanges \in Nat

Empty == <<"none", 0>>
Quiet == [slot |-> 0, hold |-> FALSE, clip |-> Empty, n |-> 0]  \* no trigger
\* Where the main loop is.
Main(at, event, todo, seen) == [at |-> at, event |-> event, todo |-> todo, seen |-> seen]
Idle  == Main("idle", Quiet, {}, {})
Present == {f \in File : files[f] # 0}
Loaded(f) == {k \in Slot : slots[k][1] = f}
AnyOf(S) == CHOOSE x \in S : \A y \in S : x <= y
Spend(kind) == left[kind] > 0 /\ left' = [left EXCEPT ![kind] = @ - 1]

mainVars  == <<files, slots, ctl, left, released>>
audioVars == <<aud, voices, holdVoice>>

-----------------------------------------------------------------------------
(* The main loop.                                                          *)

Event(k, hold, clip, n) == [slot |-> k, hold |-> hold, clip |-> clip, n |-> n]

\* queueSfxByPath: the clip is counted before the trigger is queued.
Count(k, hold, n) ==
    /\ refs' = [refs EXCEPT ![k] = @ + 1]
    /\ ctl' = Main("queue", Event(k, hold, slots[k], n), {}, {})

\* A sound that is not loaded is looked for in the directory first.
Trigger(f, hold) ==
    /\ ctl.at = "idle" /\ Spend("triggers")
    /\ IF Loaded(f) # {} THEN Count(AnyOf(Loaded(f)), hold, left.triggers)
       ELSE /\ ctl' = Main("reload", Event(0, hold, <<f, 0>>, left.triggers), Present, {})
            /\ UNCHANGED refs
    /\ UNCHANGED <<files, slots, queue, holdStops, stopAll, released, audioVars>>

\* Mutant of Enqueue: the queue never refuses.
EnqueueAlways ==
    /\ ctl.at = "queue" /\ ctl' = Idle /\ queue' = Append(queue, ctl.event)
    /\ UNCHANGED <<files, slots, refs, holdStops, stopAll, released, left, audioVars>>

\* enqueueSfxEvent: a full queue drops the trigger, and its count with it.
Enqueue ==
    /\ ctl.at = "queue" /\ ctl' = Idle
    /\ IF Len(queue) >= QueueCap
       THEN refs' = [refs EXCEPT ![ctl.event.slot] = @ - 1] /\ UNCHANGED queue
       ELSE queue' = Append(queue, ctl.event) /\ UNCHANGED refs
    /\ UNCHANGED <<files, slots, holdStops, stopAll, released, left, audioVars>>

\* reloadSfxBank, one file of the directory: a clip in use stays as it is, one
\* that is not is read again, a new one takes a slot that is empty and that
\* nothing refers to.  A file that cannot be read leaves its slot empty.
Reload(f) ==
    LET there    == Loaded(f)
        free     == {k \in Slot : slots[k] = Empty /\ refs[k] = 0}
        at       == IF there # {} THEN there ELSE free
        On(seen) == ctl' = Main("reload", ctl.event, ctl.todo \ {f}, seen)
    IN  /\ ctl.at = "reload" /\ f \in ctl.todo
        /\ IF at = {} THEN On(ctl.seen) /\ UNCHANGED slots
           ELSE LET k    == AnyOf(at)
                    used == there # {} /\ refs[k] > 0
                IN  \/ /\ On(ctl.seen \cup {k})
                       /\ slots' = IF used THEN slots ELSE [slots EXCEPT ![k] = <<f, files[f]>>]
                    \/ ~used /\ On(ctl.seen) /\ slots' = [slots EXCEPT ![k] = Empty]
        /\ UNCHANGED <<files, refs, queue, holdStops, stopAll, released, left, audioVars>>

\* Mutant of Sweep: a clip whose file has gone is freed whoever plays it.
SweepAll ==
    /\ ctl.at = "reload" /\ ctl.todo = {} /\ ctl' = Idle
    /\ slots' = [k \in Slot |-> IF k \in ctl.seen THEN slots[k] ELSE Empty]
    /\ UNCHANGED <<files, refs, queue, holdStops, stopAll, released, left, audioVars>>

\* The end of a reload: clips whose files have gone are freed, unless they are
\* in use; then the trigger that asked for the reload.
Sweep ==
    LET kept == [k \in Slot |-> IF k \in ctl.seen \/ refs[k] > 0 THEN slots[k] ELSE Empty]
        at   == IF ctl.event = Quiet THEN {} ELSE {k \in Slot : kept[k][1] = ctl.event.clip[1]}
        to   == AnyOf(at)
    IN  /\ ctl.at = "reload" /\ ctl.todo = {}
        /\ slots' = kept
        /\ IF at = {} THEN ctl' = Idle /\ UNCHANGED refs
           ELSE /\ refs' = [refs EXCEPT ![to] = @ + 1]
                /\ ctl' = Main("queue", Event(to, ctl.event.hold, kept[to], ctl.event.n), {}, {})
        /\ UNCHANGED <<files, queue, holdStops, stopAll, released, left, audioVars>>

\* Uploads end with a reload, deletions do not.
Change(f, version, reload) ==
    /\ ctl.at = "idle" /\ Spend("changes") /\ files' = [files EXCEPT ![f] = version]
    /\ ctl' = IF reload THEN Main("reload", Quiet, Present', {}) ELSE ctl
    /\ UNCHANGED <<slots, refs, queue, holdStops, stopAll, released, audioVars>>

\* Triggers that hold, as far as the audio thread has not ended them.
Held == {queue[k].n : k \in {j \in DOMAIN queue : queue[j].hold}} \cup
        {voices[v].n : v \in {w \in Voice : voices[w].hold}}

StopHeld ==
    /\ ctl.at = "idle" /\ Spend("stops") /\ holdStops' = TRUE /\ released' = released \cup Held
    /\ UNCHANGED <<files, slots, refs, queue, stopAll, ctl, audioVars>>

StopAll ==
    /\ ctl.at = "idle" /\ Spend("stops") /\ stopAll' = TRUE
    /\ UNCHANGED <<files, slots, refs, queue, holdStops, ctl, released, audioVars>>

-----------------------------------------------------------------------------
(* The audio thread.                                                       *)

Go(at) == aud' = [aud EXCEPT !.at = at]

\* stopVoice of some voices: their references, and the held voice's place.
Released(r, gone) ==
    [k \in Slot |-> LET n == Cardinality({v \in gone : voices[v].slot = k})
                    IN  IF r[k] < n THEN 0 ELSE r[k] - n]
Stop(gone) ==
    /\ refs' = Released(refs, gone)
    /\ voices' = [v \in Voice |-> IF v \in gone THEN Quiet ELSE voices[v]]
    /\ holdVoice' = IF holdVoice \in gone THEN 0 ELSE holdVoice

\* consumeSoundboardTriggers: Stop All goes before the releases,
TakeStopAll ==
    /\ aud.at = "idle" /\ stopAll' = FALSE
    /\ Go(IF stopAll THEN "stopall" ELSE "release")
    /\ UNCHANGED <<mainVars, refs, queue, holdStops, voices, holdVoice>>

\* and takes them with it,
ForgetReleases ==
    /\ aud.at = "stopall" /\ holdStops' = FALSE /\ Go("stopping")
    /\ UNCHANGED <<mainVars, refs, queue, stopAll, voices, holdVoice>>

StopOne ==
    /\ aud.at = "stopping"
    /\ \/ \E v \in Voice : voices[v] # Quiet /\ Stop({v}) /\ UNCHANGED aud
       \/ /\ \A v \in Voice : voices[v] = Quiet
          /\ Go("drain") /\ UNCHANGED <<refs, voices, holdVoice>>
    /\ UNCHANGED <<mainVars, queue, holdStops, stopAll>>

\* and what is queued by then.
Drain ==
    /\ aud.at = "drain"
    /\ refs' = [k \in Slot |-> refs[k] - Cardinality({j \in DOMAIN queue : queue[j].slot = k})]
    /\ queue' = <<>> /\ Go("render")
    /\ UNCHANGED <<mainVars, holdStops, stopAll, voices, holdVoice>>

\* The releases go before the triggers.
TakeReleases ==
    /\ aud.at = "release" /\ holdStops' = FALSE /\ Go("window")
    /\ IF holdStops /\ holdVoice # 0 THEN Stop({holdVoice})
                                      ELSE UNCHANGED <<refs, voices, holdVoice>>
    /\ UNCHANGED <<mainVars, queue, stopAll>>

\* sfxQueueWrite is read once; what comes later is for the next block.
Window ==
    /\ aud.at = "window" /\ aud' = [at |-> "take", taken |-> 0, upTo |-> Len(queue)]
    /\ UNCHANGED <<mainVars, refs, queue, holdStops, stopAll, voices, holdVoice>>

\* pickVoiceForStart: a voice at rest, or the oldest that is not held, or the
\* oldest; a held sound may take any.
Oldest(S) == CHOOSE v \in S : \A w \in S : voices[v].n >= voices[w].n  \* n counts down
Pick(vs, hold) ==
    LET rest == {v \in Voice : vs[v] = Quiet}
        free == {v \in Voice : hold \/ ~vs[v].hold}
    IN  IF rest # {} THEN AnyOf(rest) ELSE Oldest(IF free # {} THEN free ELSE Voice)

\* One trigger: a held one ends the held voice, then a voice is found for it.
Take ==
    /\ aud.at = "take" /\ aud.taken < aud.upTo
    /\ LET e    == queue[aud.taken + 1]
           ends == IF e.hold /\ holdVoice # 0 THEN {holdVoice} ELSE {}
           rest == [v \in Voice |-> IF v \in ends THEN Quiet ELSE voices[v]]
           v    == Pick(rest, e.hold)
       IN  IF slots[e.slot] = Empty
           THEN /\ refs' = [refs EXCEPT ![e.slot] = IF @ = 0 THEN 0 ELSE @ - 1]
                /\ UNCHANGED <<voices, holdVoice>>
           ELSE /\ refs' = Released(refs, ends \cup {v})
                /\ voices' = [rest EXCEPT ![v] = e]
                /\ holdVoice' = IF e.hold THEN v ELSE IF holdVoice = v THEN 0 ELSE holdVoice
    /\ aud' = [aud EXCEPT !.taken = @ + 1]
    /\ UNCHANGED <<mainVars, queue, holdStops, stopAll>>

\* sfxQueueRead is stored when the last one has been taken.
Taken ==
    /\ aud.at = "take" /\ aud.taken = aud.upTo
    /\ queue' = SubSeq(queue, aud.upTo + 1, Len(queue))
    /\ aud' = [at |-> "render", taken |-> 0, upTo |-> 0]
    /\ UNCHANGED <<mainVars, refs, holdStops, stopAll, voices, holdVoice>>

\* The rest of the block: some clips come to their end.
Render ==
    /\ aud.at = "render" /\ Go("idle")
    /\ \E gone \in SUBSET {v \in Voice : voices[v] # Quiet} : Stop(gone)
    /\ UNCHANGED <<mainVars, queue, holdStops, stopAll>>

ClipsInit ==
    /\ files = [f \in File |-> 1] /\ slots = [k \in Slot |-> Empty] /\ refs = [k \in Slot |-> 0]
    /\ queue = <<>> /\ holdStops = FALSE /\ stopAll = FALSE
    /\ ctl = Main("reload", Quiet, File, {})
    /\ aud = [at |-> "idle", taken |-> 0, upTo |-> 0]
    /\ voices = [v \in Voice |-> Quiet] /\ holdVoice = 0 /\ released = {}
    /\ left = [triggers |-> MaxTriggers, stops |-> MaxStops, changes |-> MaxChanges]

MainLoop ==
    \/ \E f \in File, hold \in BOOLEAN : Trigger(f, hold)
    \/ \E f \in File : Reload(f) \/ Change(f, files[f] + 1, TRUE) \/ Change(f, 0, FALSE)
    \/ Enqueue \/ Sweep \/ StopHeld \/ StopAll

AudioThread ==
    \/ TakeStopAll \/ ForgetReleases \/ StopOne \/ Drain
    \/ TakeReleases \/ Window \/ Take \/ Taken \/ Render

ClipsNext == MainLoop \/ AudioThread

ClipsSpec == ClipsInit /\ [][ClipsNext]_clipsVars

-----------------------------------------------------------------------------
(* What must hold.                                                         *)

Playing == {v \in Voice : voices[v] # Quiet}
Waiting == {k \in DOMAIN queue : k > aud.taken}
Reserved(k) == IF ctl.at = "queue" /\ ctl.event.slot = k THEN 1 ELSE 0

ClipsTyped ==
    /\ \A k \in Slot : slots[k] = Empty \/ slots[k][1] \in File
    /\ Len(queue) <= QueueCap /\ aud.taken <= aud.upTo /\ aud.upTo <= Len(queue)
    /\ holdVoice \in {0} \cup Voice

\* Whatever reloads, stops, overflows and deletions come between, every voice
\* and every queued trigger has the very clip it was triggered for, which is
\* thus never freed or replaced while the audio thread may read it; and the
\* count of a clip is exactly those who use it, so that none is freed early
\* and none stays loaded for good (setup.cpp:216-295, 396-482,
\* processing.cpp:1242-1421).
ClipsAreKept ==
    /\ \A v \in Playing : slots[voices[v].slot] = voices[v].clip
    /\ \A k \in Waiting : slots[queue[k].slot] = queue[k].clip
    /\ \A k \in Slot : refs[k] = Cardinality({v \in Playing : voices[v].slot = k}) +
                                 Cardinality({j \in Waiting : queue[j].slot = k}) + Reserved(k)

\* docs/guide/soundboard.md:65: "Hold starts on press and stops on release".
\* Once the audio thread has taken a release, no sound plays on that was held
\* when it was asked for.
HoldEndsOnRelease ==
    aud.at = "idle" /\ ~holdStops =>
        \A v \in Playing : ~(voices[v].hold /\ voices[v].n \in released)
=============================================================================
