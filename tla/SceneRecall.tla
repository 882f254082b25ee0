----------------------------- MODULE SceneRecall ------------------------------
(***************************************************************************)
(* Recalling a scene (recall() in src/config/scenes.cpp) against the audio *)
(* thread (src/audio/processing.cpp) and the Bluetooth thread, which       *)
(* reloads the routing graph too.  The control thread mutes the outputs,   *)
(* waits for the audio thread to be silent, writes the four configuration  *)
(* files, swaps effects, gains and routing, and leaves it to the audio     *)
(* thread to lift the mute once it runs the new graph.                     *)
(*                                                                         *)
(* A setup is one value: what a scene holds of effects, of gains or of     *)
(* routes is known by the scene it came from.  EffectHosts models the      *)
(* single effects.                                                         *)
(***************************************************************************)
EXTENDS GraphMailbox, FiniteSets, Sequences

CONSTANTS
  Setups,        \* scenes, and the setup the device starts with
  Initial,       \* the latter
  Truncated,     \* the contents of a file that was cut short; no setup
  Unavailable,   \* setups whose routes all name devices that are not there
  Legacy,        \* setups stored with routes that a reload rewrites
  FullDisk,      \* writes may be cut short
  FadeBlocks,    \* blocks it takes to fade in or out
  MaxRecalls,    \* bound on the recalls
  MaxFaults,     \* bound on the reads, writes and waits that fail
  MaxRefreshes   \* bound on the reloads of the Bluetooth thread

MaxGeneration == 1 + MaxRecalls + MaxRefreshes

ASSUME SceneAssumption ==
  /\ Initial \in Setups
  /\ Truncated \notin Setups
  /\ Unavailable \subseteq Setups \ {Initial}
  /\ Legacy \subseteq Setups
  /\ FullDisk \in BOOLEAN
  /\ FadeBlocks \in Nat \ {0}
  /\ MaxRecalls \in Nat /\ MaxRefreshes \in Nat /\ MaxFaults \in Nat
  /\ Graphs = [generation : 0..MaxGeneration, routes : Setups]
  /\ InitialGraph = [generation |-> 0, routes |-> Initial]

VARIABLES
  \* the control thread, in recall()
  control, scene, next, ok, saved,
  \* the configuration files
  disk,
  \* AudioContext
  effects,       \* effectStates and pluginHosts
  gains,         \* thingGains
  graph,         \* routingGraph and routingGraphPublished
  muted,         \* sceneMuted
  silent,        \* sceneSilent
  release,       \* sceneReleaseGeneration
  active,        \* activeSceneId
  \* reloadRoutingGraph() of the two threads that call it
  reload,
  \* the audio thread
  step, rt, seen, fade, loud, wasMuted,
  \* history: bounds, and what went wrong so far
  recalls, refreshes, faults, mishaps

controlVars == <<control, scene, next, ok, saved, recalls>>
setupVars == <<disk, effects, gains, active>>
muteVars == <<muted, silent, release>>
reloadVars == <<graph, reload, refreshes>>
audioVars == <<step, rt, seen, fade, loud, wasMuted>>
vars == <<controlVars, setupVars, muteVars, reloadVars, audioVars, faults, mishaps, mailboxVars>>

(* The order recall() writes them in; writeMidiMapFile() writes the first  *)
(* two.                                                                    *)
Files == <<"midi_map", "fx_params", "volumes", "routing">>
File == {Files[i] : i \in DOMAIN Files}

Threads == {"control", "bluetooth"}

(* A local variable that has no value is given one, so that it does not    *)
(* tell states apart.                                                      *)
NoFiles == [f \in File |-> Initial]
IdleReload == [pc |-> "idle", routes |-> Initial]

Mishap(m) == mishaps' = mishaps \cup {m}
Fault == faults < MaxFaults /\ faults' = faults + 1

Init ==
  /\ MailboxInit
  /\ control = "boot" /\ scene = Initial /\ next = 1 /\ ok = TRUE
  /\ saved = NoFiles
  /\ disk = [f \in File |-> Initial]
  /\ effects = Initial /\ gains = Initial /\ active = Initial
  /\ graph = InitialGraph
  /\ muted = FALSE /\ silent = FALSE /\ release = 0
  /\ reload = [t \in Threads |->
                 IF t = "control" THEN [IdleReload EXCEPT !.pc = "read"] ELSE IdleReload]
  /\ step = "off" /\ rt = [generation |-> 0, routes |-> Initial, gains |-> Initial]
  /\ seen = Initial /\ fade = FadeBlocks /\ loud = FALSE /\ wasMuted = FALSE
  /\ recalls = 0 /\ refreshes = 0 /\ faults = 0 /\ mishaps = {}

-----------------------------------------------------------------------------
(* reloadRoutingGraph(), for either thread.                                *)

At(t, pc) == reload[t].pc = pc
Goto(t, pc) == reload' = [reload EXCEPT ![t].pc = pc]
Leave(t) == reload' = [reload EXCEPT ![t] = IdleReload]

(* The stored routes are read, outside every lock.                         *)
ReadRoutes(t) ==
  /\ At(t, "read")
  /\ reload' = [reload EXCEPT ![t] = [pc |-> "check", routes |-> disk["routing"]]]
  /\ UNCHANGED <<controlVars, setupVars, muteVars, graph, refreshes, audioVars,
                 mishaps, mailboxVars, faults>>

(* The file cannot be read: RET_ERR.  (At boot the audio thread is then    *)
(* never started.)                                                         *)
ReadRoutesFails(t) ==
  /\ At(t, "read")
  /\ Fault
  /\ control # "boot"
  /\ Goto(t, "failed")
  /\ IF t = "control" THEN Mishap("unread") ELSE UNCHANGED mishaps
  /\ UNCHANGED <<controlVars, setupVars, muteVars, graph, refreshes, audioVars,
                 mailboxVars>>

(* "routing update rejected: no valid edges": the graph stays as it is,    *)
(* and the caller is told RET_WARN.                                        *)
RejectRoutes(t) ==
  /\ At(t, "check")
  /\ reload[t].routes \in Unavailable
  /\ Goto(t, "done")
  /\ IF t = "control" THEN Mishap("rejected") ELSE UNCHANGED mishaps
  /\ UNCHANGED <<controlVars, setupVars, muteVars, graph, refreshes, audioVars,
                 mailboxVars, faults>>

(* Routes stored under old names are written back, as they were read.      *)
RewriteRoutes(t) ==
  /\ At(t, "check")
  /\ reload[t].routes \in Legacy \ Unavailable
  /\ disk' = [disk EXCEPT !["routing"] = reload[t].routes]
  /\ Goto(t, "publish")
  /\ IF disk' # disk THEN Mishap("stale") ELSE UNCHANGED mishaps
  /\ UNCHANGED <<controlVars, effects, gains, active, muteVars, graph, refreshes,
                 audioVars, mailboxVars, faults>>

(* routingGraphMutex is taken, the graph numbered and published; the mutex *)
(* is held while the slot is written.                                      *)
PublishGraph(t) ==
  /\ \/ At(t, "check") /\ reload[t].routes \notin Unavailable
     \/ At(t, "publish")
  /\ graph' = [generation |-> graph.generation + 1, routes |-> reload[t].routes]
  /\ BeginPublish(graph')
  /\ Goto(t, "deliver")
  /\ IF reload[t].routes # disk["routing"] THEN Mishap("stale") ELSE UNCHANGED mishaps
  /\ UNCHANGED <<controlVars, setupVars, muteVars, refreshes, audioVars, faults>>

DeliverGraph(t) ==
  /\ At(t, "deliver")
  /\ EndPublish
  /\ Goto(t, "done")
  /\ UNCHANGED <<controlVars, setupVars, muteVars, graph, refreshes, audioVars, mishaps, faults>>

(* The Bluetooth thread reloads the graph when a device is paired, is      *)
(* forgotten or changes its role.                                          *)
BluetoothRefresh ==
  /\ At("bluetooth", "idle")
  /\ control # "boot"
  /\ refreshes < MaxRefreshes
  /\ refreshes' = refreshes + 1
  /\ Goto("bluetooth", "read")
  /\ UNCHANGED <<controlVars, setupVars, muteVars, graph, audioVars, mishaps, mailboxVars, faults>>

BluetoothReturns ==
  /\ reload["bluetooth"].pc \in {"done", "failed"}
  /\ Leave("bluetooth")
  /\ UNCHANGED <<controlVars, setupVars, muteVars, graph, refreshes, audioVars,
                 mishaps, mailboxVars, faults>>

-----------------------------------------------------------------------------
(* The control thread: recall().                                           *)

(* setupThreads(): the first graph is published, and the audio thread is   *)
(* started.                                                                *)
StartAudio ==
  /\ control = "boot" /\ At("control", "done")
  /\ control' = "idle"
  /\ Leave("control")
  /\ step' = "look"
  /\ UNCHANGED <<scene, next, ok, saved, recalls, setupVars, muteVars, graph, refreshes,
                 rt, seen, fade, loud, wasMuted, mishaps, mailboxVars, faults>>

(* Once the files are a mixture, or the routing a stale one, no further     *)
(* recall is explored: a bound.                                            *)
Damaged == mishaps \cap {"unrestored", "full", "stale"} # {}

(* A recall starts when no release is pending; its plugins have started,   *)
(* and the old effect configuration has been read.                         *)
Recall(s) ==
  /\ control = "idle" /\ recalls < MaxRecalls /\ ~Damaged
  /\ release = 0
  /\ recalls' = recalls + 1
  /\ scene' = s /\ next' = 1 /\ ok' = TRUE
  /\ saved' = [f \in File |-> disk[f]]
  /\ silent' = FALSE
  /\ control' = "mute"
  /\ UNCHANGED <<setupVars, muted, release, reloadVars, audioVars, mishaps, mailboxVars, faults>>

MuteOutputs ==
  /\ control = "mute"
  /\ muted' = TRUE
  /\ control' = "await"
  /\ UNCHANGED <<scene, next, ok, saved, recalls, setupVars, silent, release, reloadVars,
                 audioVars, mishaps, mailboxVars, faults>>

SilenceSeen ==
  /\ control = "await"
  /\ silent
  /\ control' = "read"
  /\ UNCHANGED <<scene, next, ok, saved, recalls, setupVars, muteVars, reloadVars,
                 audioVars, mishaps, mailboxVars, faults>>

(* recall() fails, and the outputs are heard again.  A block that has been *)
(* played muted may still be about to store sceneSilent.                   *)
Return == control' = "idle" /\ scene' = Initial /\ next' = 1 /\ ok' = TRUE /\ saved' = NoFiles

Fail == /\ muted' = FALSE
        /\ Return
        /\ IF step = "ack" /\ wasMuted THEN Mishap("late") ELSE UNCHANGED mishaps
        /\ UNCHANGED <<silent, release>>

(* No silence within 250 ms.                                               *)
SilenceTimesOut ==
  /\ control = "await"
  /\ Fault
  /\ Fail
  /\ UNCHANGED <<recalls, setupVars, reloadVars, audioVars, mailboxVars>>

(* Old routes and volumes are read.                                        *)
ReadOldFiles ==
  /\ control = "read"
  /\ saved' = [f \in File |-> IF f \in {"volumes", "routing"} THEN disk[f] ELSE saved[f]]
  /\ control' = "write"
  /\ UNCHANGED <<scene, next, ok, recalls, setupVars, muteVars, reloadVars, audioVars,
                 mishaps, mailboxVars, faults>>

ReadOldFilesFails ==
  /\ control = "read"
  /\ Fault
  /\ Fail
  /\ UNCHANGED <<recalls, setupVars, reloadVars, audioVars, mailboxVars>>

Current == Files[next]

(* Mutant of AfterWrite: only what has not been written yet is undone.     *)
AfterWriteUndoesRest(good) ==
  /\ ok' = good
  /\ IF ~good /\ next >= 2 THEN control' = "undo" /\ next' = next
     ELSE IF next = Len(Files) THEN control' = "swap" /\ next' = 1
     ELSE control' = "write" /\ next' = next + 1

(* Past writeMidiMapFile(), a failure ends the writing.                    *)
AfterWrite(good) ==
  /\ ok' = good
  /\ IF ~good /\ next >= 2 THEN control' = "undo" /\ next' = 1
     ELSE IF next = Len(Files) THEN control' = "swap" /\ next' = 1
     ELSE control' = "write" /\ next' = next + 1

WriteFile ==
  /\ control = "write"
  /\ disk' = [disk EXCEPT ![Current] = scene]
  /\ AfterWrite(ok)
  /\ UNCHANGED <<scene, saved, recalls, effects, gains, active, muteVars, reloadVars,
                 audioVars, mishaps, mailboxVars, faults>>

(* What a failed write may leave.  The first two files are written in      *)
(* place; the directory is synced after `volumes` has been renamed.        *)
AfterFailure(f) == CASE f \in {"midi_map", "fx_params"} -> {disk[f], Truncated}
                     [] f = "volumes" -> {disk[f], scene}
                     [] f = "routing" -> {disk[f]}

WriteFails ==
  /\ control = "write"
  /\ Fault
  /\ \E d \in AfterFailure(Current) : disk' = [disk EXCEPT ![Current] = d]
  /\ AfterWrite(FALSE)
  /\ UNCHANGED <<scene, saved, recalls, effects, gains, active, muteVars, reloadVars,
                 audioVars, mishaps, mailboxVars>>

(* The first two files again: after the header nobody looks at the results *)
(* of dprintf(), and a full disk goes unnoticed.                           *)
WriteCutShort ==
  /\ control = "write"
  /\ Fault
  /\ FullDisk
  /\ Current \in {"midi_map", "fx_params"}
  /\ disk' = [disk EXCEPT ![Current] = Truncated]
  /\ AfterWrite(ok)
  /\ Mishap("full")
  /\ UNCHANGED <<scene, saved, recalls, effects, gains, active, muteVars, reloadVars,
                 audioVars, mailboxVars>>

(* The old files are written back, as far as that works.                   *)
UndoFile ==
  /\ control = "undo" /\ next <= Len(Files)
  /\ disk' = [disk EXCEPT ![Current] = saved[Current]]
  /\ next' = next + 1
  /\ UNCHANGED <<control, scene, ok, saved, recalls, effects, gains, active, muteVars,
                 reloadVars, audioVars, mishaps, mailboxVars, faults>>

UndoFileFails ==
  /\ control = "undo" /\ next <= Len(Files)
  /\ next' = next + 1
  /\ Mishap("unrestored")
  /\ UNCHANGED <<control, scene, ok, saved, recalls, setupVars, muteVars, reloadVars,
                 audioVars, faults, mailboxVars>>

UndoDone ==
  /\ control = "undo" /\ next > Len(Files)
  /\ Fail
  /\ UNCHANGED <<recalls, setupVars, reloadVars, audioVars, mailboxVars, faults>>

(* The live effects are replaced, under effectsMutex.                      *)
SwapEffects ==
  /\ control = "swap"
  /\ effects' = scene
  /\ control' = "gains"
  /\ UNCHANGED <<scene, next, ok, saved, recalls, disk, gains, active, muteVars, reloadVars,
                 audioVars, mishaps, mailboxVars, faults>>

(* Then the gains, under gainsMutex, and the routing is reloaded.          *)
SwapGains ==
  /\ control = "gains"
  /\ gains' = scene
  /\ control' = "reload"
  /\ Goto("control", "read")
  /\ UNCHANGED <<scene, next, ok, saved, recalls, disk, effects, active, muteVars, graph,
                 refreshes, audioVars, mishaps, mailboxVars, faults>>

(* The mute is to end when the audio thread runs the graph published last, *)
(* which is read under routingGraphMutex.                                  *)
OrderRelease ==
  /\ control = "reload" /\ At("control", "done")
  /\ writing = NoGraph
  /\ release' = graph.generation
  /\ control' = "linger"
  /\ Leave("control")
  /\ UNCHANGED <<scene, next, ok, saved, recalls, setupVars, muted, silent, graph, refreshes,
                 audioVars, mishaps, mailboxVars, faults>>

(* Mutant of ReloadFailed: it returns without lifting the mute.            *)
ReloadFailedMuted ==
  /\ control = "reload" /\ At("control", "failed")
  /\ Return
  /\ Leave("control")
  /\ UNCHANGED <<recalls, setupVars, muteVars, graph, refreshes, audioVars, faults,
                 mishaps, mailboxVars>>

ReloadFailed ==
  /\ control = "reload" /\ At("control", "failed")
  /\ Fail
  /\ Leave("control")
  /\ UNCHANGED <<recalls, setupVars, graph, refreshes, audioVars, mailboxVars, faults>>

(* The release was seen, or 250 ms are over: success in either case.       *)
Succeed ==
  /\ control = "linger"
  /\ active' = scene
  /\ Return
  /\ UNCHANGED <<recalls, disk, effects, gains, muteVars, reloadVars,
                 audioVars, mishaps, mailboxVars, faults>>

-----------------------------------------------------------------------------
(* The audio thread: one turn of audioProcessingThreadMain().              *)

audioRest == <<controlVars, setupVars, reloadVars, faults, mishaps>>

TakeGraph ==
  /\ step = "look"
  /\ Consume
  /\ step' = "copy"
  /\ UNCHANGED <<audioRest, muteVars, rt, seen, fade, loud, wasMuted>>

(* Nothing new.  (Before the first graph the zeroed one is copied, which   *)
(* changes nothing.)                                                       *)
NoNewGraph ==
  /\ step = "look"
  /\ ~middle.fresh
  /\ step' = "release"
  /\ UNCHANGED <<audioRest, muteVars, rt, seen, fade, loud, wasMuted, mailboxVars>>

(* The graph is copied, and rebuildRuntimeGraph() works on the copy.        *)
CopyGraph ==
  /\ step = "copy"
  /\ EndConsume
  /\ rt' = [rt EXCEPT !.generation = out'.generation, !.routes = out'.routes]
  /\ step' = "gains"
  /\ UNCHANGED <<audioRest, muteVars, seen, fade, loud, wasMuted>>

(* snapshotGainsForGraph(), under gainsMutex.                              *)
SnapshotGains ==
  /\ step = "gains"
  /\ rt' = [rt EXCEPT !.gains = gains]
  /\ step' = "release"
  /\ UNCHANGED <<audioRest, muteVars, seen, fade, loud, wasMuted, mailboxVars>>

(* Mutant of ReleaseDue: whatever graph is running.                        *)
ReleaseDueAtOnce == release # 0

ReleaseDue == release # 0 /\ rt.generation >= release

CheckRelease ==
  /\ step = "release"
  /\ step' = IF ReleaseDue THEN "unmute" ELSE "block"
  /\ UNCHANGED <<audioRest, muteVars, rt, seen, fade, loud, wasMuted, mailboxVars>>

Unmute ==
  /\ step = "unmute"
  /\ muted' = FALSE
  /\ step' = "clear"
  /\ UNCHANGED <<audioRest, silent, release, rt, seen, fade, loud, wasMuted, mailboxVars>>

ClearRelease ==
  /\ step = "clear"
  /\ release' = 0
  /\ step' = "block"
  /\ UNCHANGED <<audioRest, muted, silent, rt, seen, fade, loud, wasMuted, mailboxVars>>

(* updateIdleControls(): the effects this block is made with.  Without a   *)
(* graph nothing is played; the first one was published before the thread  *)
(* started.                                                                *)
ObserveControls ==
  /\ step = "block"
  /\ rt.generation > 0
  /\ seen' = effects
  /\ step' = "play"
  /\ UNCHANGED <<audioRest, muteVars, rt, fade, loud, wasMuted, mailboxVars>>

Down(n) == IF n = 0 THEN 0 ELSE n - 1
Up(n) == IF n = FadeBlocks THEN FadeBlocks ELSE n + 1

(* servicePlaybackIo(): sceneMuted is read once, the fade moves on and the *)
(* block is played.                                                        *)
Play ==
  /\ step = "play"
  /\ wasMuted' = muted
  /\ fade' = IF muted THEN Down(fade) ELSE Up(fade)
  /\ loud' = (fade > 0 \/ fade' > 0)
  /\ step' = "ack"
  /\ UNCHANGED <<audioRest, muteVars, rt, seen, mailboxVars>>

(* Mutant of Acknowledge: the mute is acknowledged, not the silence.       *)
AcknowledgeMute ==
  /\ step = "ack"
  /\ silent' = wasMuted
  /\ loud' = FALSE /\ wasMuted' = FALSE
  /\ step' = "look"
  /\ UNCHANGED <<audioRest, muted, release, rt, seen, fade, mailboxVars>>

(* sceneSilent is stored.                                                  *)
Acknowledge ==
  /\ step = "ack"
  /\ silent' = (wasMuted /\ fade = 0)
  /\ loud' = FALSE /\ wasMuted' = FALSE
  /\ step' = "look"
  /\ UNCHANGED <<audioRest, muted, release, rt, seen, fade, mailboxVars>>

-----------------------------------------------------------------------------
ControlNext ==
  \/ StartAudio \/ MuteOutputs \/ SilenceSeen \/ SilenceTimesOut
  \/ ReadOldFiles \/ ReadOldFilesFails
  \/ WriteFile \/ WriteFails \/ WriteCutShort \/ UndoFile \/ UndoFileFails \/ UndoDone
  \/ SwapEffects \/ SwapGains \/ OrderRelease \/ ReloadFailed \/ Succeed

AudioNext ==
  \/ TakeGraph \/ NoNewGraph \/ CopyGraph \/ SnapshotGains
  \/ CheckRelease \/ Unmute \/ ClearRelease \/ ObserveControls
  \/ Play \/ Acknowledge

ReloadNext(t) ==
  \/ ReadRoutes(t) \/ ReadRoutesFails(t) \/ RejectRoutes(t)
  \/ RewriteRoutes(t) \/ PublishGraph(t) \/ DeliverGraph(t)

Next ==
  \/ \E s \in Setups : Recall(s)
  \/ ControlNext
  \/ BluetoothRefresh
  \/ BluetoothReturns
  \/ \E t \in Threads : ReloadNext(t)
  \/ AudioNext

Spec == Init /\ [][Next]_vars

(* The audio thread runs at real-time priority, one turn per block.  No    *)
(* recall waits for ever: both of its loops are counted.  Nothing is said  *)
(* of when a scene is recalled or a device pairs.                          *)
Fairness ==
  /\ WF_vars(AudioNext)
  /\ WF_vars(ControlNext \/ ReloadNext("control"))
  /\ WF_vars(ReloadNext("bluetooth"))

FairSpec == Spec /\ Fairness

-----------------------------------------------------------------------------
TypeOK ==
  /\ MailboxTypeOK
  /\ control \in {"boot", "idle", "mute", "await", "read", "write", "undo", "swap",
                  "gains", "reload", "linger"}
  /\ scene \in Setups /\ active \in Setups
  /\ next \in 1..(Len(Files) + 1) /\ ok \in BOOLEAN
  /\ saved \in [File -> Setups \cup {Truncated}]
  /\ disk \in [File -> Setups \cup {Truncated}]
  /\ effects \in Setups /\ gains \in Setups
  /\ graph \in Graphs
  /\ muted \in BOOLEAN /\ silent \in BOOLEAN /\ release \in 0..MaxGeneration
  /\ reload \in [Threads -> [pc : {"idle", "read", "check", "publish", "deliver", "done",
                                   "failed"}, routes : Setups]]
  /\ step \in {"off", "look", "copy", "gains", "release", "unmute", "clear",
               "block", "play", "ack"}
  /\ rt \in [generation : 0..MaxGeneration, routes : Setups, gains : Setups]
  /\ seen \in Setups /\ fade \in 0..FadeBlocks
  /\ loud \in BOOLEAN /\ wasMuted \in BOOLEAN
  /\ mishaps \subseteq {"late", "stale", "rejected", "unread", "unrestored", "full"}

(* While effects, gains and routing are exchanged, no block is heard.      *)
(* (When a recall has failed, the silence of the block in flight may be    *)
(* taken by the next recall for an answer to it.)                          *)
SwapIsSilent ==
  control \in {"read", "write", "undo", "swap", "gains", "reload"} /\ "late" \notin mishaps
    => muted /\ fade = 0 /\ ~loud

(* What is heard is one setup: its routes with its effects and its gains.  *)
(* The exceptions are the accidents recorded in `mishaps`: the reload      *)
(* refused the routes or could not read them, or the Bluetooth thread      *)
(* published routes it had read before the scene's were stored.            *)
HeardIsOneSetup ==
  loud /\ mishaps \cap {"late", "stale", "rejected", "unread"} = {}
    => rt.routes = seen /\ rt.gains = seen

(* A recall that has returned leaves the files with the setup in force,    *)
(* whether it succeeded, or failed and was undone.                         *)
FilesMatchSetup ==
  control = "idle" /\ mishaps \cap {"stale", "unrestored", "full"} = {}
    => \A f \in File : disk[f] = effects

(* The audio thread never goes back to an older graph.                     *)
GraphNeverGoesBack == [][rt'.generation >= rt.generation]_vars

(* The mute is lifted, whatever the recall met.                            *)
MuteIsLifted == muted ~> ~muted

(* The audio thread plays the graph published last, again and again: no    *)
(* publication is lost, however many arrive within a block.                *)
LatestGraphIsPlayed == []<>(step = "ack" /\ rt.generation = graph.generation)

(* The newest graph wins: it is played, and none older after it.           *)
NewestGraphWins == GraphNeverGoesBack /\ LatestGraphIsPlayed

(* docs/scenes.md: "Successful recall updates the existing routing.txt,    *)
(* volumes.txt, midi_map.txt and fx_params.txt formats [...] so the        *)
(* recalled setup survives restart."                                       *)
RecalledSetupSurvives ==
  control = "idle" /\ active = effects /\ "unrestored" \notin mishaps
    => \A f \in File : disk[f] = active
=============================================================================
