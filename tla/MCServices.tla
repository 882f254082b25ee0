----------------------------- MODULE MCServices -----------------------------
(***************************************************************************)
(* The services of the device that share no state of the models: the ring  *)
(* of the Bluetooth input, the Bluetooth worker, the clips of the          *)
(* soundboard, the supervisor of the processes, usage telemetry and the    *)
(* effects' map (whose variables and constants are this module's own), the *)
(* soundboard's map and the scripts.                                       *)
(*                                                                         *)
(* A property of one service reads the variables of that service only, and *)
(* a step of another leaves them alone.  So every behaviour of the         *)
(* composition is checked when every service is run with the others        *)
(* stuttering: `focus` is the one that runs, and the others stay in one of *)
(* their initial states.                                                   *)
(***************************************************************************)
EXTENDS InputStream, BluetoothManager, SoundClips, Supervisor, UsageTelemetry, EffectMap, TLC

CONSTANTS one, two

VARIABLES
    focus,
    sm_files, sm_disk, sm_mem, sm_owed, sm_cut, sm_left,
    sr_s, sr_left

-----------------------------------------------------------------------------
(* Two of a kind, which are interchangeable: two Bluetooth devices, two    *)
(* WebUI tabs, two files of sounds.  Only one service runs, so that they   *)
(* are the same two values for each.                                       *)
Pair == {one, two}
Symmetry == Permutations(Pair)

-----------------------------------------------------------------------------
(* One Bluetooth link at a time.                                           *)
ManagerBudget == [request |-> 2, event |-> 1]

-----------------------------------------------------------------------------
(* Two sounds, one action tile, a controller of four pads and one key      *)
(* beside it, and room for two notes in each table.                        *)
Blank == [mode |-> "none", size |-> 0, corner |-> 0, note |-> 0, el |-> "none", cell |-> 0]
LayoutRequests ==
    {[Blank EXCEPT !.mode = m] : m \in {"normal", "grid"}}
    \cup {[Blank EXCEPT !.mode = "grid", !.size = n] : n \in {2, 4}}
    \cup {[Blank EXCEPT !.corner = c, !.note = n] : c \in {1, 4}, n \in {1, 4, 5}}
    \cup {[Blank EXCEPT !.el = e, !.cell = k] : e \in {"kick", "snare", "stop_all"}, k \in 0..4}

\* A controller learned but for its last corner, or altogether, or with a
\* sound on each of its first two pads.
NewMap == [mappings |-> <<>>, actions |-> <<>>, cells |-> <<>>, size |-> 4,
           corner |-> <<1, 2, 3, 128>>, layout |-> "normal", initialized |-> FALSE,
           order |-> <<>>, lights |-> {}, modes |-> {}]
Learned == [NewMap EXCEPT !.corner[4] = 4]
AsGrid(m) == [m EXCEPT !.layout = "grid", !.initialized = TRUE]
TwoPads == [AsGrid(Learned) EXCEPT
    !.cells = <<[el |-> "kick", cell |-> 1], [el |-> "snare", cell |-> 2]>>,
    !.mappings = <<[note |-> 1, el |-> "kick"], [note |-> 2, el |-> "snare"]>>]
Controllers == {NewMap, Learned, AsGrid(NewMap), AsGrid(Learned), TwoPads}

SM == INSTANCE SoundMap WITH
    Sound <- <<"kick", "snare">>, Action <- {"stop_all"}, Note <- {1, 2, 5}, MaxMappings <- 2,
    LayoutRequest <- LayoutRequests, Seed <- Controllers, MaxRequests <- 2, MaxFaults <- 1,
    files <- sm_files, disk <- sm_disk, mem <- sm_mem, owed <- sm_owed, cut <- sm_cut,
    left <- sm_left
smVars == <<sm_files, sm_disk, sm_mem, sm_owed, sm_cut, sm_left>>

-----------------------------------------------------------------------------
(* Two scripts that start up and hear of devices and of the user, or one   *)
(* that runs on time and on request; plans that press, sound, light, wait  *)
(* and call.  Queues of two run full.                                      *)
Script(h, v) == [hooks |-> h, valid |-> v]
Libraries == {<<Script({"boot", "leave"}, TRUE), Script({"boot", "run", "connect"}, TRUE)>>,
              <<Script({"timer", "run"}, TRUE), Script({"run"}, FALSE)>>}
Plans == {<<"press", "on", "wait">>, <<"mediatap", "light", "call">>}

SR == INSTANCE ScriptRuntime WITH
    Library <- Libraries, Plan <- Plans, QueueMax <- 2, PendMax <- 2,
    MaxFaults <- 1, MaxUpsets <- 1, MaxTriggers <- 1, s <- sr_s, left <- sr_left
srVars == <<sr_s, sr_left>>

-----------------------------------------------------------------------------
Service == {"ring", "bluetooth", "soundmap", "effectmap", "scripts", "usage", "clips",
            "supervisor"}

\* A service that stays where it is stays in one state.
Resting ==
    /\ focus # "bluetooth" => dev = [d \in Device |-> Unlisted]
    /\ focus # "soundmap" => sm_disk = NewMap
    /\ focus # "scripts" => ~sr_s.defs[2].valid
    /\ focus # "usage" => disk.legacy = "0"

SInit ==
    /\ focus \in Service
    /\ Init /\ ManagerInit /\ SM!Init /\ EffectsInit /\ SR!Init /\ UsageInit /\ ClipsInit /\ SupInit
    /\ Resting

SNext ==
    /\ UNCHANGED focus
    /\ \/ focus = "ring" /\ Next
          /\ UNCHANGED <<managerVars, smVars, effectVars, srVars, usageVars, clipsVars, supervisorVars>>
       \/ focus = "bluetooth" /\ ManagerNext
          /\ UNCHANGED <<vars, smVars, effectVars, srVars, usageVars, clipsVars, supervisorVars>>
       \/ focus = "soundmap" /\ SM!Next
          /\ UNCHANGED <<vars, managerVars, effectVars, srVars, usageVars, clipsVars, supervisorVars>>
       \/ focus = "effectmap" /\ EffectsNext
          /\ UNCHANGED <<vars, managerVars, smVars, srVars, usageVars, clipsVars, supervisorVars>>
       \/ focus = "scripts" /\ SR!Next
          /\ UNCHANGED <<vars, managerVars, smVars, effectVars, usageVars, clipsVars, supervisorVars>>
       \/ focus = "usage" /\ UsageNext
          /\ UNCHANGED <<vars, managerVars, smVars, effectVars, srVars, clipsVars, supervisorVars>>
       \/ focus = "clips" /\ ClipsNext
          /\ UNCHANGED <<vars, managerVars, smVars, effectVars, srVars, usageVars, supervisorVars>>
       \/ focus = "supervisor" /\ SupNext
          /\ UNCHANGED <<vars, managerVars, smVars, effectVars, srVars, usageVars, clipsVars>>

SSpec ==
    SInit /\ [][SNext]_<<focus, vars, managerVars, smVars, effectVars, srVars, usageVars, clipsVars,
                          supervisorVars>>

-----------------------------------------------------------------------------
(* The properties are those of the services: the modules state them and    *)
(* say what each is about.                                                 *)

\* Nothing stays of what has gone.  A note that was given to something else keeps no
\* second meaning, and a sound or a place that is no more leaves no tile (SoundMap); a
\* script leaves no note, light, key or event behind (ScriptRuntime).
NothingStays ==
    /\ focus = "soundmap" => SM!NoteHasOneMeaning /\ SM!CellsExist
    /\ focus = "scripts" => SR!NothingStays

\* A request about one tile leaves the other pads of the grid (SoundMap), and the
\* start-up event reaches all that subscribe to it (ScriptRuntime).
StepsAreWhole == SM!GridKeepsItsPads /\ SR!BootReachesAll

\* Every table, queue and counter of the service that runs keeps its type and limit.
TypesAreKept ==
    CASE focus = "ring" -> TypeOK [] focus = "bluetooth" -> ManagerTyped
      [] focus = "soundmap" -> SM!TypeOK [] focus = "effectmap" -> EffectsTyped
      [] focus = "scripts" -> SR!TypeOK [] focus = "usage" -> UsageTyped
      [] focus = "clips" -> ClipsTyped [] focus = "supervisor" -> SupTyped
=============================================================================
