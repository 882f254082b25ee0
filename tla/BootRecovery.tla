---------------------------- MODULE BootRecovery ----------------------------
(***************************************************************************)
(* Update rollback: include/boot_recovery.hpp with its callers, the        *)
(* bootloader (src/init/bootloader.cpp), the runtime's recovery poll       *)
(* (src/init/recovery.cpp), the PID 1 watchdog's reboot of a failed trial  *)
(* (src/init/watchdog.cpp) and the HTTP handlers that change boot files    *)
(* (src/http/server.cpp, src/http/api.cpp).                                *)
(*                                                                         *)
(* Two file systems are involved and they order their writes differently.  *)
(*   - The FAT boot partition: `boot' is what the kernel sees, `bootDur'   *)
(*     gives for every file the contents it may have after a power loss.   *)
(*     Nothing orders two files until sync().                              *)
(*   - The ext4 storage partition: `st' is what the kernel sees, `stDur'   *)
(*     the states it may have after a power loss.  Its journal keeps       *)
(*     directory updates in order, so these are the states it went through *)
(*     since the last fsync.                                               *)
(* The contents of a file is the version of the image it came from.        *)
(***************************************************************************)
EXTENDS Integers, FiniteSets

CONSTANTS
  Version,         \* images an update can install
  Factory,         \* the image the card was flashed with
  Broken,          \* images whose runtime never stays healthy
  KernelFileOf,    \* the kernel file name the config.txt of an image selects
  DefaultKernel,   \* kernel8.img: the name used when config.txt has none
  Absent, Torn,    \* contents of a missing file and of a half-written one
  MaxAttempts,     \* BOOT_RECOVERY_MAX_ATTEMPTS
  Kinds,           \* update requests considered (a bound on the environment)
  Budget           \* bounds on the environment: how many requests it makes,
                   \* file operations it fails and power losses it causes

VARIABLES
  boot, bootDur,   \* boot partition
  st, stDur,       \* storage partition: /audiox/system and /audiox/staging
  pc,              \* what the machine executes
  todo,            \* boot files the current loop has still to write
  failed,          \* rc < 0 in bootRecoveryRevert
  req,             \* update request the runtime is serving
  running,         \* boot set the firmware loaded into RAM
  env,             \* AUDIOX_BOOT_TRIAL=1 in the environment of PID 1
  ram,             \* the recovery flags of the runtime process
  left,            \* what is left of Budget
  cut              \* history: the cleanup windows a power loss has hit

vars == <<boot, bootDur, st, stDur, pc, todo, failed, req, running, env, ram,
          left, cut>>

bootVars == <<boot, bootDur>>
stVars == <<st, stDur>>
reqVars == <<todo, failed, req>>
envVars == <<left, cut>>

-----------------------------------------------------------------------------
KernelFile == {KernelFileOf[v] : v \in Version} \cup {DefaultKernel}
BootFile == {"loader", "program", "cmdline", "config"} \cup KernelFile
VersionFile == "version"
Content == Version \cup {Absent, Torn}
NoTrial == -1
AllKinds == {"update", "initram", "bootfile", "config", "cmdline"}

ASSUME ConstantsAssumption ==
  /\ Factory \in Version
  /\ Broken \subseteq Version
  /\ KernelFileOf \in [Version -> STRING]
  /\ DefaultKernel \in STRING
  /\ KernelFile \cap {"loader", "program", "cmdline", "config", VersionFile} = {}
  /\ {Absent, Torn} \cap Version = {}
  /\ Absent # Torn
  /\ MaxAttempts \in Nat \ {0}
  /\ Kinds \subseteq AllKinds
  /\ Budget \in [request : Nat, ioError : Nat, powerLoss : Nat]

(* The kernel file that config.txt of boot partition b selects. *)
KernelOf(b) == IF b["config"] \in Version THEN KernelFileOf[b["config"]]
               ELSE DefaultKernel

(* The five files the firmware takes from boot partition b. *)
BootSet(b) == [kernel  |-> b[KernelOf(b)],  loader  |-> b["loader"],
               program |-> b["program"],    cmdline |-> b["cmdline"],
               config  |-> b["config"]]

(* A backup directory gives for every file the copy it holds, or Absent.   *)
(* bootRecoveryPrepareUpdate copies the fixed names and the kernel that    *)
(* config.txt boots, those that exist; "version" is written last.          *)
BackupName == BootFile \cup {VersionFile}
Snapshot(b) ==
  [f \in BackupName |->
     CASE f = VersionFile -> Factory
       [] f \in {"loader", "program", "cmdline", "config", KernelOf(b)} -> b[f]
       [] OTHER -> Absent]

NoBackup == [f \in BackupName |-> Absent]
HasBackup(s) == s.backup[VersionFile] # Absent
BackupFiles(s) == IF HasBackup(s) THEN {f \in BootFile : s.backup[f] # Absent} ELSE {}

(* What brRemoveFlatDir can leave of backup directory d when it is cut     *)
(* short: readdir gives the entries in any order.                          *)
Remains(d) ==
  {[f \in BackupName |-> IF f \in gone THEN Absent ELSE d[f]] :
     gone \in SUBSET {f \in BackupName : d[f] # Absent}}

(* Running the kernel, modules and runtime of these files, the main loop   *)
(* keeps its heartbeat up.                                                 *)
Sound(set) == \A part \in DOMAIN set : set[part] \in Version \ Broken

(* The firmware reaches the bootloader.                                    *)
Loadable(b) == /\ b["config"] \in Version
               /\ b[KernelOf(b)] \in Version
               /\ b["loader"] \in Version

FactorySet == [f \in BootFile |->
                 IF f \in KernelFile \ {KernelFileOf[Factory]} THEN Absent ELSE Factory]
NoReq == [kind |-> "none", ver |-> Factory]
NoFlags == [pending |-> FALSE, armed |-> FALSE, resolved |-> FALSE]

-----------------------------------------------------------------------------
(* Writing to the two partitions.                                          *)

BootWrite(f, c) == /\ boot' = [boot EXCEPT ![f] = c]
                   /\ bootDur' = [bootDur EXCEPT ![f] = @ \cup {c}]

(* A write followed by fsync of the file or of its directory.              *)
BootWriteSync(f, c) == /\ boot' = [boot EXCEPT ![f] = c]
                       /\ bootDur' = [bootDur EXCEPT ![f] = {c}]

Unsynced == {f \in BootFile : bootDur[f] # {boot[f]}}

Store(s) == st' = s /\ stDur' = stDur \cup {s}
StoreSync(s) == st' = s /\ stDur' = {s}

SyncAll == /\ bootDur' = [f \in BootFile |-> {boot[f]}]
           /\ stDur' = {st}
           /\ UNCHANGED <<boot, st>>

(* The environment acts while its budget lasts.                            *)
Spend(what) == left[what] > 0 /\ left' = [left EXCEPT ![what] = @ - 1]

-----------------------------------------------------------------------------
Init ==
  /\ boot = FactorySet
  /\ bootDur = [f \in BootFile |-> {boot[f]}]
  /\ st = [trial |-> NoTrial, backup |-> NoBackup, staged |-> Absent,
           report |-> FALSE, good |-> BootSet(FactorySet), boots |-> 0]
  /\ stDur = {st}
  /\ pc = "firmware"
  /\ todo = {}
  /\ failed = FALSE
  /\ req = NoReq
  /\ running = BootSet(FactorySet)
  /\ env = FALSE
  /\ ram = NoFlags
  /\ left = Budget
  /\ cut = {}

-----------------------------------------------------------------------------
(* The firmware and the bootloader.                                        *)

FirmwareLoads ==
  /\ pc = "firmware"
  /\ running' = BootSet(boot)
  /\ env' = FALSE
  /\ ram' = NoFlags
  /\ pc' = IF Loadable(boot) THEN "staged" ELSE "dead"
  /\ UNCHANGED <<bootVars, stVars, reqVars, envVars>>

(* applyStagedProgramUpdate returns RET_WARN when nothing is staged.       *)
NoStagedProgram ==
  /\ pc = "staged"
  /\ st.staged = Absent
  /\ pc' = "trial"
  /\ UNCHANGED <<bootVars, stVars, reqVars, running, env, ram, envVars>>

(* It copies the staged runtime beside the installed one and unlinks the   *)
(* latter ...                                                              *)
UnlinkOldProgram ==
  /\ pc = "staged"
  /\ st.staged # Absent
  /\ BootWrite("program", Absent)
  /\ pc' = "promote"
  /\ UNCHANGED <<stVars, reqVars, running, env, ram, envVars>>

(* ... renames the copy into place ...                                     *)
PromoteStaged ==
  /\ pc = "promote"
  /\ BootWrite("program", st.staged)
  /\ pc' = "unstage"
  /\ UNCHANGED <<stVars, reqVars, running, env, ram, envVars>>

(* ... and removes the staged file; a failure to do so is only logged.     *)
UnstageProgram ==
  /\ pc = "unstage"
  /\ \/ Store([st EXCEPT !.staged = Absent]) /\ UNCHANGED left
     \/ Spend("ioError") /\ UNCHANGED stVars
  /\ pc' = "reboot"
  /\ UNCHANGED <<bootVars, reqVars, running, env, ram, cut>>

(* Any other failure of the promotion stops the bootloader for good.       *)
PromotionFails ==
  /\ \/ pc = "staged" /\ st.staged # Absent
     \/ pc = "promote"
  /\ Spend("ioError")
  /\ pc' = "halted"
  /\ UNCHANGED <<bootVars, stVars, reqVars, running, env, ram, cut>>

(* sync(); reboot(RB_AUTOBOOT): the end of a promotion, of a revert, of an *)
(* update and of a failed trial.                                           *)
Reboot ==
  /\ pc = "reboot"
  /\ SyncAll
  /\ pc' = "firmware"
  /\ todo' = {}
  /\ failed' = FALSE
  /\ req' = NoReq
  /\ UNCHANGED <<running, env, ram, envVars>>

(* bootRecoveryBeginBoot: no trial is pending.                             *)
BeginNormalBoot ==
  /\ pc = "trial"
  /\ st.trial = NoTrial
  /\ pc' = "exec"
  /\ UNCHANGED <<bootVars, stVars, reqVars, running, env, ram, envVars>>

AttemptsExhausted(s) == s.trial >= MaxAttempts

(* bootRecoveryBeginBoot: the attempt is on disk before it is made.        *)
CountAttempt ==
  /\ pc = "trial"
  /\ st.trial # NoTrial
  /\ ~AttemptsExhausted(st)
  /\ StoreSync([st EXCEPT !.trial = @ + 1])
  /\ pc' = "attempt"
  /\ UNCHANGED <<bootVars, reqVars, running, env, ram, envVars>>

(* runBootTrial marks the boot as a trial and goes on to the runtime.      *)
(* `boots' is a history field: the trial boots of the armed boot set.      *)
EnterTrial ==
  /\ pc = "attempt"
  /\ StoreSync([st EXCEPT !.boots = @ + 1])
  /\ bootDur' = [f \in BootFile |-> {boot[f]}]
  /\ env' = TRUE
  /\ pc' = "exec"
  /\ UNCHANGED <<boot, reqVars, running, ram, envVars>>

(* Attempts used up, or the counter could not be written.                  *)
DecideRevert ==
  /\ pc = "trial"
  /\ st.trial # NoTrial
  /\ \/ AttemptsExhausted(st) /\ UNCHANGED left
     \/ ~AttemptsExhausted(st) /\ Spend("ioError")
  /\ pc' = "report"
  /\ UNCHANGED <<bootVars, stVars, reqVars, running, env, ram, cut>>

(* A partition runBootTrial needs cannot be mounted: this boot goes on     *)
(* unmarked and uncounted.                                                 *)
TrialMountFails ==
  /\ pc \in {"trial", "report"}
  /\ Spend("ioError")
  /\ pc' = "exec"
  /\ UNCHANGED <<bootVars, stVars, reqVars, running, env, ram, cut>>

(* bootProgramRuntime: execs the runtime, whose initBootRecovery looks     *)
(* once whether this boot is a trial.                                      *)
StartRuntime ==
  /\ pc = "exec"
  /\ IF running.program \in Version
     THEN /\ pc' = "runtime"
          /\ ram' = [NoFlags EXCEPT !.pending = env /\ st.trial # NoTrial]
     ELSE /\ pc' = "halted"
          /\ UNCHANGED ram
  /\ UNCHANGED <<bootVars, stVars, reqVars, running, env, envVars>>

-----------------------------------------------------------------------------
(* bootRecoveryRevert, called by the bootloader.                           *)

(* The report is durable before the first boot file is touched.            *)
WriteReport ==
  /\ pc = "report"
  /\ \/ StoreSync([st EXCEPT !.report = TRUE]) /\ UNCHANGED left
     \/ Spend("ioError") /\ UNCHANGED stVars
  /\ todo' = BackupFiles(st)
  /\ failed' = FALSE
  /\ pc' = "restore"
  /\ UNCHANGED <<bootVars, req, running, env, ram, cut>>

(* Files come back in directory order, config.txt last because it selects  *)
(* the kernel.                                                             *)
RestoreFile(f) ==
  /\ pc = "restore"
  /\ f \in todo
  /\ f = "config" => todo = {"config"}
  /\ \/ BootWrite(f, st.backup[f]) /\ UNCHANGED <<failed, left>>
     \/ Spend("ioError") /\ failed' = TRUE /\ UNCHANGED bootVars
  /\ todo' = todo \ {f}
  /\ UNCHANGED <<stVars, pc, req, running, env, ram, cut>>

(* A failed restore keeps trial and backup; this boot goes on, unmarked.   *)
RestoreFailed ==
  /\ pc = "restore"
  /\ todo = {}
  /\ failed
  /\ SyncAll
  /\ pc' = "exec"
  /\ UNCHANGED <<reqVars, running, env, ram, envVars>>

(* A complete restore clears the trial, then the backup directory.         *)
RestoreComplete ==
  /\ pc = "restore"
  /\ todo = {}
  /\ ~failed
  /\ Store([st EXCEPT !.trial = NoTrial, !.boots = 0])
  /\ pc' = "revertdrop"
  /\ UNCHANGED <<bootVars, reqVars, running, env, ram, envVars>>

RevertDropsBackup ==
  /\ pc = "revertdrop"
  /\ st' = [st EXCEPT !.backup = NoBackup]
  /\ stDur' = stDur \cup {[st EXCEPT !.backup = d] : d \in Remains(st.backup)}
  /\ pc' = IF HasBackup(st) THEN "revertsync" ELSE "revertnone"
  /\ UNCHANGED <<bootVars, reqVars, running, env, ram, envVars>>

(* fsync of the state directory; then the caller reboots, or goes on with  *)
(* the current image when there was no backup.                             *)
RevertSyncsState ==
  /\ pc \in {"revertsync", "revertnone"}
  /\ StoreSync(st)
  /\ pc' = IF pc = "revertsync" THEN "reboot" ELSE "exec"
  /\ UNCHANGED <<bootVars, reqVars, running, env, ram, envVars>>

-----------------------------------------------------------------------------
(* The runtime: confirmation (pollBootRecovery).                           *)

(* Mutant: an update armed during this boot is confirmed with it.          *)
ConfirmArmed ==
  /\ pc = "runtime" /\ ram.pending /\ ~ram.resolved /\ Sound(running)
  /\ Store([st EXCEPT !.trial = NoTrial, !.boots = 0, !.good = running])
  /\ pc' = "confirmdrop"
  /\ UNCHANGED <<bootVars, reqVars, running, env, ram, envVars>>

(* A trial image that has been healthy for BOOT_RECOVERY_CONFIRM_SECONDS.  *)
(* `good' is a history field: the last boot set found healthy.             *)
Confirm ==
  /\ pc = "runtime"
  /\ ram.pending /\ ~ram.resolved /\ ~ram.armed
  /\ Sound(running)
  /\ Store([st EXCEPT !.trial = NoTrial, !.boots = 0, !.good = running])
  /\ pc' = "confirmdrop"
  /\ UNCHANGED <<bootVars, reqVars, running, env, ram, envVars>>

ConfirmDropsBackup ==
  /\ pc = "confirmdrop"
  /\ st' = [st EXCEPT !.backup = NoBackup]
  /\ stDur' = stDur \cup {[st EXCEPT !.backup = d] : d \in Remains(st.backup)}
  /\ pc' = "confirmsync"
  /\ UNCHANGED <<bootVars, reqVars, running, env, ram, envVars>>

ConfirmSyncsState ==
  /\ pc = "confirmsync"
  /\ StoreSync(st)
  /\ ram' = [ram EXCEPT !.resolved = TRUE]
  /\ pc' = "runtime"
  /\ UNCHANGED <<bootVars, reqVars, running, env, envVars>>

(* A newer update armed during this boot owns the trial.                   *)
LeaveTrialToNextBoot ==
  /\ pc = "runtime"
  /\ ram.pending /\ ~ram.resolved /\ ram.armed
  /\ ram' = [ram EXCEPT !.resolved = TRUE]
  /\ UNCHANGED <<bootVars, stVars, pc, reqVars, running, env, envVars>>

-----------------------------------------------------------------------------
(* The runtime: requests that change boot files.  They run in the main     *)
(* loop, which meanwhile neither polls the recovery nor serves another.    *)

(* Boot files a request of kind k for image v writes.                      *)
Targets(k, v) ==
  CASE k = "update"   -> {T \cup {KernelFileOf[v], "loader", "config"} :
                            T \in SUBSET {"cmdline"}}
    [] k = "initram"  -> {{}}
    [] k = "bootfile" -> {{f} : f \in KernelFile \cup {"loader"}}
    [] k = "config"   -> {{"config"}}
    [] k = "cmdline"  -> {{"cmdline"}}

(* Mutant: config.txt is installed first.                                  *)
RankConfigFirst(f) == IF f = "config" THEN 1 ELSE 2

(* Position in handleUpdateUpload's boot_targets.                          *)
Rank(f) == CASE f = "loader" -> 2 [] f = "cmdline" -> 3 [] f = "config" -> 4 [] OTHER -> 1

BeginRequest(k, v) ==
  /\ pc = "runtime"
  /\ Spend("request")
  /\ req' = [kind |-> k, ver |-> v]
  /\ todo' \in Targets(k, v)
  /\ pc' = "prepare"
  /\ UNCHANGED <<bootVars, stVars, failed, running, env, ram, cut>>

EndRequest == pc' = "runtime" /\ todo' = {} /\ req' = NoReq /\ UNCHANGED failed

(* Mutant: the current boot files always become the backup.                *)
PrepareFreshBackup ==
  /\ pc = "prepare"
  /\ StoreSync([st EXCEPT !.backup = Snapshot(boot)])
  /\ pc' = "arm"
  /\ UNCHANGED <<bootVars, reqVars, running, env, ram, envVars>>

(* bootRecoveryPrepareUpdate: a backup that is there is kept, else the     *)
(* boot files are copied aside and the copy renamed into place.            *)
PrepareBackup ==
  /\ pc = "prepare"
  /\ IF HasBackup(st) THEN UNCHANGED stVars
     ELSE StoreSync([st EXCEPT !.backup = Snapshot(boot)])
  /\ pc' = "arm"
  /\ UNCHANGED <<bootVars, reqVars, running, env, ram, envVars>>

(* Mutant: the trial file is not synced.                                   *)
ArmTrialUnsynced ==
  /\ pc = "arm"
  /\ Store([st EXCEPT !.trial = 0, !.boots = 0])
  /\ ram' = [ram EXCEPT !.armed = TRUE]
  /\ pc' = "install"
  /\ UNCHANGED <<bootVars, reqVars, running, env, envVars>>

(* ... and the trial starts with its attempts unused.                      *)
ArmTrial ==
  /\ pc = "arm"
  /\ StoreSync([st EXCEPT !.trial = 0, !.boots = 0])
  /\ ram' = [ram EXCEPT !.armed = TRUE]
  /\ pc' = "install"
  /\ UNCHANGED <<bootVars, reqVars, running, env, envVars>>

PrepareFails ==
  /\ pc \in {"prepare", "arm"}
  /\ Spend("ioError")
  /\ EndRequest
  /\ UNCHANGED <<bootVars, stVars, running, env, ram, cut>>

(* rename() of the next temporary file over its target.                    *)
InstallFile(f) ==
  /\ pc = "install"
  /\ req.kind \in {"update", "bootfile"}
  /\ f \in todo
  /\ \A g \in todo : Rank(f) <= Rank(g)
  /\ BootWrite(f, req.ver)
  /\ todo' = todo \ {f}
  /\ UNCHANGED <<stVars, pc, failed, req, running, env, ram, envVars>>

(* brWriteFileAtomic("/boot", "cmdline.txt", ...).                         *)
InstallCmdline ==
  /\ pc = "install"
  /\ req.kind = "cmdline"
  /\ BootWriteSync("cmdline", req.ver)
  /\ EndRequest
  /\ UNCHANGED <<stVars, running, env, ram, envVars>>

(* handleBootConfig and the fan settings overwrite config.txt in place:    *)
(* open(O_TRUNC), ...                                                      *)
TruncateConfig ==
  /\ pc = "install"
  /\ req.kind = "config"
  /\ BootWrite("config", Torn)
  /\ pc' = "write"
  /\ UNCHANGED <<stVars, reqVars, running, env, ram, envVars>>

(* ... write and fsync.                                                    *)
WriteConfig ==
  /\ pc = "write"
  /\ BootWriteSync("config", req.ver)
  /\ EndRequest
  /\ UNCHANGED <<stVars, running, env, ram, envVars>>

(* A boot file upload is over after its rename: no sync, no reboot.        *)
FinishBootFile ==
  /\ pc = "install"
  /\ req.kind = "bootfile"
  /\ todo = {}
  /\ EndRequest
  /\ UNCHANGED <<bootVars, stVars, running, env, ram, envVars>>

(* An update syncs the boot partition before it stages the runtime.        *)
SyncBootFiles ==
  /\ pc = "install"
  /\ req.kind \in {"update", "initram"}
  /\ todo = {}
  /\ IF req.kind = "update" THEN SyncAll ELSE UNCHANGED <<bootVars, stVars>>
  /\ pc' = "stage"
  /\ UNCHANGED <<reqVars, running, env, ram, envVars>>

StageProgram ==
  /\ pc = "stage"
  /\ Store([st EXCEPT !.staged = req.ver])
  /\ pc' = "reboot"
  /\ UNCHANGED <<bootVars, reqVars, running, env, ram, envVars>>

(* A rename, an open or a write fails: the request ends half done.         *)
InstallFails ==
  /\ pc \in {"install", "write", "stage"}
  /\ Spend("ioError")
  /\ EndRequest
  /\ UNCHANGED <<bootVars, stVars, running, env, ram, cut>>

(* handleSystemRestart.                                                    *)
UserRestart ==
  /\ pc = "runtime"
  /\ pc' = "reboot"
  /\ UNCHANGED <<bootVars, stVars, reqVars, running, env, ram, envVars>>

(* handleSystemBootFailure, DELETE.                                        *)
DismissReport ==
  /\ pc = "runtime"
  /\ st.report
  /\ StoreSync([st EXCEPT !.report = FALSE])
  /\ bootDur' = [f \in BootFile |-> {boot[f]}]
  /\ UNCHANGED <<boot, pc, reqVars, running, env, ram, envVars>>

-----------------------------------------------------------------------------
(* Failures.                                                               *)

RuntimePc == {"runtime", "prepare", "arm", "install", "write", "stage",
              "confirmdrop", "confirmsync"}

(* A backup whose trial is gone although it is not a copy of the boot      *)
(* files: the removal of the backup was cut short.                         *)
LeftBehind(b, s) == s.trial = NoTrial /\ HasBackup(s) /\ s.backup # Snapshot(b)

(* Mutant: the watchdog always starts the runtime again.                   *)
RuntimeRestarts ==
  /\ pc \in RuntimePc
  /\ pc' = "runtime"
  /\ ram' = NoFlags
  /\ todo' = {}
  /\ req' = NoReq
  /\ UNCHANGED <<bootVars, stVars, failed, running, env, envVars>>

(* The runtime exits, or stops its heartbeat and is killed.  What it was   *)
(* doing stays undone; a directory it was removing stays half removed.     *)
(* The watchdog reboots a trial that is still pending and otherwise        *)
(* starts the runtime again.                                               *)
RuntimeFails ==
  /\ pc \in RuntimePc
  /\ \/ UNCHANGED stVars
     \/ /\ pc = "confirmdrop"
        /\ \E d \in Remains(st.backup) : Store([st EXCEPT !.backup = d])
  /\ cut' = cut \cup {w \in {"cleanup"} : LeftBehind(boot, st')}
  /\ IF env /\ st.trial # NoTrial
     THEN pc' = "reboot" /\ UNCHANGED ram
     ELSE pc' = "runtime" /\ ram' = NoFlags
  /\ todo' = {}
  /\ req' = NoReq
  /\ UNCHANGED <<bootVars, failed, running, env, left>>

(* Every boot file keeps one of the contents it may have, the storage      *)
(* partition one of its states, and the machine starts over.               *)
PowerLoss ==
  /\ Spend("powerLoss")
  /\ \E picks \in [Unsynced -> Content], s \in stDur :
       /\ \A f \in Unsynced : picks[f] \in bootDur[f]
       /\ boot' = [f \in BootFile |-> IF f \in Unsynced THEN picks[f] ELSE boot[f]]
       /\ st' = s
       /\ cut' = cut \cup {w \in {"restore"} : s.trial = NoTrial /\ Unsynced # {}}
                     \cup {w \in {"cleanup"} : LeftBehind(boot', s)}
  /\ bootDur' = [f \in BootFile |-> {boot'[f]}]
  /\ stDur' = {st'}
  /\ pc' = "firmware"
  /\ todo' = {}
  /\ failed' = FALSE
  /\ req' = NoReq
  /\ ram' = NoFlags
  /\ env' = FALSE
  /\ UNCHANGED running

-----------------------------------------------------------------------------
Bootloader ==
  \/ FirmwareLoads \/ NoStagedProgram \/ UnlinkOldProgram \/ PromoteStaged
  \/ UnstageProgram \/ BeginNormalBoot \/ CountAttempt \/ EnterTrial
  \/ DecideRevert \/ TrialMountFails \/ PromotionFails
  \/ Reboot \/ StartRuntime

Revert ==
  \/ WriteReport \/ \E f \in BootFile : RestoreFile(f)
  \/ RestoreFailed \/ RestoreComplete \/ RevertDropsBackup \/ RevertSyncsState

Confirmation ==
  \/ Confirm \/ ConfirmDropsBackup \/ ConfirmSyncsState \/ LeaveTrialToNextBoot

Serve ==
  \/ PrepareBackup \/ ArmTrial \/ \E f \in BootFile : InstallFile(f)
  \/ InstallCmdline \/ TruncateConfig \/ WriteConfig \/ FinishBootFile
  \/ SyncBootFiles \/ StageProgram

User ==
  \/ \E k \in Kinds, v \in Version : BeginRequest(k, v)
  \/ UserRestart \/ DismissReport

Failure == PrepareFails \/ InstallFails \/ RuntimeFails \/ PowerLoss

Next == Bootloader \/ Revert \/ Confirmation \/ Serve \/ User \/ Failure

Spec == Init /\ [][Next]_vars

(* The machine goes on with what it does, and an image that cannot stay    *)
(* healthy fails sooner or later; nothing else has to happen.              *)
Fairness ==
  /\ WF_vars(Bootloader \/ Revert \/ Confirmation \/ Serve)
  /\ WF_vars(RuntimeFails /\ ~Sound(running))

FairSpec == Spec /\ Fairness

-----------------------------------------------------------------------------
(* What the design promises.                                               *)

Pc == RuntimePc \cup
      {"firmware", "staged", "promote", "unstage", "reboot", "trial", "attempt",
       "report", "restore", "revertdrop", "revertsync", "revertnone", "exec",
       "halted", "dead"}
BootSetType == [kernel : Content, loader : Content, program : Content,
                cmdline : Content, config : Content]
Storage == [trial : NoTrial..MaxAttempts, backup : [BackupName -> Content],
            staged : Version \cup {Absent}, report : BOOLEAN,
            good : BootSetType, boots : 0..MaxAttempts]

(* The type of the state.                                                  *)
TypeOK ==
  /\ boot \in [BootFile -> Content]
  /\ bootDur \in [BootFile -> SUBSET Content]
  /\ \A f \in BootFile : boot[f] \in bootDur[f]
  /\ st \in stDur
  /\ stDur \subseteq Storage
  /\ pc \in Pc
  /\ todo \subseteq BootFile
  /\ failed \in BOOLEAN
  /\ req \in [kind : AllKinds \cup {"none"}, ver : Version]
  /\ running \in BootSetType
  /\ env \in BOOLEAN
  /\ ram \in [pending : BOOLEAN, armed : BOOLEAN, resolved : BOOLEAN]
  /\ left \in [request : Nat, ioError : Nat, powerLoss : Nat]
  /\ cut \subseteq {"restore", "cleanup"}

(* Whatever moment the power goes, a boot set that must prove itself has a *)
(* backup to go back to: PrepareUpdate puts the backup on disk before the  *)
(* trial, Confirm and Revert remove the trial before the backup.           *)
TrialHasBackup == \A s \in stDur : s.trial # NoTrial => HasBackup(s)

(* A boot set runs unconfirmed at most MaxAttempts times: every trial boot *)
(* is counted on disk before it is made, and no crash, power loss or I/O   *)
(* error loses a count.                                                    *)
AttemptsBounded == \A s \in stDur : s.boots <= s.trial \/ s.trial = NoTrial

(* Write ahead: outside a revert, while a boot file may still come out of  *)
(* a power loss old or new, the trial and the backup are on disk in every  *)
(* outcome.                                                                *)
Reverting == pc \in {"restore", "revertdrop", "revertsync", "reboot", "firmware"}
NoUntrackedBootWrite ==
  Unsynced # {} /\ ~Reverting => \A s \in stDur : s.trial # NoTrial /\ HasBackup(s)

(* A boot set that no trial watches over is one that was found healthy.    *)
(* (A power loss between a revert's clearing of the trial and its sync()   *)
(* can leave another: `cut' records it.)                                   *)
UntrackedSetIsGood ==
  cut = {} /\ st.trial = NoTrial => BootSet(boot) = st.good

(* Reverting an armed update restores the set that was last found healthy. *)
(* (A removal of the old backup that is cut short can leave another.)      *)
Overlay(b, d) == [f \in BootFile |-> IF d[f] = Absent THEN b[f] ELSE d[f]]
RevertRestoresGood ==
  cut = {} /\ st.trial # NoTrial => BootSet(Overlay(boot, st.backup)) = st.good

(* bootRecoveryPrepareUpdate: "An existing backup is kept because it is    *)
(* the last confirmed-good boot set".                                      *)
KeptBackupIsGood ==
  pc = "prepare" /\ HasBackup(st) => BootSet(Overlay(boot, st.backup)) = st.good

(* The report is on disk before a boot file changes, and stays there until *)
(* the user dismisses it.                                                  *)
ReportDurable ==
  pc \in {"restore", "revertdrop", "revertsync"} =>
    \A s \in stDur : s.report = st.report

(* A revert gives back the last good set, leaves no other set without a    *)
(* trial, and tells the user: the three hold together through failed file  *)
(* operations and resets at any step of bootRecoveryRevert.                *)
RevertIsSound == RevertRestoresGood /\ UntrackedSetIsGood /\ ReportDurable

(* Neither an update nor a revert has a moment at which a reset strands    *)
(* the machine in the firmware: config.txt is written last, so it never    *)
(* selects a kernel that is not there.                                     *)
KeepsFirmwareBooting ==
  [][/\ pc \in {"install", "restore"} /\ pc' = pc
     /\ req.kind \in {"update", "none"}
     /\ cut = {}
     /\ Loadable(boot)
     => Loadable(boot')]_vars

(* What is confirmed is what ran: the boot partition still holds the set   *)
(* the firmware loaded, and not a newer one armed during this boot.        *)
ConfirmsWhatRan == [][Confirm => BootSet(boot) = running]_vars

(* A trial boot never stays undecided: the image is confirmed or, after at *)
(* most MaxAttempts boots, the last good boot set is back in place, unless *)
(* the user arms a newer update meanwhile (or the removal of an old backup *)
(* was cut short, see KeptBackupIsGood).                                   *)
TrialResolves ==
  (pc = "runtime" /\ ram.pending /\ ~ram.armed)
    ~> \/ st.trial = NoTrial /\ BootSet(boot) = st.good
       \/ ram.armed
       \/ cut # {}

=============================================================================
