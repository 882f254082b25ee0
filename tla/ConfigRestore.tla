--------------------------- MODULE ConfigRestore ----------------------------
(***************************************************************************)
(* Restoring a configuration backup: stage and applyPending of             *)
(* src/config/backup.cpp, the HTTP handler that stages an archive and      *)
(* reboots (src/http/server.cpp), and mountRootfs (src/init/filesystem.cpp)*)
(* which applies a staged restore before anything else reads the storage   *)
(* partition.  A failure of mountRootfs halts the runtime until the        *)
(* watchdog restarts it (HANDLE_ERROR of src/init/init.cpp).               *)
(*                                                                         *)
(* `disk' is what the kernel sees of /audiox, `dur' the states it may have *)
(* after a power loss: ext4 journals directory updates in order, so those  *)
(* it went through since the last fsync of a directory.                    *)
(***************************************************************************)
EXTENDS Integers, FiniteSets

CONSTANTS
  NRoots,      \* rootCount: the managed entries, in the order of roots[]
  Required,    \* those every archive has: config.txt, bluetooth, sfx
  Sfx,         \* SFX_ROOT_DIR, which mountRootfs creates when it is missing
  Value,       \* what an entry can hold
  Empty,       \* an empty directory
  Absent,      \* an entry that does not exist
  NoSetup,     \* no archive is being served
  Budget       \* bounds on the environment: configuration changes, file
               \* operations that fail, deaths of the runtime, power losses

VARIABLES
  disk, dur,   \* the storage partition
  pc,          \* what the machine executes
  i,           \* the loop variable of applyPending
  req,         \* the archive being staged
  answer,      \* the answer to the last restore request of this boot
  left         \* what is left of Budget

vars == <<disk, dur, pc, i, req, answer, left>>

Root == 1..NRoots
Setup == [Root -> Value \cup {Absent}]
Nothing == [r \in Root |-> Absent]

ASSUME ConstantsAssumption ==
  /\ NRoots \in Nat
  /\ Required \subseteq Root
  /\ Sfx \in Required
  /\ Empty \in Value
  /\ Absent \notin Value
  /\ NoSetup \notin Setup
  /\ Budget \in [edit : Nat, ioError : Nat, death : Nat, powerLoss : Nat]

Has(s) == {r \in Root : s[r] # Absent}

(* What stage() accepts: an archive lists every required root.             *)
ValidArchive == {a \in Setup : Required \subseteq Has(a)}

Write(d) == disk' = d /\ dur' = dur \cup {d}
WriteSync(d) == disk' = d /\ dur' = {d}
SyncDisk == WriteSync(disk)

Spend(what) == left[what] > 0 /\ left' = [left EXCEPT ![what] = @ - 1]

Init ==
  /\ \E s \in Setup :
       disk = [live |-> s, pending |-> FALSE, mask |-> {}, new |-> Nothing,
               old |-> Nothing, done |-> FALSE, temp |-> FALSE]
  /\ dur = {disk}
  /\ pc = "mount"
  /\ i = 1
  /\ req = NoSetup
  /\ answer = "none"
  /\ left = Budget

-----------------------------------------------------------------------------
(* applyPending, called by mountRootfs.                                    *)

Working == <<req, answer, left>>

(* Mutant of DiscardUnpublished: the sound effects come first.             *)
CreateSfxFirst ==
  /\ pc = "mount"
  /\ Write([disk EXCEPT !.temp = FALSE,
                        !.live[Sfx] = IF @ = Absent THEN Empty ELSE @])
  /\ pc' = "clean"
  /\ UNCHANGED <<i, Working>>

(* Workspaces of a stage() that never published are removed.               *)
DiscardUnpublished ==
  /\ pc = "mount"
  /\ Write([disk EXCEPT !.temp = FALSE])
  /\ pc' = "clean"
  /\ UNCHANGED <<i, Working>>

(* The remains of an earlier restore go; without a pending one that is all.*)
RemoveDone ==
  /\ pc = "clean"
  /\ Write([disk EXCEPT !.done = FALSE])
  /\ pc' = IF disk.pending THEN "apply" ELSE "sfx"
  /\ i' = 1
  /\ UNCHANGED Working

(* Mutant of Installed: an earlier attempt is forgotten.                   *)
InstalledNever(r) == FALSE

(* A previous attempt installed entry r: it is in the plan and its new     *)
(* version has left the staging directory.                                 *)
Installed(r) == r \in disk.mask /\ disk.new[r] = Absent

NextRoot == pc' = "apply" /\ i' = i + 1 /\ UNCHANGED <<disk, dur, Working>>

(* "Interrupted restore is missing", "Conflicting interrupted restore      *)
(* target".                                                                *)
Refuse == pc' = "refused" /\ UNCHANGED <<disk, dur, i, Working>>

SkipInstalled ==
  /\ pc = "apply" /\ i \in Root
  /\ Installed(i)
  /\ IF disk.live[i] = Absent THEN Refuse ELSE NextRoot

SaveOld ==
  /\ pc = "apply" /\ i \in Root
  /\ ~Installed(i)
  /\ disk.live[i] # Absent
  /\ IF disk.old[i] # Absent THEN Refuse
     ELSE /\ Write([disk EXCEPT !.old[i] = disk.live[i], !.live[i] = Absent])
          /\ pc' = "saved"
          /\ UNCHANGED <<i, Working>>

(* syncDir(old), syncDir(root).                                            *)
SyncSaved ==
  /\ pc = "saved"
  /\ SyncDisk
  /\ pc' = "place"
  /\ UNCHANGED <<i, Working>>

Placing == /\ i \in Root
           /\ \/ pc = "place"
              \/ pc = "apply" /\ ~Installed(i) /\ disk.live[i] = Absent

(* The backup has no such entry: the old one is only put aside.            *)
NothingToInstall ==
  /\ Placing
  /\ disk.new[i] = Absent
  /\ NextRoot

InstallNew ==
  /\ Placing
  /\ disk.new[i] # Absent
  /\ Write([disk EXCEPT !.live[i] = disk.new[i], !.new[i] = Absent])
  /\ pc' = "placed"
  /\ UNCHANGED <<i, Working>>

SyncInstalled ==
  /\ pc = "placed"
  /\ SyncDisk
  /\ pc' = "apply"
  /\ i' = i + 1
  /\ UNCHANGED Working

(* rename(pending, done): the plan and the old entries are gone with it.   *)
Retire ==
  /\ pc = "apply" /\ i = NRoots + 1
  /\ Write([disk EXCEPT !.pending = FALSE, !.mask = {}, !.new = Nothing,
                        !.old = Nothing, !.done = TRUE])
  /\ pc' = "retired"
  /\ UNCHANGED <<i, Working>>

SyncRetired ==
  /\ pc = "retired"
  /\ SyncDisk
  /\ pc' = "drop"
  /\ UNCHANGED <<i, Working>>

(* A failed cleanup is only reported.                                      *)
DropDone ==
  /\ pc = "drop"
  /\ \/ Write([disk EXCEPT !.done = FALSE]) /\ UNCHANGED left
     \/ Spend("ioError") /\ UNCHANGED <<disk, dur>>
  /\ pc' = "sfx"
  /\ UNCHANGED <<i, req, answer>>

(* mountRootfs then creates the sounds directory, and the runtime starts.  *)
EnsureSfx ==
  /\ pc = "sfx"
  /\ Write([disk EXCEPT !.live[Sfx] = IF @ = Absent THEN Empty ELSE @])
  /\ pc' = "runtime"
  /\ UNCHANGED <<i, Working>>

ApplyPc == {"mount", "clean", "apply", "saved", "place", "placed", "retired"}

(* Mutant of ApplyFails: start-up goes on after an error.                  *)
ApplyContinues ==
  /\ pc \in ApplyPc
  /\ Spend("ioError")
  /\ pc' = "sfx"
  /\ UNCHANGED <<disk, dur, i, req, answer>>

(* Any call of applyPending may fail.  What follows a failed rename is as  *)
(* before it, what follows a failed sync is not known to be durable.       *)
ApplyFails ==
  /\ pc \in ApplyPc
  /\ Spend("ioError")
  /\ pc' = "halted"
  /\ UNCHANGED <<disk, dur, i, req, answer>>

(* HANDLE_ERROR halts; the watchdog kills the silent runtime and starts it *)
(* again, file system and page cache as they are.                          *)
Respawn ==
  /\ pc \in {"halted", "refused"}
  /\ pc' = "mount"
  /\ UNCHANGED <<disk, dur, i, Working>>

-----------------------------------------------------------------------------
(* The runtime.                                                            *)

UpPc == {"runtime", "staging", "publish", "published", "rebooting"}

(* The configuration files are saved while the system runs, by the HTTP    *)
(* handlers and by the other threads.                                      *)
Edit ==
  /\ pc \in UpPc
  /\ Spend("edit")
  /\ \E r \in Root, v \in Value \cup {Absent} :
       Write([disk EXCEPT !.live[r] = v])
  /\ UNCHANGED <<pc, i, req, answer>>

(* PUT /api/config/restore.                                                *)
AlreadyStaged ==
  /\ pc = "runtime"
  /\ disk.pending
  /\ answer' = "busy"
  /\ UNCHANGED <<disk, dur, pc, i, req, left>>

BeginStage ==
  /\ pc = "runtime"
  /\ ~disk.pending
  /\ \E a \in ValidArchive : req' = a
  /\ Write([disk EXCEPT !.temp = TRUE])
  /\ answer' = "none"
  /\ pc' = "staging"
  /\ UNCHANGED <<i, left>>

(* Everything extracted and the plan written: syncfs.                      *)
SyncStaged ==
  /\ pc = "staging"
  /\ SyncDisk
  /\ pc' = "publish"
  /\ UNCHANGED <<i, Working>>

(* The archive is bad, or a call fails: ~TempDir removes the workspace,    *)
(* if it can.                                                              *)
StageFails ==
  /\ pc \in {"staging", "publish"}
  /\ \/ Write([disk EXCEPT !.temp = FALSE]) /\ UNCHANGED left
     \/ Spend("ioError") /\ UNCHANGED <<disk, dur>>
  /\ answer' = "rejected"
  /\ req' = NoSetup
  /\ pc' = "runtime"
  /\ UNCHANGED i

Publish ==
  /\ pc = "publish"
  /\ Write([disk EXCEPT !.temp = FALSE, !.pending = TRUE, !.mask = Has(req),
                        !.new = req, !.old = Nothing])
  /\ pc' = "published"
  /\ UNCHANGED <<i, Working>>

(* Mutant of SyncPublished: the answer does not wait for the disk.         *)
AnswerUnsynced ==
  /\ pc = "published"
  /\ answer' = "accepted"
  /\ req' = NoSetup
  /\ pc' = "rebooting"
  /\ UNCHANGED <<disk, dur, i, left>>

SyncPublished ==
  /\ pc = "published"
  /\ SyncDisk
  /\ answer' = "accepted"
  /\ req' = NoSetup
  /\ pc' = "rebooting"
  /\ UNCHANGED <<i, left>>

(* syncDir fails after the rename: the answer is 400, the restore stays.   *)
SyncPublishedFails ==
  /\ pc = "published"
  /\ Spend("ioError")
  /\ answer' = "rejected"
  /\ req' = NoSetup
  /\ pc' = "runtime"
  /\ UNCHANGED <<disk, dur, i>>

(* sync(), reboot(); when that fails the runtime goes on.                  *)
Reboot ==
  /\ pc = "rebooting"
  /\ SyncDisk
  /\ \/ pc' = "mount" /\ answer' = "none" /\ UNCHANGED left
     \/ Spend("ioError") /\ pc' = "runtime" /\ UNCHANGED answer
  /\ UNCHANGED <<i, req>>

-----------------------------------------------------------------------------
(* Failures.                                                               *)

RuntimeDies ==
  /\ Spend("death")
  /\ pc' = "mount"
  /\ req' = NoSetup
  /\ answer' = "none"
  /\ UNCHANGED <<disk, dur, i>>

PowerLoss ==
  /\ Spend("powerLoss")
  /\ \E d \in dur : WriteSync(d)
  /\ pc' = "mount"
  /\ req' = NoSetup
  /\ answer' = "none"
  /\ UNCHANGED i

Mount == \/ DiscardUnpublished \/ RemoveDone
         \/ SkipInstalled \/ SaveOld \/ SyncSaved
         \/ NothingToInstall \/ InstallNew \/ SyncInstalled
         \/ Retire \/ SyncRetired \/ DropDone \/ EnsureSfx
         \/ Respawn

Stage == \/ AlreadyStaged \/ BeginStage \/ SyncStaged \/ StageFails
         \/ Publish \/ SyncPublished \/ SyncPublishedFails \/ Reboot

Next == Mount \/ Stage \/ Edit \/ ApplyFails \/ RuntimeDies \/ PowerLoss

Spec == Init /\ [][Next]_vars

(* A booting machine keeps booting, a halted runtime is restarted.         *)
FairSpec == Spec /\ WF_vars(Mount)

-----------------------------------------------------------------------------
Pc == ApplyPc \cup UpPc \cup {"drop", "sfx", "halted", "refused"}

Disk == [live : Setup, pending : BOOLEAN, mask : SUBSET Root, new : Setup,
         old : Setup, done : BOOLEAN, temp : BOOLEAN]

(* A staged restore has a plan that applyPending accepts, and there is one *)
(* only while it is pending.                                               *)
DiskOK(d) ==
  IF d.pending THEN Required \subseteq d.mask /\ Has(d.new) \subseteq d.mask
               ELSE d.mask = {} /\ d.new = Nothing /\ d.old = Nothing

(* The types of the variables; every disk a power loss can leave has a     *)
(* plan applyPending accepts (stage validates the archive before           *)
(* publishing it, applyPending answers "Invalid staged restore plan").     *)
TypeOK ==
  /\ disk \in dur
  /\ dur \subseteq Disk
  /\ \A d \in dur : DiskOK(d)
  /\ pc \in Pc
  /\ i \in 1..(NRoots + 1)
  /\ req \in ValidArchive \cup {NoSetup}
  /\ req # NoSetup <=> pc \in {"staging", "publish", "published"}
  /\ answer \in {"none", "busy", "accepted", "rejected"}
  /\ left \in [edit : Nat, ioError : Nat, death : Nat, powerLoss : Nat]

(* Whatever was interrupted, applyPending never refuses to continue a      *)
(* restore: it meets neither an entry it saved twice nor an installed one  *)
(* that is missing (the two error returns of the loop).                    *)
NeverRefuses == pc # "refused"

(* Once stage has returned success the restore survives a power loss.      *)
AcceptedIsDurable ==
  answer = "accepted" => \A d \in dur : d.pending

(* docs/guide/config.md: "Incomplete or rejected archives should leave the *)
(* current setup unchanged."  An archive the device rejected is not        *)
(* installed by the next boot.                                             *)
RejectedIsNotStaged == answer = "rejected" => ~disk.pending

(* Refinement.  While a restore is pending, the setup in force is the one  *)
(* its old/ directory and the untouched entries make up, and the staged    *)
(* one what is in new/ or already installed.                               *)
Before(d) == [r \in Root |->
                IF d.old[r] # Absent THEN d.old[r]
                ELSE IF r \in d.mask /\ d.new[r] = Absent THEN Absent
                ELSE d.live[r]]
After(d) == [r \in Root |->
               IF r \notin d.mask THEN Absent
               ELSE IF d.new[r] # Absent THEN d.new[r]
               ELSE d.live[r]]
SetupOf(d) == Before(d)
StagedOf(d) == IF d.pending THEN After(d) ELSE NoSetup

Atomic == INSTANCE AtomicRestore WITH
            setup   <- SetupOf(disk),
            staged  <- StagedOf(disk),
            durable <- {<<SetupOf(d), StagedOf(d)>> : d \in dur},
            up      <- pc \in UpPc

(* The restore is atomic: through deaths, failed calls and power losses at *)
(* any of its renames, the setup in force stays the old one until it is    *)
(* wholly the restored one, both stay on the disk until then, and the      *)
(* runtime never starts in between.                                        *)
RestoreIsAtomic == Atomic!Spec

(* A restore a boot has found is finished, and the runtime started, once   *)
(* failures cease, however many attempts were cut short.                   *)
RestoreCompletes ==
  (disk.pending /\ pc \notin UpPc) ~> (~disk.pending /\ pc = "runtime")

=============================================================================
