------------------------ MODULE BootRecovery_proofs -------------------------
(***************************************************************************)
(* Proofs about BootRecovery for every set of images, every number of      *)
(* attempts and every budget of requests, I/O errors and power losses.     *)
(*                                                                         *)
(* Three invariants build on each other: IInv, the types and what a trial  *)
(* needs; TrackInv, when boot files are written, staged, restored and      *)
(* confirmed; SetInv, what the backup, the boot partition and every boot   *)
(* partition a power loss may leave hold of the last good boot set.        *)
(***************************************************************************)
EXTENDS BootRecovery, TLAPS

(* What holds of every state the storage partition may come back in.       *)
StateOK(s) == /\ s \in Storage
              /\ s.trial # NoTrial => HasBackup(s)
              /\ s.boots <= s.trial \/ s.trial = NoTrial

StoreInv == st \in stDur /\ \A s \in stDur : StateOK(s)

BootInv == /\ boot \in [BootFile -> Content]
           /\ bootDur \in [BootFile -> SUBSET Content]
           /\ \A f \in BootFile : boot[f] \in bootDur[f]

RestInv == /\ pc \in Pc
           /\ todo \subseteq BootFile
           /\ failed \in BOOLEAN
           /\ req \in [kind : AllKinds \cup {"none"}, ver : Version]
           /\ running \in BootSetType
           /\ env \in BOOLEAN
           /\ ram \in [pending : BOOLEAN, armed : BOOLEAN, resolved : BOOLEAN]
           /\ left \in [request : Nat, ioError : Nat, powerLoss : Nat]
           /\ cut \subseteq {"restore", "cleanup"}

(* Where the order of two writes matters, the program counter remembers    *)
(* that the first one has been made.                                       *)
OrderInv == /\ pc = "arm" => HasBackup(st)
            /\ pc \in {"confirmdrop", "revertdrop"} => st.trial = NoTrial
            /\ pc = "attempt" => st.trial # NoTrial /\ st.boots < st.trial

IInv == BootInv /\ StoreInv /\ RestInv /\ OrderInv

-----------------------------------------------------------------------------
(* The kernel config.txt selects is one of the kernel files.               *)
LEMMA KernelOfType == \A b : KernelOf(b) \in KernelFile
  BY ConstantsAssumption DEF KernelOf, KernelFile

(* The firmware reads the contents of boot files.                          *)
LEMMA BootSetTyped == \A b \in [BootFile -> Content] : BootSet(b) \in BootSetType
  BY KernelOfType DEF BootSet, BootSetType, BootFile

(* A fresh backup is complete.                                             *)
LEMMA SnapshotComplete ==
  ASSUME NEW b \in [BootFile -> Content]
  PROVE  /\ Snapshot(b) \in [BackupName -> Content]
         /\ Snapshot(b)[VersionFile] # Absent
  <1>1. VersionFile \in BackupName /\ Factory # Absent /\ Factory \in Content
    BY ConstantsAssumption DEF BackupName, Content
  <1>2. KernelOf(b) \in BootFile
    BY KernelOfType DEF BootFile
  <1>3. \A f \in BackupName : Snapshot(b)[f] \in Content
    BY <1>1, <1>2 DEF Snapshot, BackupName, BootFile, Content
  <1>4. Snapshot(b)[VersionFile] = Factory
    <2>1. VersionFile \notin {"loader", "program", "cmdline", "config", KernelOf(b)}
      BY KernelOfType, ConstantsAssumption DEF VersionFile
    <2> QED BY <1>1, <2>1 DEF Snapshot
  <1>5. Snapshot(b) = [f \in BackupName |-> Snapshot(b)[f]]
    BY DEF Snapshot
  <1> QED BY <1>1, <1>3, <1>4, <1>5

(* Removing files from a backup leaves a backup directory.                 *)
LEMMA RemainsTyped ==
  ASSUME NEW d \in [BackupName -> Content], NEW e \in Remains(d)
  PROVE  e \in [BackupName -> Content]
  BY DEF Remains, Content

(* All of a backup may be removed.                                         *)
LEMMA RemovesAll ==
  ASSUME NEW d \in [BackupName -> Content]
  PROVE  NoBackup \in Remains(d)
  <1> DEFINE gone == {f \in BackupName : d[f] # Absent}
  <1>1. NoBackup = [f \in BackupName |-> IF f \in gone THEN Absent ELSE d[f]]
    BY DEF NoBackup
  <1> QED BY <1>1 DEF Remains

(* Updating a field keeps the type of the storage partition.               *)
LEMMA SetTrial ==
  ASSUME NEW s \in Storage, NEW x \in NoTrial..MaxAttempts
  PROVE  [s EXCEPT !.trial = x] \in Storage
  BY DEF Storage

(* Resetting the boot count keeps the type.                                *)
LEMMA SetBoots == \A s \in Storage : [s EXCEPT !.boots = 0] \in Storage
  BY ConstantsAssumption DEF Storage

(* Recording another good boot set keeps the type.                         *)
LEMMA SetGood ==
  ASSUME NEW s \in Storage, NEW x \in BootSetType
  PROVE  [s EXCEPT !.good = x] \in Storage
  BY DEF Storage

(* A report on the storage partition concerns nothing else there.          *)
LEMMA SetReport ==
  ASSUME NEW s, StateOK(s), NEW x \in BOOLEAN
  PROVE  StateOK([s EXCEPT !.report = x])
  <1>1. s \in Storage
    BY DEF StateOK
  <1>2. [s EXCEPT !.report = x] \in Storage
    BY <1>1 DEF Storage
  <1>3. /\ [s EXCEPT !.report = x].trial = s.trial
        /\ [s EXCEPT !.report = x].backup = s.backup
        /\ [s EXCEPT !.report = x].boots = s.boots
    BY <1>1 DEF Storage
  <1> QED BY <1>2, <1>3 DEF StateOK, HasBackup

(* The three ways the storage partition changes keep its invariant.        *)
LEMMA StoreKeeps ==
  ASSUME StoreInv, NEW s, StateOK(s), Store(s) \/ StoreSync(s)
  PROVE  StoreInv'
  BY DEF StoreInv, Store, StoreSync, StateOK, HasBackup

(* A write to the boot partition, synced or not, keeps its invariant.      *)
LEMMA BootWriteKeeps ==
  ASSUME BootInv, NEW f \in BootFile, NEW c \in Content,
         BootWrite(f, c) \/ BootWriteSync(f, c)
  PROVE  BootInv'
  BY DEF BootInv, BootWrite, BootWriteSync

(* A sync keeps the invariant of what it writes out.                       *)
LEMMA SyncKeeps ==
  ASSUME BootInv, StoreInv, SyncAll
  PROVE  BootInv' /\ StoreInv'
  BY DEF BootInv, StoreInv, SyncAll, StateOK, HasBackup

(* What leaves the boot partition alone keeps its invariant.               *)
LEMMA BootUnchanged == BootInv /\ UNCHANGED bootVars => BootInv'
  BY DEF BootInv, bootVars

(* What leaves the storage partition alone keeps its invariant.            *)
LEMMA StoreUnchanged == StoreInv /\ UNCHANGED stVars => StoreInv'
  BY DEF StoreInv, stVars, StateOK, HasBackup

(* Every action preserves the invariant: what it does to the boot          *)
(* partition, to the storage partition, to the rest and to the order.      *)
LEMMA FirmwareLoadsKeeps ==
  ASSUME IInv, FirmwareLoads
  PROVE  IInv'
  <1> USE DEF IInv
  <1>1. BootInv'
    BY BootUnchanged DEF FirmwareLoads, EndRequest
  <1>2. StoreInv'
    BY StoreUnchanged DEF FirmwareLoads, EndRequest
  <1>3. RestInv'
    BY BootSetTyped, ConstantsAssumption DEF FirmwareLoads, RestInv, Pc, RuntimePc, envVars,
       reqVars, EndRequest, Spend, NoReq, NoFlags, BootInv
  <1>4. OrderInv'
    BY DEF FirmwareLoads, OrderInv, stVars, EndRequest, Store, StoreSync, SyncAll, HasBackup,
       StoreInv, StateOK, Storage
  <1> QED BY <1>1, <1>2, <1>3, <1>4

(* NoStagedProgram preserves the invariant.                                *)
LEMMA NoStagedProgramKeeps ==
  ASSUME IInv, NoStagedProgram
  PROVE  IInv'
  <1> USE DEF IInv
  <1>1. BootInv'
    BY BootUnchanged DEF NoStagedProgram, EndRequest
  <1>2. StoreInv'
    BY StoreUnchanged DEF NoStagedProgram, EndRequest
  <1>3. RestInv'
    BY ConstantsAssumption DEF NoStagedProgram, RestInv, Pc, RuntimePc, envVars, reqVars,
       EndRequest, Spend, NoReq, NoFlags
  <1>4. OrderInv'
    BY DEF NoStagedProgram, OrderInv, stVars, EndRequest, Store, StoreSync, SyncAll, HasBackup,
       StoreInv, StateOK, Storage
  <1> QED BY <1>1, <1>2, <1>3, <1>4

(* UnlinkOldProgram preserves the invariant.                               *)
LEMMA UnlinkOldProgramKeeps ==
  ASSUME IInv, UnlinkOldProgram
  PROVE  IInv'
  <1> USE DEF IInv
  <1>1. BootInv'
    <2>1. "program" \in BootFile /\ Absent \in Content
      BY DEF UnlinkOldProgram, BootFile, Content, StoreInv, StateOK, Storage, RestInv
    <2> QED BY <2>1, BootWriteKeeps DEF UnlinkOldProgram
  <1>2. StoreInv'
    BY StoreUnchanged DEF UnlinkOldProgram, EndRequest
  <1>3. RestInv'
    BY ConstantsAssumption DEF UnlinkOldProgram, RestInv, Pc, RuntimePc, envVars, reqVars,
       EndRequest, Spend, NoReq, NoFlags
  <1>4. OrderInv'
    BY DEF UnlinkOldProgram, OrderInv, stVars, EndRequest, Store, StoreSync, SyncAll, HasBackup,
       StoreInv, StateOK, Storage
  <1> QED BY <1>1, <1>2, <1>3, <1>4

(* PromoteStaged preserves the invariant.                                  *)
LEMMA PromoteStagedKeeps ==
  ASSUME IInv, PromoteStaged
  PROVE  IInv'
  <1> USE DEF IInv
  <1>1. BootInv'
    <2>1. "program" \in BootFile /\ st.staged \in Content
      BY DEF PromoteStaged, BootFile, Content, StoreInv, StateOK, Storage, RestInv
    <2> QED BY <2>1, BootWriteKeeps DEF PromoteStaged
  <1>2. StoreInv'
    BY StoreUnchanged DEF PromoteStaged, EndRequest
  <1>3. RestInv'
    BY ConstantsAssumption DEF PromoteStaged, RestInv, Pc, RuntimePc, envVars, reqVars,
       EndRequest, Spend, NoReq, NoFlags
  <1>4. OrderInv'
    BY DEF PromoteStaged, OrderInv, stVars, EndRequest, Store, StoreSync, SyncAll, HasBackup,
       StoreInv, StateOK, Storage
  <1> QED BY <1>1, <1>2, <1>3, <1>4

(* UnstageProgram preserves the invariant.                                 *)
LEMMA UnstageProgramKeeps ==
  ASSUME IInv, UnstageProgram
  PROVE  IInv'
  <1> USE DEF IInv
  <1>1. BootInv'
    BY BootUnchanged DEF UnstageProgram, EndRequest
  <1>2. StoreInv'
    <2>1. StateOK([st EXCEPT !.staged = Absent])
      BY ConstantsAssumption DEF UnstageProgram, StoreInv, StateOK, Storage, OrderInv, HasBackup,
         NoTrial, AttemptsExhausted, RestInv, BootInv
    <2> QED BY <2>1, StoreKeeps, StoreUnchanged DEF UnstageProgram, StoreInv
  <1>3. RestInv'
    BY ConstantsAssumption DEF UnstageProgram, RestInv, Pc, RuntimePc, envVars, reqVars,
       EndRequest, Spend, NoReq, NoFlags
  <1>4. OrderInv'
    BY DEF UnstageProgram, OrderInv, stVars, EndRequest, Store, StoreSync, SyncAll, HasBackup,
       StoreInv, StateOK, Storage
  <1> QED BY <1>1, <1>2, <1>3, <1>4

(* PromotionFails preserves the invariant.                                 *)
LEMMA PromotionFailsKeeps ==
  ASSUME IInv, PromotionFails
  PROVE  IInv'
  <1> USE DEF IInv
  <1>1. BootInv'
    BY BootUnchanged DEF PromotionFails, EndRequest
  <1>2. StoreInv'
    BY StoreUnchanged DEF PromotionFails, EndRequest
  <1>3. RestInv'
    BY ConstantsAssumption DEF PromotionFails, RestInv, Pc, RuntimePc, envVars, reqVars,
       EndRequest, Spend, NoReq, NoFlags
  <1>4. OrderInv'
    BY DEF PromotionFails, OrderInv, stVars, EndRequest, Store, StoreSync, SyncAll, HasBackup,
       StoreInv, StateOK, Storage
  <1> QED BY <1>1, <1>2, <1>3, <1>4

(* Reboot preserves the invariant.                                         *)
LEMMA RebootKeeps ==
  ASSUME IInv, Reboot
  PROVE  IInv'
  <1> USE DEF IInv
  <1>1. BootInv' /\ StoreInv'
    BY SyncKeeps DEF Reboot
  <1>2. StoreInv'
    BY <1>1
  <1>3. RestInv'
    BY ConstantsAssumption DEF Reboot, RestInv, Pc, RuntimePc, envVars, reqVars, EndRequest,
       Spend, NoReq, NoFlags
  <1>4. OrderInv'
    BY DEF Reboot, OrderInv, stVars, EndRequest, Store, StoreSync, SyncAll, HasBackup, StoreInv,
       StateOK, Storage
  <1> QED BY <1>1, <1>2, <1>3, <1>4

(* BeginNormalBoot preserves the invariant.                                *)
LEMMA BeginNormalBootKeeps ==
  ASSUME IInv, BeginNormalBoot
  PROVE  IInv'
  <1> USE DEF IInv
  <1>1. BootInv'
    BY BootUnchanged DEF BeginNormalBoot, EndRequest
  <1>2. StoreInv'
    BY StoreUnchanged DEF BeginNormalBoot, EndRequest
  <1>3. RestInv'
    BY ConstantsAssumption DEF BeginNormalBoot, RestInv, Pc, RuntimePc, envVars, reqVars,
       EndRequest, Spend, NoReq, NoFlags
  <1>4. OrderInv'
    BY DEF BeginNormalBoot, OrderInv, stVars, EndRequest, Store, StoreSync, SyncAll, HasBackup,
       StoreInv, StateOK, Storage
  <1> QED BY <1>1, <1>2, <1>3, <1>4

(* CountAttempt preserves the invariant.                                   *)
LEMMA CountAttemptKeeps ==
  ASSUME IInv, CountAttempt
  PROVE  IInv'
  <1> USE DEF IInv
  <1>1. BootInv'
    BY BootUnchanged DEF CountAttempt, EndRequest
  <1>2. StoreInv'
    <2>1. StateOK([st EXCEPT !.trial = @ + 1])
      BY ConstantsAssumption DEF CountAttempt, StoreInv, StateOK, Storage, OrderInv, HasBackup,
         NoTrial, AttemptsExhausted, RestInv, BootInv
    <2> QED BY <2>1, StoreKeeps, StoreUnchanged DEF CountAttempt, StoreInv
  <1>3. RestInv'
    BY ConstantsAssumption DEF CountAttempt, RestInv, Pc, RuntimePc, envVars, reqVars, EndRequest,
       Spend, NoReq, NoFlags
  <1>4. OrderInv'
    BY DEF CountAttempt, OrderInv, stVars, EndRequest, Store, StoreSync, SyncAll, HasBackup,
       StoreInv, StateOK, Storage
  <1> QED BY <1>1, <1>2, <1>3, <1>4

(* EnterTrial preserves the invariant.                                     *)
LEMMA EnterTrialKeeps ==
  ASSUME IInv, EnterTrial
  PROVE  IInv'
  <1> USE DEF IInv
  <1>1. BootInv'
    BY DEF EnterTrial, BootInv
  <1>2. StoreInv'
    <2>1. StateOK([st EXCEPT !.boots = @ + 1])
      BY ConstantsAssumption DEF EnterTrial, StoreInv, StateOK, Storage, OrderInv, HasBackup,
         NoTrial, AttemptsExhausted, RestInv, BootInv
    <2> QED BY <2>1, StoreKeeps, StoreUnchanged DEF EnterTrial, StoreInv
  <1>3. RestInv'
    BY ConstantsAssumption DEF EnterTrial, RestInv, Pc, RuntimePc, envVars, reqVars, EndRequest,
       Spend, NoReq, NoFlags
  <1>4. OrderInv'
    BY DEF EnterTrial, OrderInv, stVars, EndRequest, Store, StoreSync, SyncAll, HasBackup,
       StoreInv, StateOK, Storage
  <1> QED BY <1>1, <1>2, <1>3, <1>4

(* DecideRevert preserves the invariant.                                   *)
LEMMA DecideRevertKeeps ==
  ASSUME IInv, DecideRevert
  PROVE  IInv'
  <1> USE DEF IInv
  <1>1. BootInv'
    BY BootUnchanged DEF DecideRevert, EndRequest
  <1>2. StoreInv'
    BY StoreUnchanged DEF DecideRevert, EndRequest
  <1>3. RestInv'
    BY ConstantsAssumption DEF DecideRevert, RestInv, Pc, RuntimePc, envVars, reqVars, EndRequest,
       Spend, NoReq, NoFlags
  <1>4. OrderInv'
    BY DEF DecideRevert, OrderInv, stVars, EndRequest, Store, StoreSync, SyncAll, HasBackup,
       StoreInv, StateOK, Storage
  <1> QED BY <1>1, <1>2, <1>3, <1>4

(* TrialMountFails preserves the invariant.                                *)
LEMMA TrialMountFailsKeeps ==
  ASSUME IInv, TrialMountFails
  PROVE  IInv'
  <1> USE DEF IInv
  <1>1. BootInv'
    BY BootUnchanged DEF TrialMountFails, EndRequest
  <1>2. StoreInv'
    BY StoreUnchanged DEF TrialMountFails, EndRequest
  <1>3. RestInv'
    BY ConstantsAssumption DEF TrialMountFails, RestInv, Pc, RuntimePc, envVars, reqVars,
       EndRequest, Spend, NoReq, NoFlags
  <1>4. OrderInv'
    BY DEF TrialMountFails, OrderInv, stVars, EndRequest, Store, StoreSync, SyncAll, HasBackup,
       StoreInv, StateOK, Storage
  <1> QED BY <1>1, <1>2, <1>3, <1>4

(* StartRuntime preserves the invariant.                                   *)
LEMMA StartRuntimeKeeps ==
  ASSUME IInv, StartRuntime
  PROVE  IInv'
  <1> USE DEF IInv
  <1>1. BootInv'
    BY BootUnchanged DEF StartRuntime, EndRequest
  <1>2. StoreInv'
    BY StoreUnchanged DEF StartRuntime, EndRequest
  <1>3. RestInv'
    <2>1. ram' \in [pending : BOOLEAN, armed : BOOLEAN, resolved : BOOLEAN]
      BY DEF StartRuntime, RestInv, NoFlags
    <2>2. pc' \in Pc
      BY DEF StartRuntime, Pc, RuntimePc
    <2> QED BY <2>1, <2>2 DEF StartRuntime, RestInv, envVars, reqVars
  <1>4. OrderInv'
    BY DEF StartRuntime, OrderInv, stVars, EndRequest, Store, StoreSync, SyncAll, HasBackup,
       StoreInv, StateOK, Storage
  <1> QED BY <1>1, <1>2, <1>3, <1>4

(* WriteReport preserves the invariant.                                    *)
LEMMA WriteReportKeeps ==
  ASSUME IInv, WriteReport
  PROVE  IInv'
  <1> USE DEF IInv
  <1>1. BootInv'
    BY BootUnchanged DEF WriteReport, EndRequest
  <1>2. StoreInv'
    <2>1. StateOK([st EXCEPT !.report = TRUE])
      BY SetReport DEF StoreInv
    <2> QED BY <2>1, StoreKeeps, StoreUnchanged DEF WriteReport, StoreInv
  <1>3. RestInv'
    <2>1. pc' \in Pc /\ running' \in BootSetType /\ env' \in BOOLEAN
      BY DEF WriteReport, RestInv, Pc, RuntimePc
    <2>2. todo' \subseteq BootFile
      BY DEF WriteReport, BackupFiles
    <2>3. failed' \in BOOLEAN
      BY DEF WriteReport
    <2>4. /\ req' \in [kind : AllKinds \cup {"none"}, ver : Version]
          /\ ram' \in [pending : BOOLEAN, armed : BOOLEAN, resolved : BOOLEAN]
          /\ cut' = cut
      BY DEF WriteReport, RestInv
    <2>5. left' \in [request : Nat, ioError : Nat, powerLoss : Nat]
      BY DEF WriteReport, RestInv, Spend
    <2> QED BY <2>1, <2>2, <2>3, <2>4, <2>5 DEF RestInv
  <1>4. OrderInv'
    BY DEF WriteReport, OrderInv, stVars, EndRequest, Store, StoreSync, SyncAll, HasBackup,
       StoreInv, StateOK, Storage
  <1> QED BY <1>1, <1>2, <1>3, <1>4

(* RestoreFile preserves the invariant.                                    *)
LEMMA RestoreFileKeeps ==
  ASSUME IInv, NEW f \in BootFile, RestoreFile(f)
  PROVE  IInv'
  <1> USE DEF IInv
  <1>1. BootInv'
    <2>1. st.backup[f] \in Content
      BY DEF StoreInv, StateOK, Storage, BackupName
    <2> QED BY <2>1, BootWriteKeeps, BootUnchanged DEF RestoreFile
  <1>2. StoreInv'
    BY StoreUnchanged DEF RestoreFile, EndRequest
  <1>3. RestInv'
    <2>1. pc' \in Pc /\ running' \in BootSetType /\ env' \in BOOLEAN
      BY DEF RestoreFile, RestInv, Pc, RuntimePc
    <2>2. todo' \subseteq BootFile
      BY DEF RestoreFile, RestInv
    <2>3. failed' \in BOOLEAN
      BY DEF RestoreFile, RestInv
    <2>4. /\ req' \in [kind : AllKinds \cup {"none"}, ver : Version]
          /\ ram' \in [pending : BOOLEAN, armed : BOOLEAN, resolved : BOOLEAN]
          /\ cut' = cut
      BY DEF RestoreFile, RestInv
    <2>5. left' \in [request : Nat, ioError : Nat, powerLoss : Nat]
      BY DEF RestoreFile, RestInv, Spend
    <2> QED BY <2>1, <2>2, <2>3, <2>4, <2>5 DEF RestInv
  <1>4. OrderInv'
    BY DEF RestoreFile, OrderInv, stVars, EndRequest, Store, StoreSync, SyncAll, HasBackup,
       StoreInv, StateOK, Storage
  <1> QED BY <1>1, <1>2, <1>3, <1>4

(* RestoreFailed preserves the invariant.                                  *)
LEMMA RestoreFailedKeeps ==
  ASSUME IInv, RestoreFailed
  PROVE  IInv'
  <1> USE DEF IInv
  <1>1. BootInv' /\ StoreInv'
    BY SyncKeeps DEF RestoreFailed
  <1>2. StoreInv'
    BY <1>1
  <1>3. RestInv'
    BY ConstantsAssumption DEF RestoreFailed, RestInv, Pc, RuntimePc, envVars, reqVars,
       EndRequest, Spend, NoReq, NoFlags
  <1>4. OrderInv'
    BY DEF RestoreFailed, OrderInv, stVars, EndRequest, Store, StoreSync, SyncAll, HasBackup,
       StoreInv, StateOK, Storage
  <1> QED BY <1>1, <1>2, <1>3, <1>4

(* RestoreComplete preserves the invariant.                                *)
LEMMA RestoreCompleteKeeps ==
  ASSUME IInv, RestoreComplete
  PROVE  IInv'
  <1> USE DEF IInv
  <1>1. BootInv'
    BY BootUnchanged DEF RestoreComplete, EndRequest
  <1>2. StoreInv'
    <2> DEFINE s == [st EXCEPT !.trial = NoTrial, !.boots = 0]
    <2>1. st \in Storage /\ running \in BootSetType /\ NoTrial \in NoTrial..MaxAttempts
      BY ConstantsAssumption DEF StoreInv, StateOK, RestInv, NoTrial
    <2>2. [st EXCEPT !.trial = NoTrial] \in Storage
      BY <2>1, SetTrial
    <2>3. [[st EXCEPT !.trial = NoTrial] EXCEPT !.boots = 0] \in Storage
      BY <2>2, SetBoots
    <2>4. s = [[st EXCEPT !.trial = NoTrial] EXCEPT !.boots = 0]
      BY <2>1 DEF Storage
    <2>5. s \in Storage
      BY <2>3, <2>4
    <2>6. s.trial = NoTrial /\ s.backup = st.backup /\ s.boots = 0
      BY <2>1 DEF Storage
    <2>7. StateOK(s)
      BY <2>1, <2>4, <2>5, <2>6 DEF RestoreComplete, StateOK, OrderInv, HasBackup, NoTrial
    <2> QED BY <2>7, StoreKeeps DEF RestoreComplete
  <1>3. RestInv'
    BY ConstantsAssumption DEF RestoreComplete, RestInv, Pc, RuntimePc, envVars, reqVars,
       EndRequest, Spend, NoReq, NoFlags
  <1>4. OrderInv'
    BY DEF RestoreComplete, OrderInv, stVars, EndRequest, Store, StoreSync, SyncAll, HasBackup,
       StoreInv, StateOK, Storage
  <1> QED BY <1>1, <1>2, <1>3, <1>4

(* RevertDropsBackup preserves the invariant.                              *)
LEMMA RevertDropsBackupKeeps ==
  ASSUME IInv, RevertDropsBackup
  PROVE  IInv'
  <1> USE DEF IInv
  <1>1. BootInv'
    BY BootUnchanged DEF RevertDropsBackup, EndRequest
  <1>2. StoreInv'
    <2>1. StateOK([st EXCEPT !.backup = NoBackup])
      BY DEF RevertDropsBackup, StoreInv, StateOK, Storage, OrderInv, NoBackup, Content
    <2>2. ASSUME NEW d \in Remains(st.backup)
          PROVE  StateOK([st EXCEPT !.backup = d])
      <3>1. d \in [BackupName -> Content]
        BY RemainsTyped DEF StoreInv, StateOK, Storage
      <3> QED BY <3>1 DEF RevertDropsBackup, StoreInv, StateOK, Storage, OrderInv
    <2>3. NoBackup \in Remains(st.backup)
      BY RemovesAll DEF StoreInv, StateOK, Storage
    <2> QED BY <2>1, <2>2, <2>3 DEF RevertDropsBackup, StoreInv
  <1>3. RestInv'
    BY ConstantsAssumption DEF RevertDropsBackup, RestInv, Pc, RuntimePc, envVars, reqVars,
       EndRequest, Spend, NoReq, NoFlags
  <1>4. OrderInv'
    BY DEF RevertDropsBackup, OrderInv, stVars, EndRequest, Store, StoreSync, SyncAll, HasBackup,
       StoreInv, StateOK, Storage
  <1> QED BY <1>1, <1>2, <1>3, <1>4

(* RevertSyncsState preserves the invariant.                               *)
LEMMA RevertSyncsStateKeeps ==
  ASSUME IInv, RevertSyncsState
  PROVE  IInv'
  <1> USE DEF IInv
  <1>1. BootInv'
    BY BootUnchanged DEF RevertSyncsState, EndRequest
  <1>2. StoreInv'
    <2>1. StateOK(st)
      BY ConstantsAssumption DEF RevertSyncsState, StoreInv, StateOK, Storage, OrderInv,
         HasBackup, NoTrial, AttemptsExhausted, RestInv, BootInv
    <2> QED BY <2>1, StoreKeeps, StoreUnchanged DEF RevertSyncsState, StoreInv
  <1>3. RestInv'
    BY ConstantsAssumption DEF RevertSyncsState, RestInv, Pc, RuntimePc, envVars, reqVars,
       EndRequest, Spend, NoReq, NoFlags
  <1>4. OrderInv'
    BY DEF RevertSyncsState, OrderInv, stVars, EndRequest, Store, StoreSync, SyncAll, HasBackup,
       StoreInv, StateOK, Storage
  <1> QED BY <1>1, <1>2, <1>3, <1>4

(* Confirm preserves the invariant.                                        *)
LEMMA ConfirmKeeps ==
  ASSUME IInv, Confirm
  PROVE  IInv'
  <1> USE DEF IInv
  <1>1. BootInv'
    BY BootUnchanged DEF Confirm, EndRequest
  <1>2. StoreInv'
    <2> DEFINE s == [st EXCEPT !.trial = NoTrial, !.boots = 0, !.good = running]
    <2>1. st \in Storage /\ running \in BootSetType /\ NoTrial \in NoTrial..MaxAttempts
      BY ConstantsAssumption DEF StoreInv, StateOK, RestInv, NoTrial
    <2>2. [st EXCEPT !.trial = NoTrial] \in Storage
      BY <2>1, SetTrial
    <2>3. [[st EXCEPT !.trial = NoTrial] EXCEPT !.boots = 0] \in Storage
      BY <2>2, SetBoots
    <2>4. [[[st EXCEPT !.trial = NoTrial] EXCEPT !.boots = 0] EXCEPT !.good = running] \in Storage
      BY <2>1, <2>3, SetGood
    <2>5. s = [[[st EXCEPT !.trial = NoTrial] EXCEPT !.boots = 0] EXCEPT !.good = running]
      BY <2>1 DEF Storage
    <2>6. s.trial = NoTrial /\ s.backup = st.backup /\ s.boots = 0
      BY <2>1 DEF Storage
    <2>7. StateOK(s)
      BY <2>1, <2>4, <2>5, <2>6 DEF Confirm, StateOK, OrderInv, HasBackup, NoTrial
    <2> QED BY <2>7, StoreKeeps DEF Confirm
  <1>3. RestInv'
    BY ConstantsAssumption DEF Confirm, RestInv, Pc, RuntimePc, envVars, reqVars, EndRequest,
       Spend, NoReq, NoFlags
  <1>4. OrderInv'
    BY DEF Confirm, OrderInv, stVars, EndRequest, Store, StoreSync, SyncAll, HasBackup, StoreInv,
       StateOK, Storage
  <1> QED BY <1>1, <1>2, <1>3, <1>4

(* ConfirmDropsBackup preserves the invariant.                             *)
LEMMA ConfirmDropsBackupKeeps ==
  ASSUME IInv, ConfirmDropsBackup
  PROVE  IInv'
  <1> USE DEF IInv
  <1>1. BootInv'
    BY BootUnchanged DEF ConfirmDropsBackup, EndRequest
  <1>2. StoreInv'
    <2>1. StateOK([st EXCEPT !.backup = NoBackup])
      BY DEF ConfirmDropsBackup, StoreInv, StateOK, Storage, OrderInv, NoBackup, Content
    <2>2. ASSUME NEW d \in Remains(st.backup)
          PROVE  StateOK([st EXCEPT !.backup = d])
      <3>1. d \in [BackupName -> Content]
        BY RemainsTyped DEF StoreInv, StateOK, Storage
      <3> QED BY <3>1 DEF ConfirmDropsBackup, StoreInv, StateOK, Storage, OrderInv
    <2>3. NoBackup \in Remains(st.backup)
      BY RemovesAll DEF StoreInv, StateOK, Storage
    <2> QED BY <2>1, <2>2, <2>3 DEF ConfirmDropsBackup, StoreInv
  <1>3. RestInv'
    BY ConstantsAssumption DEF ConfirmDropsBackup, RestInv, Pc, RuntimePc, envVars, reqVars,
       EndRequest, Spend, NoReq, NoFlags
  <1>4. OrderInv'
    BY DEF ConfirmDropsBackup, OrderInv, stVars, EndRequest, Store, StoreSync, SyncAll, HasBackup,
       StoreInv, StateOK, Storage
  <1> QED BY <1>1, <1>2, <1>3, <1>4

(* ConfirmSyncsState preserves the invariant.                              *)
LEMMA ConfirmSyncsStateKeeps ==
  ASSUME IInv, ConfirmSyncsState
  PROVE  IInv'
  <1> USE DEF IInv
  <1>1. BootInv'
    BY BootUnchanged DEF ConfirmSyncsState, EndRequest
  <1>2. StoreInv'
    <2>1. StateOK(st)
      BY ConstantsAssumption DEF ConfirmSyncsState, StoreInv, StateOK, Storage, OrderInv,
         HasBackup, NoTrial, AttemptsExhausted, RestInv, BootInv
    <2> QED BY <2>1, StoreKeeps, StoreUnchanged DEF ConfirmSyncsState, StoreInv
  <1>3. RestInv'
    BY ConstantsAssumption DEF ConfirmSyncsState, RestInv, Pc, RuntimePc, envVars, reqVars,
       EndRequest, Spend, NoReq, NoFlags
  <1>4. OrderInv'
    BY DEF ConfirmSyncsState, OrderInv, stVars, EndRequest, Store, StoreSync, SyncAll, HasBackup,
       StoreInv, StateOK, Storage
  <1> QED BY <1>1, <1>2, <1>3, <1>4

(* LeaveTrialToNextBoot preserves the invariant.                           *)
LEMMA LeaveTrialToNextBootKeeps ==
  ASSUME IInv, LeaveTrialToNextBoot
  PROVE  IInv'
  <1> USE DEF IInv
  <1>1. BootInv'
    BY BootUnchanged DEF LeaveTrialToNextBoot, EndRequest
  <1>2. StoreInv'
    BY StoreUnchanged DEF LeaveTrialToNextBoot, EndRequest
  <1>3. RestInv'
    BY ConstantsAssumption DEF LeaveTrialToNextBoot, RestInv, Pc, RuntimePc, envVars, reqVars,
       EndRequest, Spend, NoReq, NoFlags
  <1>4. OrderInv'
    BY DEF LeaveTrialToNextBoot, OrderInv, stVars, EndRequest, Store, StoreSync, SyncAll,
       HasBackup, StoreInv, StateOK, Storage
  <1> QED BY <1>1, <1>2, <1>3, <1>4

(* PrepareBackup preserves the invariant.                                  *)
LEMMA PrepareBackupKeeps ==
  ASSUME IInv, PrepareBackup
  PROVE  IInv'
  <1> USE DEF IInv
  <1>1. BootInv'
    BY BootUnchanged DEF PrepareBackup, EndRequest
  <1>2. StoreInv'
    <2>1. StateOK([st EXCEPT !.backup = Snapshot(boot)])
      BY SnapshotComplete, ConstantsAssumption DEF PrepareBackup, StoreInv, StateOK, Storage,
         OrderInv, HasBackup, NoTrial, AttemptsExhausted, RestInv, BootInv
    <2> QED BY <2>1, StoreKeeps, StoreUnchanged DEF PrepareBackup, StoreInv
  <1>3. RestInv'
    BY ConstantsAssumption DEF PrepareBackup, RestInv, Pc, RuntimePc, envVars, reqVars,
       EndRequest, Spend, NoReq, NoFlags
  <1>4. OrderInv'
    BY SnapshotComplete DEF PrepareBackup, OrderInv, stVars, EndRequest, Store, StoreSync,
       SyncAll, HasBackup, StoreInv, StateOK, Storage, BootInv, BackupName
  <1> QED BY <1>1, <1>2, <1>3, <1>4

(* ArmTrial preserves the invariant.                                       *)
LEMMA ArmTrialKeeps ==
  ASSUME IInv, ArmTrial
  PROVE  IInv'
  <1> USE DEF IInv
  <1>1. BootInv'
    BY BootUnchanged DEF ArmTrial, EndRequest
  <1>2. StoreInv'
    <2> DEFINE s == [st EXCEPT !.trial = 0, !.boots = 0]
    <2>1. st \in Storage /\ running \in BootSetType /\ 0 \in NoTrial..MaxAttempts
      BY ConstantsAssumption DEF StoreInv, StateOK, RestInv, NoTrial
    <2>2. [st EXCEPT !.trial = 0] \in Storage
      BY <2>1, SetTrial
    <2>3. [[st EXCEPT !.trial = 0] EXCEPT !.boots = 0] \in Storage
      BY <2>2, SetBoots
    <2>4. s = [[st EXCEPT !.trial = 0] EXCEPT !.boots = 0]
      BY <2>1 DEF Storage
    <2>5. s \in Storage
      BY <2>3, <2>4
    <2>6. s.trial = 0 /\ s.backup = st.backup /\ s.boots = 0
      BY <2>1 DEF Storage
    <2>7. StateOK(s)
      BY <2>1, <2>4, <2>5, <2>6 DEF ArmTrial, StateOK, OrderInv, HasBackup, NoTrial
    <2> QED BY <2>7, StoreKeeps DEF ArmTrial
  <1>3. RestInv'
    BY ConstantsAssumption DEF ArmTrial, RestInv, Pc, RuntimePc, envVars, reqVars, EndRequest,
       Spend, NoReq, NoFlags
  <1>4. OrderInv'
    BY DEF ArmTrial, OrderInv, stVars, EndRequest, Store, StoreSync, SyncAll, HasBackup, StoreInv,
       StateOK, Storage
  <1> QED BY <1>1, <1>2, <1>3, <1>4

(* InstallFile preserves the invariant.                                    *)
LEMMA InstallFileKeeps ==
  ASSUME IInv, NEW f \in BootFile, InstallFile(f)
  PROVE  IInv'
  <1> USE DEF IInv
  <1>1. BootInv'
    <2>1. f \in BootFile /\ req.ver \in Content
      BY DEF InstallFile, BootFile, Content, StoreInv, StateOK, Storage, RestInv
    <2> QED BY <2>1, BootWriteKeeps DEF InstallFile
  <1>2. StoreInv'
    BY StoreUnchanged DEF InstallFile, EndRequest
  <1>3. RestInv'
    BY ConstantsAssumption DEF InstallFile, RestInv, Pc, RuntimePc, envVars, reqVars, EndRequest,
       Spend, NoReq, NoFlags
  <1>4. OrderInv'
    BY DEF InstallFile, OrderInv, stVars, EndRequest, Store, StoreSync, SyncAll, HasBackup,
       StoreInv, StateOK, Storage
  <1> QED BY <1>1, <1>2, <1>3, <1>4

(* InstallCmdline preserves the invariant.                                 *)
LEMMA InstallCmdlineKeeps ==
  ASSUME IInv, InstallCmdline
  PROVE  IInv'
  <1> USE DEF IInv
  <1>1. BootInv'
    <2>1. "cmdline" \in BootFile /\ req.ver \in Content
      BY DEF InstallCmdline, BootFile, Content, StoreInv, StateOK, Storage, RestInv
    <2> QED BY <2>1, BootWriteKeeps DEF InstallCmdline
  <1>2. StoreInv'
    BY StoreUnchanged DEF InstallCmdline, EndRequest
  <1>3. RestInv'
    BY ConstantsAssumption DEF InstallCmdline, RestInv, Pc, RuntimePc, envVars, reqVars,
       EndRequest, Spend, NoReq, NoFlags
  <1>4. OrderInv'
    BY DEF InstallCmdline, OrderInv, stVars, EndRequest, Store, StoreSync, SyncAll, HasBackup,
       StoreInv, StateOK, Storage
  <1> QED BY <1>1, <1>2, <1>3, <1>4

(* TruncateConfig preserves the invariant.                                 *)
LEMMA TruncateConfigKeeps ==
  ASSUME IInv, TruncateConfig
  PROVE  IInv'
  <1> USE DEF IInv
  <1>1. BootInv'
    <2>1. "config" \in BootFile /\ Torn \in Content
      BY DEF TruncateConfig, BootFile, Content, StoreInv, StateOK, Storage, RestInv
    <2> QED BY <2>1, BootWriteKeeps DEF TruncateConfig
  <1>2. StoreInv'
    BY StoreUnchanged DEF TruncateConfig, EndRequest
  <1>3. RestInv'
    BY ConstantsAssumption DEF TruncateConfig, RestInv, Pc, RuntimePc, envVars, reqVars,
       EndRequest, Spend, NoReq, NoFlags
  <1>4. OrderInv'
    BY DEF TruncateConfig, OrderInv, stVars, EndRequest, Store, StoreSync, SyncAll, HasBackup,
       StoreInv, StateOK, Storage
  <1> QED BY <1>1, <1>2, <1>3, <1>4

(* WriteConfig preserves the invariant.                                    *)
LEMMA WriteConfigKeeps ==
  ASSUME IInv, WriteConfig
  PROVE  IInv'
  <1> USE DEF IInv
  <1>1. BootInv'
    <2>1. "config" \in BootFile /\ req.ver \in Content
      BY DEF WriteConfig, BootFile, Content, StoreInv, StateOK, Storage, RestInv
    <2> QED BY <2>1, BootWriteKeeps DEF WriteConfig
  <1>2. StoreInv'
    BY StoreUnchanged DEF WriteConfig, EndRequest
  <1>3. RestInv'
    BY ConstantsAssumption DEF WriteConfig, RestInv, Pc, RuntimePc, envVars, reqVars, EndRequest,
       Spend, NoReq, NoFlags
  <1>4. OrderInv'
    BY DEF WriteConfig, OrderInv, stVars, EndRequest, Store, StoreSync, SyncAll, HasBackup,
       StoreInv, StateOK, Storage
  <1> QED BY <1>1, <1>2, <1>3, <1>4

(* FinishBootFile preserves the invariant.                                 *)
LEMMA FinishBootFileKeeps ==
  ASSUME IInv, FinishBootFile
  PROVE  IInv'
  <1> USE DEF IInv
  <1>1. BootInv'
    BY BootUnchanged DEF FinishBootFile, EndRequest
  <1>2. StoreInv'
    BY StoreUnchanged DEF FinishBootFile, EndRequest
  <1>3. RestInv'
    BY ConstantsAssumption DEF FinishBootFile, RestInv, Pc, RuntimePc, envVars, reqVars,
       EndRequest, Spend, NoReq, NoFlags
  <1>4. OrderInv'
    BY DEF FinishBootFile, OrderInv, stVars, EndRequest, Store, StoreSync, SyncAll, HasBackup,
       StoreInv, StateOK, Storage
  <1> QED BY <1>1, <1>2, <1>3, <1>4

(* SyncBootFiles preserves the invariant.                                  *)
LEMMA SyncBootFilesKeeps ==
  ASSUME IInv, SyncBootFiles
  PROVE  IInv'
  <1> USE DEF IInv
  <1>1. BootInv' /\ StoreInv'
    BY SyncKeeps, BootUnchanged, StoreUnchanged DEF SyncBootFiles
  <1>2. StoreInv'
    BY <1>1
  <1>3. RestInv'
    BY ConstantsAssumption DEF SyncBootFiles, RestInv, Pc, RuntimePc, envVars, reqVars,
       EndRequest, Spend, NoReq, NoFlags
  <1>4. OrderInv'
    BY DEF SyncBootFiles, OrderInv, stVars, EndRequest, Store, StoreSync, SyncAll, HasBackup,
       StoreInv, StateOK, Storage
  <1> QED BY <1>1, <1>2, <1>3, <1>4

(* StageProgram preserves the invariant.                                   *)
LEMMA StageProgramKeeps ==
  ASSUME IInv, StageProgram
  PROVE  IInv'
  <1> USE DEF IInv
  <1>1. BootInv'
    BY BootUnchanged DEF StageProgram, EndRequest
  <1>2. StoreInv'
    <2>1. StateOK([st EXCEPT !.staged = req.ver])
      BY ConstantsAssumption DEF StageProgram, StoreInv, StateOK, Storage, OrderInv, HasBackup,
         NoTrial, AttemptsExhausted, RestInv, BootInv
    <2> QED BY <2>1, StoreKeeps, StoreUnchanged DEF StageProgram, StoreInv
  <1>3. RestInv'
    BY ConstantsAssumption DEF StageProgram, RestInv, Pc, RuntimePc, envVars, reqVars, EndRequest,
       Spend, NoReq, NoFlags
  <1>4. OrderInv'
    BY DEF StageProgram, OrderInv, stVars, EndRequest, Store, StoreSync, SyncAll, HasBackup,
       StoreInv, StateOK, Storage
  <1> QED BY <1>1, <1>2, <1>3, <1>4

(* BeginRequest preserves the invariant.                                   *)
LEMMA BeginRequestKeeps ==
  ASSUME IInv, NEW k \in Kinds, NEW v \in Version, BeginRequest(k, v)
  PROVE  IInv'
  <1> USE DEF IInv
  <1>1. BootInv'
    BY BootUnchanged DEF BeginRequest, EndRequest
  <1>2. StoreInv'
    BY StoreUnchanged DEF BeginRequest, EndRequest
  <1>3. RestInv'
    <2>1. pc' \in Pc /\ running' \in BootSetType /\ env' \in BOOLEAN
      BY DEF BeginRequest, RestInv, Pc, RuntimePc
    <2>2. todo' \subseteq BootFile
      <3>1. k \in AllKinds /\ KernelFileOf[v] \in KernelFile
        BY ConstantsAssumption DEF KernelFile
      <3> QED BY <3>1 DEF BeginRequest, Targets, BootFile, AllKinds
    <2>3. failed' \in BOOLEAN
      BY DEF BeginRequest, RestInv
    <2>4. /\ req' \in [kind : AllKinds \cup {"none"}, ver : Version]
          /\ ram' \in [pending : BOOLEAN, armed : BOOLEAN, resolved : BOOLEAN]
          /\ cut' = cut
      BY ConstantsAssumption DEF BeginRequest, RestInv
    <2>5. left' \in [request : Nat, ioError : Nat, powerLoss : Nat]
      BY DEF BeginRequest, RestInv, Spend
    <2> QED BY <2>1, <2>2, <2>3, <2>4, <2>5 DEF RestInv
  <1>4. OrderInv'
    BY DEF BeginRequest, OrderInv, stVars, EndRequest, Store, StoreSync, SyncAll, HasBackup,
       StoreInv, StateOK, Storage
  <1> QED BY <1>1, <1>2, <1>3, <1>4

(* UserRestart preserves the invariant.                                    *)
LEMMA UserRestartKeeps ==
  ASSUME IInv, UserRestart
  PROVE  IInv'
  <1> USE DEF IInv
  <1>1. BootInv'
    BY BootUnchanged DEF UserRestart, EndRequest
  <1>2. StoreInv'
    BY StoreUnchanged DEF UserRestart, EndRequest
  <1>3. RestInv'
    BY ConstantsAssumption DEF UserRestart, RestInv, Pc, RuntimePc, envVars, reqVars, EndRequest,
       Spend, NoReq, NoFlags
  <1>4. OrderInv'
    BY DEF UserRestart, OrderInv, stVars, EndRequest, Store, StoreSync, SyncAll, HasBackup,
       StoreInv, StateOK, Storage
  <1> QED BY <1>1, <1>2, <1>3, <1>4

(* DismissReport preserves the invariant.                                  *)
LEMMA DismissReportKeeps ==
  ASSUME IInv, DismissReport
  PROVE  IInv'
  <1> USE DEF IInv
  <1>1. BootInv'
    BY DEF DismissReport, BootInv
  <1>2. StoreInv'
    <2>1. StateOK([st EXCEPT !.report = FALSE])
      BY SetReport DEF StoreInv
    <2> QED BY <2>1, StoreKeeps, StoreUnchanged DEF DismissReport, StoreInv
  <1>3. RestInv'
    BY ConstantsAssumption DEF DismissReport, RestInv, Pc, RuntimePc, envVars, reqVars,
       EndRequest, Spend, NoReq, NoFlags
  <1>4. OrderInv'
    BY DEF DismissReport, OrderInv, stVars, EndRequest, Store, StoreSync, SyncAll, HasBackup,
       StoreInv, StateOK, Storage
  <1> QED BY <1>1, <1>2, <1>3, <1>4

(* PrepareFails preserves the invariant.                                   *)
LEMMA PrepareFailsKeeps ==
  ASSUME IInv, PrepareFails
  PROVE  IInv'
  <1> USE DEF IInv
  <1>1. BootInv'
    BY BootUnchanged DEF PrepareFails, EndRequest
  <1>2. StoreInv'
    BY StoreUnchanged DEF PrepareFails, EndRequest
  <1>3. RestInv'
    BY ConstantsAssumption DEF PrepareFails, RestInv, Pc, RuntimePc, envVars, reqVars, EndRequest,
       Spend, NoReq, NoFlags
  <1>4. OrderInv'
    BY DEF PrepareFails, OrderInv, stVars, EndRequest, Store, StoreSync, SyncAll, HasBackup,
       StoreInv, StateOK, Storage
  <1> QED BY <1>1, <1>2, <1>3, <1>4

(* InstallFails preserves the invariant.                                   *)
LEMMA InstallFailsKeeps ==
  ASSUME IInv, InstallFails
  PROVE  IInv'
  <1> USE DEF IInv
  <1>1. BootInv'
    BY BootUnchanged DEF InstallFails, EndRequest
  <1>2. StoreInv'
    BY StoreUnchanged DEF InstallFails, EndRequest
  <1>3. RestInv'
    BY ConstantsAssumption DEF InstallFails, RestInv, Pc, RuntimePc, envVars, reqVars, EndRequest,
       Spend, NoReq, NoFlags
  <1>4. OrderInv'
    BY DEF InstallFails, OrderInv, stVars, EndRequest, Store, StoreSync, SyncAll, HasBackup,
       StoreInv, StateOK, Storage
  <1> QED BY <1>1, <1>2, <1>3, <1>4

(* RuntimeFails preserves the invariant.                                   *)
LEMMA RuntimeFailsKeeps ==
  ASSUME IInv, RuntimeFails
  PROVE  IInv'
  <1> USE DEF IInv
  <1>1. BootInv'
    BY BootUnchanged DEF RuntimeFails, EndRequest
  <1>2. StoreInv'
    <2>1. ASSUME pc = "confirmdrop", NEW d \in Remains(st.backup)
          PROVE  StateOK([st EXCEPT !.backup = d])
      <3>1. d \in [BackupName -> Content]
        BY RemainsTyped DEF StoreInv, StateOK, Storage
      <3> QED BY <2>1, <3>1 DEF StoreInv, StateOK, Storage, OrderInv
    <2> QED BY <2>1, StoreUnchanged, StoreKeeps DEF RuntimeFails
  <1>3. RestInv'
    <2>1. pc' \in Pc /\ running' \in BootSetType /\ env' \in BOOLEAN
      BY DEF RuntimeFails, RestInv, Pc, RuntimePc
    <2>2. todo' \subseteq BootFile
      BY DEF RuntimeFails
    <2>3. failed' \in BOOLEAN
      BY DEF RuntimeFails, RestInv
    <2>4. req' \in [kind : AllKinds \cup {"none"}, ver : Version]
      BY ConstantsAssumption DEF RuntimeFails, NoReq
    <2>5. ram' \in [pending : BOOLEAN, armed : BOOLEAN, resolved : BOOLEAN]
      <3>1. ram' = ram \/ ram' = NoFlags
        BY DEF RuntimeFails
      <3>2. NoFlags \in [pending : BOOLEAN, armed : BOOLEAN, resolved : BOOLEAN]
        BY DEF NoFlags
      <3>3. ram \in [pending : BOOLEAN, armed : BOOLEAN, resolved : BOOLEAN]
        BY DEF RestInv
      <3> QED BY <3>1, <3>2, <3>3
    <2>6. cut' \subseteq {"restore", "cleanup"}
      BY DEF RuntimeFails, RestInv
    <2>7. left' \in [request : Nat, ioError : Nat, powerLoss : Nat]
      BY DEF RuntimeFails, RestInv, Spend
    <2> QED BY <2>1, <2>2, <2>3, <2>4, <2>5, <2>6, <2>7 DEF RestInv
  <1>4. OrderInv'
    BY DEF RuntimeFails, OrderInv, stVars, EndRequest, Store, StoreSync, SyncAll, HasBackup,
       StoreInv, StateOK, Storage
  <1> QED BY <1>1, <1>2, <1>3, <1>4

(* PowerLoss preserves the invariant.                                      *)
LEMMA PowerLossKeeps ==
  ASSUME IInv, PowerLoss
  PROVE  IInv'
  <1> USE DEF IInv
  <1>1. BootInv'
    BY DEF PowerLoss, BootInv, Unsynced
  <1>2. StoreInv'
    BY DEF PowerLoss, StoreInv, StateOK, HasBackup
  <1>3. RestInv'
    <2>1. pc' \in Pc /\ running' \in BootSetType /\ env' \in BOOLEAN
      BY DEF PowerLoss, RestInv, Pc, RuntimePc
    <2>2. todo' \subseteq BootFile
      BY DEF PowerLoss
    <2>3. failed' \in BOOLEAN
      BY DEF PowerLoss, RestInv
    <2>4. req' \in [kind : AllKinds \cup {"none"}, ver : Version]
      BY ConstantsAssumption DEF PowerLoss, NoReq
    <2>5. ram' \in [pending : BOOLEAN, armed : BOOLEAN, resolved : BOOLEAN]
      BY DEF PowerLoss, RestInv, NoFlags
    <2>6. cut' \subseteq {"restore", "cleanup"}
      BY DEF PowerLoss, RestInv
    <2>7. left' \in [request : Nat, ioError : Nat, powerLoss : Nat]
      BY DEF PowerLoss, RestInv, Spend
    <2> QED BY <2>1, <2>2, <2>3, <2>4, <2>5, <2>6, <2>7 DEF RestInv
  <1>4. OrderInv'
    BY DEF PowerLoss, OrderInv, stVars, EndRequest, Store, StoreSync, SyncAll, HasBackup,
       StoreInv, StateOK, Storage
  <1> QED BY <1>1, <1>2, <1>3, <1>4

-----------------------------------------------------------------------------
(* The machine starts in the invariant.                                    *)
LEMMA InitInv == Init => IInv
  <1> SUFFICES ASSUME Init PROVE IInv
    OBVIOUS
  <1>1. FactorySet \in [BootFile -> Content]
    BY ConstantsAssumption DEF FactorySet, Content
  <1>2. BootSet(FactorySet) \in BootSetType
    BY <1>1, BootSetTyped
  <1>3. BootInv
    BY <1>1 DEF Init, BootInv
  <1>4. st \in Storage
    BY <1>2, ConstantsAssumption DEF Init, Storage, NoTrial, NoBackup, Content
  <1>5. st.trial = NoTrial
    BY DEF Init
  <1>6. StoreInv
    BY <1>4, <1>5 DEF Init, StoreInv, StateOK
  <1>7. RestInv
    BY <1>2, ConstantsAssumption DEF Init, RestInv, Pc, NoReq, NoFlags
  <1> QED BY <1>3, <1>6, <1>7 DEF Init, IInv, OrderInv

(* A stuttering step keeps the invariant.                                  *)
LEMMA StutterInv == IInv /\ UNCHANGED vars => IInv'
  <1> SUFFICES ASSUME IInv, UNCHANGED vars PROVE IInv'
    OBVIOUS
  <1>1. UNCHANGED bootVars /\ UNCHANGED stVars
    BY DEF vars, bootVars, stVars
  <1>2. RestInv'
    BY DEF vars, IInv, RestInv
  <1>3. OrderInv'
    BY DEF vars, IInv, OrderInv, HasBackup
  <1> QED BY <1>1, <1>2, <1>3, BootUnchanged, StoreUnchanged DEF IInv

(* Every step keeps the invariant.                                         *)
LEMMA NextInv == IInv /\ [Next]_vars => IInv'
  <1> SUFFICES ASSUME IInv, [Next]_vars PROVE IInv'
    OBVIOUS
  <1>1. CASE Bootloader
    BY <1>1, FirmwareLoadsKeeps, NoStagedProgramKeeps, UnlinkOldProgramKeeps, PromoteStagedKeeps,
       UnstageProgramKeeps, PromotionFailsKeeps, RebootKeeps, BeginNormalBootKeeps,
       CountAttemptKeeps, EnterTrialKeeps, DecideRevertKeeps, TrialMountFailsKeeps,
       StartRuntimeKeeps
    DEF Bootloader
  <1>2. CASE Revert
    BY <1>2, WriteReportKeeps, RestoreFileKeeps, RestoreFailedKeeps, RestoreCompleteKeeps,
       RevertDropsBackupKeeps, RevertSyncsStateKeeps
    DEF Revert
  <1>3. CASE Confirmation
    BY <1>3, ConfirmKeeps, ConfirmDropsBackupKeeps, ConfirmSyncsStateKeeps,
       LeaveTrialToNextBootKeeps
    DEF Confirmation
  <1>4. CASE Serve
    BY <1>4, PrepareBackupKeeps, ArmTrialKeeps, InstallFileKeeps, InstallCmdlineKeeps,
       TruncateConfigKeeps, WriteConfigKeeps, FinishBootFileKeeps, SyncBootFilesKeeps,
       StageProgramKeeps
    DEF Serve
  <1>5. CASE User
    BY <1>5, BeginRequestKeeps, UserRestartKeeps, DismissReportKeeps
    DEF User
  <1>6. CASE Failure
    BY <1>6, PrepareFailsKeeps, InstallFailsKeeps, RuntimeFailsKeeps, PowerLossKeeps
    DEF Failure
  <1>7. CASE UNCHANGED vars
    BY <1>7, StutterInv
  <1> QED BY <1>1, <1>2, <1>3, <1>4, <1>5, <1>6, <1>7 DEF Next

(* The invariant holds of every reachable state.                           *)
THEOREM Invariance == Spec => []IInv
  BY InitInv, NextInv, PTL DEF Spec

(* No sequence of updates, crashes, power losses and I/O errors takes the  *)
(* machine out of its types: the counter file in particular never exceeds  *)
(* BOOT_RECOVERY_MAX_ATTEMPTS.                                             *)
THEOREM TypeCorrect == Spec => []TypeOK
  <1>1. IInv => TypeOK
    BY DEF IInv, BootInv, StoreInv, StateOK, RestInv, TypeOK
  <1> QED BY <1>1, Invariance, PTL

(* At no moment does a power loss leave an unconfirmed boot set without a  *)
(* backup to go back to (bootRecoveryPrepareUpdate, Confirm and Revert).   *)
THEOREM UpdatesAreRevertible == Spec => []TrialHasBackup
  <1>1. IInv => TrialHasBackup
    BY DEF IInv, StoreInv, StateOK, TrialHasBackup
  <1> QED BY <1>1, Invariance, PTL

(* An unconfirmed boot set is never booted more often than its counter,    *)
(* and so BOOT_RECOVERY_MAX_ATTEMPTS, says (bootRecoveryBeginBoot).        *)
THEOREM AttemptsAreBounded == Spec => []AttemptsBounded
  <1>1. IInv => AttemptsBounded
    BY DEF IInv, StoreInv, StateOK, AttemptsBounded
  <1> QED BY <1>1, Invariance, PTL

-----------------------------------------------------------------------------
(* Every outcome of a power loss finds a trial to decide and a backup.     *)
Guarded == \A s \in stDur : s.trial # NoTrial /\ HasBackup(s)

(* Where the machine is before anything of this boot has been written, and *)
(* where it comes back to once all has been synced.                        *)
SyncedPc == {"firmware", "staged", "trial", "attempt", "report", "exec", "dead",
             "confirmdrop", "confirmsync"}

(* The promotion of a staged runtime is behind.                            *)
PromotedPc == RuntimePc \cup {"trial", "attempt", "report", "restore", "revertdrop",
                              "revertsync", "exec"}

(* Boot files are written, or wait for their sync, only while a trial that *)
(* has a backup guards them on every storage partition a power loss may    *)
(* leave; before and after that all is synced.                             *)
WriteInv ==
  /\ pc \in SyncedPc => Unsynced = {}
  /\ pc \in RuntimePc \cup {"halted", "promote", "unstage"} => Unsynced = {} \/ Guarded
  /\ pc \in {"install", "write", "stage"} => Guarded
  /\ pc \in {"firmware", "staged", "promote", "unstage", "trial", "attempt", "report",
            "restore", "exec", "dead"} => stDur = {st}

(* A runtime is staged only for a trial, and no longer once it has been    *)
(* promoted.                                                               *)
StagedInv ==
  /\ \A s \in stDur : s.staged # Absent => s.trial # NoTrial
  /\ pc \in {"promote", "unstage"} => st.staged # Absent
  /\ pc \in PromotedPc => \A s \in stDur : s.staged = Absent

(* A revert has a trial to end and a backup to restore, and its report is  *)
(* on the disk before the backup goes.                                     *)
RevertInv ==
  /\ pc \in {"report", "restore"} => st.trial # NoTrial
  /\ pc = "revertdrop" => HasBackup(st)
  /\ pc # "revertnone"
  /\ pc \in {"revertdrop", "revertsync"} => \A s \in stDur : s.report = st.report

(* A trial image this boot may confirm is the one on the boot partition.   *)
RanInv ==
  /\ pc \in {"staged", "trial", "attempt", "report", "restore", "revertdrop", "revertsync"} => ~env
  /\ pc \in {"staged", "trial", "attempt"} \/ (pc = "exec" /\ env) => running = BootSet(boot)
  /\ pc \in RuntimePc => (ram.pending /\ ~ram.armed => Unsynced = {} /\ running = BootSet(boot))
  /\ pc \in {"install", "write", "stage"} => ram.armed

TrackInv == WriteInv /\ StagedInv /\ RevertInv /\ RanInv

(* Arming a trial concerns the trial and its boot count alone.             *)
LEMMA ArmedStore ==
  ASSUME NEW s \in Storage
  PROVE  LET t == [s EXCEPT !.trial = 0, !.boots = 0]
         IN  /\ t.trial = 0 /\ t.trial # NoTrial
             /\ t.backup = s.backup /\ t.staged = s.staged
             /\ t.good = s.good /\ t.report = s.report
  BY DEF Storage, NoTrial

(* FirmwareLoads preserves TrackInv.                                       *)
LEMMA FirmwareLoadsTracks ==
  ASSUME IInv, TrackInv, FirmwareLoads
  PROVE  TrackInv'
  <1>1. WriteInv'
    BY DEF FirmwareLoads, TrackInv, WriteInv, SyncedPc, Unsynced, stVars, bootVars
  <1>2. StagedInv'
    BY DEF FirmwareLoads, TrackInv, StagedInv, PromotedPc, RuntimePc, stVars
  <1>3. RevertInv'
    BY DEF FirmwareLoads, RevertInv
  <1>4. RanInv'
    BY DEF FirmwareLoads, RanInv, RuntimePc, bootVars
  <1> QED BY <1>1, <1>2, <1>3, <1>4 DEF TrackInv

(* NoStagedProgram preserves TrackInv.                                     *)
LEMMA NoStagedProgramTracks ==
  ASSUME IInv, TrackInv, NoStagedProgram
  PROVE  TrackInv'
  <1>1. WriteInv'
    BY DEF NoStagedProgram, TrackInv, WriteInv, SyncedPc, Unsynced, stVars, bootVars
  <1>2. StagedInv'
    BY DEF NoStagedProgram, TrackInv, WriteInv, StagedInv, stVars
  <1>3. RevertInv'
    BY DEF NoStagedProgram, RevertInv
  <1>4. RanInv'
    BY DEF NoStagedProgram, TrackInv, RanInv, RuntimePc, bootVars
  <1> QED BY <1>1, <1>2, <1>3, <1>4 DEF TrackInv

(* UnlinkOldProgram preserves TrackInv.                                    *)
LEMMA UnlinkOldProgramTracks ==
  ASSUME IInv, TrackInv, UnlinkOldProgram
  PROVE  TrackInv'
  <1>1. WriteInv'
    BY DEF UnlinkOldProgram, TrackInv, WriteInv, StagedInv, IInv, StoreInv, StateOK, Guarded,
       SyncedPc, stVars
  <1>2. StagedInv'
    BY DEF UnlinkOldProgram, TrackInv, StagedInv, PromotedPc, RuntimePc, stVars
  <1>3. RevertInv'
    BY DEF UnlinkOldProgram, RevertInv
  <1>4. RanInv'
    BY DEF UnlinkOldProgram, RanInv, RuntimePc
  <1> QED BY <1>1, <1>2, <1>3, <1>4 DEF TrackInv

(* PromoteStaged preserves TrackInv.                                       *)
LEMMA PromoteStagedTracks ==
  ASSUME IInv, TrackInv, PromoteStaged
  PROVE  TrackInv'
  <1>1. WriteInv'
    BY DEF PromoteStaged, TrackInv, WriteInv, StagedInv, IInv, StoreInv, StateOK, Guarded,
       SyncedPc, stVars
  <1>2. StagedInv'
    BY DEF PromoteStaged, TrackInv, StagedInv, PromotedPc, RuntimePc, stVars
  <1>3. RevertInv'
    BY DEF PromoteStaged, RevertInv
  <1>4. RanInv'
    BY DEF PromoteStaged, RanInv, RuntimePc
  <1> QED BY <1>1, <1>2, <1>3, <1>4 DEF TrackInv

(* UnstageProgram preserves TrackInv.                                      *)
LEMMA UnstageProgramTracks ==
  ASSUME IInv, TrackInv, UnstageProgram
  PROVE  TrackInv'
  <1>1. WriteInv'
    BY DEF UnstageProgram, WriteInv, SyncedPc, RuntimePc
  <1>2. StagedInv'
    BY DEF UnstageProgram, TrackInv, StagedInv, IInv, StoreInv, StateOK, Storage, PromotedPc,
       RuntimePc, stVars, Store
  <1>3. RevertInv'
    BY DEF UnstageProgram, RevertInv
  <1>4. RanInv'
    BY DEF UnstageProgram, RanInv, RuntimePc
  <1> QED BY <1>1, <1>2, <1>3, <1>4 DEF TrackInv

(* PromotionFails preserves TrackInv.                                      *)
LEMMA PromotionFailsTracks ==
  ASSUME IInv, TrackInv, PromotionFails
  PROVE  TrackInv'
  <1>1. WriteInv'
    BY DEF PromotionFails, TrackInv, WriteInv, Guarded, SyncedPc, Unsynced, stVars, bootVars
  <1>2. StagedInv'
    BY DEF PromotionFails, TrackInv, StagedInv, PromotedPc, RuntimePc, stVars, bootVars, reqVars,
       Spend
  <1>3. RevertInv'
    BY DEF PromotionFails, RevertInv
  <1>4. RanInv'
    BY DEF PromotionFails, RanInv, RuntimePc
  <1> QED BY <1>1, <1>2, <1>3, <1>4 DEF TrackInv

(* Reboot preserves TrackInv.                                              *)
LEMMA RebootTracks ==
  ASSUME IInv, TrackInv, Reboot
  PROVE  TrackInv'
  <1>1. WriteInv'
    BY DEF Reboot, WriteInv, Unsynced, SyncAll
  <1>2. StagedInv'
    BY DEF Reboot, TrackInv, StagedInv, IInv, StoreInv, PromotedPc, RuntimePc, SyncAll
  <1>3. RevertInv'
    BY DEF Reboot, RevertInv
  <1>4. RanInv'
    BY DEF Reboot, RanInv, RuntimePc
  <1> QED BY <1>1, <1>2, <1>3, <1>4 DEF TrackInv

(* BeginNormalBoot preserves TrackInv.                                     *)
LEMMA BeginNormalBootTracks ==
  ASSUME IInv, TrackInv, BeginNormalBoot
  PROVE  TrackInv'
  <1>1. WriteInv'
    BY DEF BeginNormalBoot, TrackInv, WriteInv, SyncedPc, Unsynced, stVars, bootVars
  <1>2. StagedInv'
    BY DEF BeginNormalBoot, TrackInv, StagedInv, PromotedPc, stVars
  <1>3. RevertInv'
    BY DEF BeginNormalBoot, RevertInv
  <1>4. RanInv'
    BY DEF BeginNormalBoot, TrackInv, RanInv, RuntimePc
  <1> QED BY <1>1, <1>2, <1>3, <1>4 DEF TrackInv

(* CountAttempt preserves TrackInv.                                        *)
LEMMA CountAttemptTracks ==
  ASSUME IInv, TrackInv, CountAttempt
  PROVE  TrackInv'
  <1>1. WriteInv'
    BY DEF CountAttempt, TrackInv, WriteInv, SyncedPc, Unsynced, bootVars, StoreSync
  <1>2. StagedInv'
    BY DEF CountAttempt, TrackInv, StagedInv, IInv, StoreInv, PromotedPc, StoreSync
  <1>3. RevertInv'
    BY DEF CountAttempt, RevertInv
  <1>4. RanInv'
    BY DEF CountAttempt, TrackInv, RanInv, RuntimePc, bootVars
  <1> QED BY <1>1, <1>2, <1>3, <1>4 DEF TrackInv

(* EnterTrial preserves TrackInv.                                          *)
LEMMA EnterTrialTracks ==
  ASSUME IInv, TrackInv, EnterTrial
  PROVE  TrackInv'
  <1>1. WriteInv'
    BY DEF EnterTrial, WriteInv, Unsynced, StoreSync
  <1>2. StagedInv'
    BY DEF EnterTrial, TrackInv, StagedInv, IInv, StoreInv, PromotedPc, StoreSync
  <1>3. RevertInv'
    BY DEF EnterTrial, RevertInv
  <1>4. RanInv'
    BY DEF EnterTrial, TrackInv, RanInv, RuntimePc
  <1> QED BY <1>1, <1>2, <1>3, <1>4 DEF TrackInv

(* DecideRevert preserves TrackInv.                                        *)
LEMMA DecideRevertTracks ==
  ASSUME IInv, TrackInv, DecideRevert
  PROVE  TrackInv'
  <1>1. WriteInv'
    BY DEF DecideRevert, TrackInv, WriteInv, SyncedPc, Unsynced, stVars, bootVars
  <1>2. StagedInv'
    BY DEF DecideRevert, TrackInv, StagedInv, PromotedPc, stVars
  <1>3. RevertInv'
    BY DEF DecideRevert, RevertInv, stVars
  <1>4. RanInv'
    BY DEF DecideRevert, TrackInv, RanInv, RuntimePc
  <1> QED BY <1>1, <1>2, <1>3, <1>4 DEF TrackInv

(* TrialMountFails preserves TrackInv.                                     *)
LEMMA TrialMountFailsTracks ==
  ASSUME IInv, TrackInv, TrialMountFails
  PROVE  TrackInv'
  <1>1. WriteInv'
    BY DEF TrialMountFails, TrackInv, WriteInv, SyncedPc, Unsynced, stVars, bootVars
  <1>2. StagedInv'
    BY DEF TrialMountFails, TrackInv, StagedInv, PromotedPc, stVars
  <1>3. RevertInv'
    BY DEF TrialMountFails, RevertInv
  <1>4. RanInv'
    BY DEF TrialMountFails, TrackInv, RanInv, RuntimePc
  <1> QED BY <1>1, <1>2, <1>3, <1>4 DEF TrackInv

(* StartRuntime preserves TrackInv.                                        *)
LEMMA StartRuntimeTracks ==
  ASSUME IInv, TrackInv, StartRuntime
  PROVE  TrackInv'
  <1>1. WriteInv'
    BY DEF StartRuntime, TrackInv, WriteInv, SyncedPc, Unsynced, bootVars
  <1>2. StagedInv'
    BY DEF StartRuntime, TrackInv, StagedInv, PromotedPc, stVars
  <1>3. RevertInv'
    BY DEF StartRuntime, RevertInv
  <1>4. RanInv'
    BY DEF StartRuntime, TrackInv, WriteInv, RanInv, SyncedPc, RuntimePc, Unsynced, bootVars,
       NoFlags
  <1> QED BY <1>1, <1>2, <1>3, <1>4 DEF TrackInv

(* WriteReport preserves TrackInv.                                         *)
LEMMA WriteReportTracks ==
  ASSUME IInv, TrackInv, WriteReport
  PROVE  TrackInv'
  <1>1. WriteInv'
    BY DEF WriteReport, TrackInv, WriteInv, SyncedPc, Unsynced, stVars, bootVars, StoreSync
  <1>2. StagedInv'
    BY DEF WriteReport, TrackInv, StagedInv, IInv, StoreInv, StateOK, Storage, PromotedPc, stVars,
       StoreSync
  <1>3. RevertInv'
    BY DEF WriteReport, TrackInv, RevertInv, IInv, StoreInv, StateOK, Storage, stVars, StoreSync
  <1>4. RanInv'
    BY DEF WriteReport, TrackInv, RanInv, RuntimePc
  <1> QED BY <1>1, <1>2, <1>3, <1>4 DEF TrackInv

(* RestoreFile preserves TrackInv.                                         *)
LEMMA RestoreFileTracks ==
  ASSUME IInv, TrackInv, NEW f \in BootFile, RestoreFile(f)
  PROVE  TrackInv'
  <1>1. WriteInv'
    BY DEF RestoreFile, TrackInv, WriteInv, SyncedPc, RuntimePc, stVars
  <1>2. StagedInv'
    BY DEF RestoreFile, TrackInv, StagedInv, stVars
  <1>3. RevertInv'
    BY DEF RestoreFile, TrackInv, RevertInv, stVars
  <1>4. RanInv'
    BY DEF RestoreFile, TrackInv, RanInv, RuntimePc
  <1> QED BY <1>1, <1>2, <1>3, <1>4 DEF TrackInv

(* RestoreFailed preserves TrackInv.                                       *)
LEMMA RestoreFailedTracks ==
  ASSUME IInv, TrackInv, RestoreFailed
  PROVE  TrackInv'
  <1>1. WriteInv'
    BY DEF RestoreFailed, WriteInv, Unsynced, SyncAll
  <1>2. StagedInv'
    BY DEF RestoreFailed, TrackInv, StagedInv, IInv, StoreInv, PromotedPc, SyncAll
  <1>3. RevertInv'
    BY DEF RestoreFailed, RevertInv
  <1>4. RanInv'
    BY DEF RestoreFailed, TrackInv, RanInv, RuntimePc
  <1> QED BY <1>1, <1>2, <1>3, <1>4 DEF TrackInv

(* RestoreComplete preserves TrackInv.                                     *)
LEMMA RestoreCompleteTracks ==
  ASSUME IInv, TrackInv, RestoreComplete
  PROVE  TrackInv'
  <1>1. WriteInv'
    BY DEF RestoreComplete, WriteInv, SyncedPc, RuntimePc
  <1>2. StagedInv'
    BY DEF RestoreComplete, TrackInv, StagedInv, IInv, StoreInv, StateOK, Storage, PromotedPc,
       Store
  <1>3. RevertInv'
    BY DEF RestoreComplete, TrackInv, WriteInv, RevertInv, IInv, StoreInv, StateOK, Storage,
       HasBackup, Store
  <1>4. RanInv'
    BY DEF RestoreComplete, TrackInv, RanInv, RuntimePc
  <1> QED BY <1>1, <1>2, <1>3, <1>4 DEF TrackInv

(* RevertDropsBackup preserves TrackInv.                                   *)
LEMMA RevertDropsBackupTracks ==
  ASSUME IInv, TrackInv, RevertDropsBackup
  PROVE  TrackInv'
  <1>1. WriteInv'
    BY DEF RevertDropsBackup, WriteInv, SyncedPc, RuntimePc
  <1>2. StagedInv'
    BY DEF RevertDropsBackup, TrackInv, StagedInv, IInv, StoreInv, StateOK, Storage, PromotedPc
  <1>3. RevertInv'
    BY DEF RevertDropsBackup, TrackInv, RevertInv, IInv, StoreInv, StateOK, Storage
  <1>4. RanInv'
    BY DEF RevertDropsBackup, TrackInv, RanInv, RuntimePc
  <1> QED BY <1>1, <1>2, <1>3, <1>4 DEF TrackInv

(* RevertSyncsState preserves TrackInv.                                    *)
LEMMA RevertSyncsStateTracks ==
  ASSUME IInv, TrackInv, RevertSyncsState
  PROVE  TrackInv'
  <1>1. WriteInv'
    BY DEF RevertSyncsState, TrackInv, WriteInv, RevertInv, SyncedPc, RuntimePc
  <1>2. StagedInv'
    BY DEF RevertSyncsState, TrackInv, StagedInv, RevertInv, IInv, StoreInv, PromotedPc, StoreSync
  <1>3. RevertInv'
    BY DEF RevertSyncsState, RevertInv
  <1>4. RanInv'
    BY DEF RevertSyncsState, TrackInv, RevertInv, RanInv, RuntimePc
  <1> QED BY <1>1, <1>2, <1>3, <1>4 DEF TrackInv

(* Confirm preserves TrackInv.                                             *)
LEMMA ConfirmTracks ==
  ASSUME IInv, TrackInv, Confirm
  PROVE  TrackInv'
  <1>1. WriteInv'
    BY DEF Confirm, TrackInv, WriteInv, RanInv, RuntimePc, Unsynced, bootVars
  <1>2. StagedInv'
    BY DEF Confirm, TrackInv, StagedInv, IInv, StoreInv, StateOK, Storage, PromotedPc, RuntimePc,
       Store
  <1>3. RevertInv'
    BY DEF Confirm, RevertInv
  <1>4. RanInv'
    BY DEF Confirm, TrackInv, RanInv, RuntimePc, Unsynced, bootVars
  <1> QED BY <1>1, <1>2, <1>3, <1>4 DEF TrackInv

(* ConfirmDropsBackup preserves TrackInv.                                  *)
LEMMA ConfirmDropsBackupTracks ==
  ASSUME IInv, TrackInv, ConfirmDropsBackup
  PROVE  TrackInv'
  <1>1. WriteInv'
    BY DEF ConfirmDropsBackup, TrackInv, WriteInv, SyncedPc, Unsynced, bootVars
  <1>2. StagedInv'
    BY DEF ConfirmDropsBackup, TrackInv, StagedInv, IInv, StoreInv, StateOK, Storage, PromotedPc,
       RuntimePc
  <1>3. RevertInv'
    BY DEF ConfirmDropsBackup, RevertInv
  <1>4. RanInv'
    BY DEF ConfirmDropsBackup, TrackInv, RanInv, RuntimePc, Unsynced, bootVars
  <1> QED BY <1>1, <1>2, <1>3, <1>4 DEF TrackInv

(* ConfirmSyncsState preserves TrackInv.                                   *)
LEMMA ConfirmSyncsStateTracks ==
  ASSUME IInv, TrackInv, ConfirmSyncsState
  PROVE  TrackInv'
  <1>1. WriteInv'
    BY DEF ConfirmSyncsState, TrackInv, WriteInv, SyncedPc, Unsynced, bootVars
  <1>2. StagedInv'
    BY DEF ConfirmSyncsState, TrackInv, StagedInv, IInv, StoreInv, PromotedPc, RuntimePc,
       StoreSync
  <1>3. RevertInv'
    BY DEF ConfirmSyncsState, RevertInv
  <1>4. RanInv'
    BY DEF ConfirmSyncsState, TrackInv, RanInv, RuntimePc, Unsynced, bootVars, reqVars, envVars,
       StoreSync
  <1> QED BY <1>1, <1>2, <1>3, <1>4 DEF TrackInv

(* LeaveTrialToNextBoot preserves TrackInv.                                *)
LEMMA LeaveTrialToNextBootTracks ==
  ASSUME IInv, TrackInv, LeaveTrialToNextBoot
  PROVE  TrackInv'
  <1>1. WriteInv'
    BY DEF LeaveTrialToNextBoot, TrackInv, WriteInv, Guarded, Unsynced, stVars, bootVars
  <1>2. StagedInv'
    BY DEF LeaveTrialToNextBoot, TrackInv, StagedInv, stVars
  <1>3. RevertInv'
    BY DEF LeaveTrialToNextBoot, RevertInv
  <1>4. RanInv'
    BY DEF LeaveTrialToNextBoot, RanInv
  <1> QED BY <1>1, <1>2, <1>3, <1>4 DEF TrackInv

(* PrepareBackup preserves TrackInv.                                       *)
LEMMA PrepareBackupTracks ==
  ASSUME IInv, TrackInv, PrepareBackup
  PROVE  TrackInv'
  <1>1. WriteInv'
    BY DEF PrepareBackup, TrackInv, WriteInv, IInv, StoreInv, Guarded, SyncedPc, RuntimePc,
       Unsynced, stVars, bootVars
  <1>2. StagedInv'
    BY DEF PrepareBackup, TrackInv, StagedInv, IInv, StoreInv, StateOK, Storage, PromotedPc,
       RuntimePc, stVars, StoreSync
  <1>3. RevertInv'
    BY DEF PrepareBackup, RevertInv
  <1>4. RanInv'
    BY DEF PrepareBackup, TrackInv, RanInv, RuntimePc, Unsynced, bootVars
  <1> QED BY <1>1, <1>2, <1>3, <1>4 DEF TrackInv

(* ArmTrial preserves TrackInv.                                            *)
LEMMA ArmTrialTracks ==
  ASSUME IInv, TrackInv, ArmTrial
  PROVE  TrackInv'
  <1> DEFINE t == [st EXCEPT !.trial = 0, !.boots = 0]
  <1>1. st \in Storage /\ HasBackup(st) /\ st.staged = Absent
    BY DEF ArmTrial, IInv, StoreInv, StateOK, OrderInv, TrackInv, StagedInv, PromotedPc, RuntimePc
  <1>2. t.trial # NoTrial /\ t.backup = st.backup /\ t.staged = Absent
    BY <1>1, ArmedStore
  <1>3. st' = t /\ stDur' = {t}
    BY DEF ArmTrial, StoreSync
  <1>4. Guarded'
    BY <1>1, <1>2, <1>3 DEF Guarded, HasBackup
  <1> HIDE DEF t
  <1>5. WriteInv'
    BY <1>4 DEF ArmTrial, WriteInv, SyncedPc, RuntimePc
  <1>6. StagedInv'
    BY <1>2, <1>3 DEF ArmTrial, StagedInv
  <1>7. RevertInv'
    BY DEF ArmTrial, RevertInv
  <1>8. RanInv'
    BY DEF ArmTrial, RanInv
  <1> QED BY <1>5, <1>6, <1>7, <1>8 DEF TrackInv

(* InstallFile preserves TrackInv.                                         *)
LEMMA InstallFileTracks ==
  ASSUME IInv, TrackInv, NEW f \in BootFile, InstallFile(f)
  PROVE  TrackInv'
  <1>1. WriteInv'
    BY DEF InstallFile, TrackInv, WriteInv, HasBackup, Guarded, SyncedPc, stVars
  <1>2. StagedInv'
    BY DEF InstallFile, TrackInv, StagedInv, stVars
  <1>3. RevertInv'
    BY DEF InstallFile, RevertInv
  <1>4. RanInv'
    BY DEF InstallFile, TrackInv, RanInv
  <1> QED BY <1>1, <1>2, <1>3, <1>4 DEF TrackInv

(* InstallCmdline preserves TrackInv.                                      *)
LEMMA InstallCmdlineTracks ==
  ASSUME IInv, TrackInv, InstallCmdline
  PROVE  TrackInv'
  <1>1. WriteInv'
    BY DEF InstallCmdline, TrackInv, WriteInv, Guarded, SyncedPc, stVars, EndRequest
  <1>2. StagedInv'
    BY DEF InstallCmdline, TrackInv, StagedInv, PromotedPc, RuntimePc, stVars, EndRequest
  <1>3. RevertInv'
    BY DEF InstallCmdline, RevertInv, EndRequest
  <1>4. RanInv'
    BY DEF InstallCmdline, TrackInv, RanInv, EndRequest
  <1> QED BY <1>1, <1>2, <1>3, <1>4 DEF TrackInv

(* TruncateConfig preserves TrackInv.                                      *)
LEMMA TruncateConfigTracks ==
  ASSUME IInv, TrackInv, TruncateConfig
  PROVE  TrackInv'
  <1>1. WriteInv'
    BY DEF TruncateConfig, TrackInv, WriteInv, HasBackup, Guarded, SyncedPc, stVars
  <1>2. StagedInv'
    BY DEF TruncateConfig, TrackInv, StagedInv, PromotedPc, RuntimePc, stVars
  <1>3. RevertInv'
    BY DEF TruncateConfig, RevertInv
  <1>4. RanInv'
    BY DEF TruncateConfig, TrackInv, RanInv
  <1> QED BY <1>1, <1>2, <1>3, <1>4 DEF TrackInv

(* WriteConfig preserves TrackInv.                                         *)
LEMMA WriteConfigTracks ==
  ASSUME IInv, TrackInv, WriteConfig
  PROVE  TrackInv'
  <1>1. WriteInv'
    BY DEF WriteConfig, TrackInv, WriteInv, Guarded, SyncedPc, stVars, EndRequest
  <1>2. StagedInv'
    BY DEF WriteConfig, TrackInv, StagedInv, PromotedPc, RuntimePc, stVars, EndRequest
  <1>3. RevertInv'
    BY DEF WriteConfig, RevertInv, EndRequest
  <1>4. RanInv'
    BY DEF WriteConfig, TrackInv, RanInv, EndRequest
  <1> QED BY <1>1, <1>2, <1>3, <1>4 DEF TrackInv

(* FinishBootFile preserves TrackInv.                                      *)
LEMMA FinishBootFileTracks ==
  ASSUME IInv, TrackInv, FinishBootFile
  PROVE  TrackInv'
  <1>1. WriteInv'
    BY DEF FinishBootFile, TrackInv, WriteInv, Guarded, SyncedPc, stVars, EndRequest
  <1>2. StagedInv'
    BY DEF FinishBootFile, TrackInv, StagedInv, PromotedPc, RuntimePc, stVars, EndRequest
  <1>3. RevertInv'
    BY DEF FinishBootFile, RevertInv, EndRequest
  <1>4. RanInv'
    BY DEF FinishBootFile, TrackInv, RanInv, EndRequest
  <1> QED BY <1>1, <1>2, <1>3, <1>4 DEF TrackInv

(* SyncBootFiles preserves TrackInv.                                       *)
LEMMA SyncBootFilesTracks ==
  ASSUME IInv, TrackInv, SyncBootFiles
  PROVE  TrackInv'
  <1>1. WriteInv'
    BY DEF SyncBootFiles, TrackInv, WriteInv, IInv, StoreInv, Guarded, SyncedPc, stVars, SyncAll
  <1>2. StagedInv'
    BY DEF SyncBootFiles, TrackInv, StagedInv, IInv, StoreInv, PromotedPc, RuntimePc, stVars,
       SyncAll
  <1>3. RevertInv'
    BY DEF SyncBootFiles, RevertInv
  <1>4. RanInv'
    BY DEF SyncBootFiles, TrackInv, RanInv
  <1> QED BY <1>1, <1>2, <1>3, <1>4 DEF TrackInv

(* StageProgram preserves TrackInv.                                        *)
LEMMA StageProgramTracks ==
  ASSUME IInv, TrackInv, StageProgram
  PROVE  TrackInv'
  <1>1. WriteInv'
    BY DEF StageProgram, WriteInv, SyncedPc, RuntimePc
  <1>2. StagedInv'
    BY DEF StageProgram, TrackInv, WriteInv, StagedInv, IInv, StoreInv, StateOK, Storage,
       HasBackup, Guarded, SyncedPc, PromotedPc, RuntimePc, Unsynced, Store
  <1>3. RevertInv'
    BY DEF StageProgram, RevertInv
  <1>4. RanInv'
    BY DEF StageProgram, RanInv, RuntimePc
  <1> QED BY <1>1, <1>2, <1>3, <1>4 DEF TrackInv

(* BeginRequest preserves TrackInv.                                        *)
LEMMA BeginRequestTracks ==
  ASSUME IInv, TrackInv, NEW k \in Kinds, NEW v \in Version, BeginRequest(k,v)
  PROVE  TrackInv'
  <1>1. WriteInv'
    BY DEF BeginRequest, TrackInv, WriteInv, Guarded, SyncedPc, RuntimePc, Unsynced, stVars,
       bootVars
  <1>2. StagedInv'
    BY DEF BeginRequest, TrackInv, StagedInv, PromotedPc, RuntimePc, stVars
  <1>3. RevertInv'
    BY DEF BeginRequest, RevertInv
  <1>4. RanInv'
    BY DEF BeginRequest, TrackInv, RanInv, RuntimePc, Unsynced, bootVars
  <1> QED BY <1>1, <1>2, <1>3, <1>4 DEF TrackInv

(* UserRestart preserves TrackInv.                                         *)
LEMMA UserRestartTracks ==
  ASSUME IInv, TrackInv, UserRestart
  PROVE  TrackInv'
  <1>1. WriteInv'
    BY DEF UserRestart, WriteInv, SyncedPc, RuntimePc
  <1>2. StagedInv'
    BY DEF UserRestart, TrackInv, StagedInv, PromotedPc, RuntimePc, stVars
  <1>3. RevertInv'
    BY DEF UserRestart, RevertInv
  <1>4. RanInv'
    BY DEF UserRestart, RanInv, RuntimePc
  <1> QED BY <1>1, <1>2, <1>3, <1>4 DEF TrackInv

(* DismissReport preserves TrackInv.                                       *)
LEMMA DismissReportTracks ==
  ASSUME IInv, TrackInv, DismissReport
  PROVE  TrackInv'
  <1>1. WriteInv'
    BY DEF DismissReport, WriteInv, Unsynced
  <1>2. StagedInv'
    BY DEF DismissReport, TrackInv, StagedInv, IInv, StoreInv, StoreSync
  <1>3. RevertInv'
    BY DEF DismissReport, RevertInv
  <1>4. RanInv'
    BY DEF DismissReport, TrackInv, RanInv, Unsynced
  <1> QED BY <1>1, <1>2, <1>3, <1>4 DEF TrackInv

(* PrepareFails preserves TrackInv.                                        *)
LEMMA PrepareFailsTracks ==
  ASSUME IInv, TrackInv, PrepareFails
  PROVE  TrackInv'
  <1>1. WriteInv'
    BY DEF PrepareFails, TrackInv, WriteInv, Guarded, SyncedPc, RuntimePc, Unsynced, stVars,
       bootVars, EndRequest
  <1>2. StagedInv'
    BY DEF PrepareFails, TrackInv, StagedInv, PromotedPc, RuntimePc, stVars, EndRequest
  <1>3. RevertInv'
    BY DEF PrepareFails, RevertInv, EndRequest
  <1>4. RanInv'
    BY DEF PrepareFails, TrackInv, RanInv, RuntimePc, Unsynced, bootVars, EndRequest
  <1> QED BY <1>1, <1>2, <1>3, <1>4 DEF TrackInv

(* InstallFails preserves TrackInv.                                        *)
LEMMA InstallFailsTracks ==
  ASSUME IInv, TrackInv, InstallFails
  PROVE  TrackInv'
  <1>1. WriteInv'
    BY DEF InstallFails, TrackInv, WriteInv, Guarded, SyncedPc, stVars, EndRequest
  <1>2. StagedInv'
    BY DEF InstallFails, TrackInv, StagedInv, PromotedPc, RuntimePc, stVars, EndRequest
  <1>3. RevertInv'
    BY DEF InstallFails, RevertInv, EndRequest
  <1>4. RanInv'
    BY DEF InstallFails, TrackInv, RanInv, EndRequest
  <1> QED BY <1>1, <1>2, <1>3, <1>4 DEF TrackInv

(* RuntimeFails preserves TrackInv.                                        *)
LEMMA RuntimeFailsTracks ==
  ASSUME IInv, TrackInv, RuntimeFails
  PROVE  TrackInv'
  <1>1. WriteInv'
    BY DEF RuntimeFails, TrackInv, WriteInv, Guarded, SyncedPc, Unsynced, stVars, bootVars
  <1>2. StagedInv'
    BY DEF RuntimeFails, TrackInv, StagedInv, IInv, StoreInv, StateOK, Storage, PromotedPc,
       stVars, Store
  <1>3. RevertInv'
    BY DEF RuntimeFails, RevertInv
  <1>4. RanInv'
    BY DEF RuntimeFails, RanInv, RuntimePc, NoFlags
  <1> QED BY <1>1, <1>2, <1>3, <1>4 DEF TrackInv

(* PowerLoss preserves TrackInv.                                           *)
LEMMA PowerLossTracks ==
  ASSUME IInv, TrackInv, PowerLoss
  PROVE  TrackInv'
  <1>1. WriteInv'
    BY DEF PowerLoss, WriteInv, Unsynced
  <1>2. StagedInv'
    BY DEF PowerLoss, TrackInv, StagedInv, PromotedPc, RuntimePc
  <1>3. RevertInv'
    BY DEF PowerLoss, RevertInv
  <1>4. RanInv'
    BY DEF PowerLoss, RanInv, RuntimePc
  <1> QED BY <1>1, <1>2, <1>3, <1>4 DEF TrackInv

(* Nothing is written before the machine starts.                           *)
LEMMA InitTracks == Init => TrackInv
  <1> SUFFICES ASSUME Init PROVE TrackInv
    OBVIOUS
  <1>1. st.staged = Absent
    BY DEF Init
  <1>2. WriteInv
    BY DEF Init, WriteInv, Unsynced, RuntimePc
  <1>3. StagedInv
    BY <1>1 DEF Init, StagedInv
  <1>4. RevertInv
    BY DEF Init, RevertInv
  <1>5. RanInv
    BY DEF Init, RanInv, RuntimePc
  <1> QED BY <1>2, <1>3, <1>4, <1>5 DEF TrackInv

(* A stuttering step keeps it.                                             *)
LEMMA StutterTracks == TrackInv /\ UNCHANGED vars => TrackInv'
  <1> SUFFICES ASSUME TrackInv, UNCHANGED vars PROVE TrackInv'
    OBVIOUS
  <1> USE DEF vars, TrackInv, HasBackup
  <1>1. WriteInv'
    BY DEF WriteInv, Unsynced, Guarded
  <1>2. StagedInv'
    BY DEF StagedInv
  <1>3. RevertInv'
    BY DEF RevertInv
  <1>4. RanInv'
    BY DEF RanInv, Unsynced, BootSet, KernelOf
  <1> QED BY <1>1, <1>2, <1>3, <1>4

(* Every step keeps it.                                                    *)
LEMMA NextTracks == IInv /\ TrackInv /\ [Next]_vars => TrackInv'
  <1> SUFFICES ASSUME IInv, TrackInv, [Next]_vars PROVE TrackInv'
    OBVIOUS
  <1>1. CASE Bootloader
    BY <1>1, FirmwareLoadsTracks, NoStagedProgramTracks, UnlinkOldProgramTracks,
       PromoteStagedTracks,
       UnstageProgramTracks, PromotionFailsTracks, RebootTracks, BeginNormalBootTracks,
       CountAttemptTracks, EnterTrialTracks, DecideRevertTracks, TrialMountFailsTracks,
       StartRuntimeTracks
    DEF Bootloader
  <1>2. CASE Revert
    BY <1>2, WriteReportTracks, RestoreFileTracks, RestoreFailedTracks, RestoreCompleteTracks,
       RevertDropsBackupTracks, RevertSyncsStateTracks
    DEF Revert
  <1>3. CASE Confirmation
    BY <1>3, ConfirmTracks, ConfirmDropsBackupTracks, ConfirmSyncsStateTracks,
       LeaveTrialToNextBootTracks
    DEF Confirmation
  <1>4. CASE Serve
    BY <1>4, PrepareBackupTracks, ArmTrialTracks, InstallFileTracks, InstallCmdlineTracks,
       TruncateConfigTracks, WriteConfigTracks, FinishBootFileTracks, SyncBootFilesTracks,
       StageProgramTracks
    DEF Serve
  <1>5. CASE User
    BY <1>5, BeginRequestTracks, UserRestartTracks, DismissReportTracks
    DEF User
  <1>6. CASE Failure
    BY <1>6, PrepareFailsTracks, InstallFailsTracks, RuntimeFailsTracks, PowerLossTracks
    DEF Failure
  <1>7. CASE UNCHANGED vars
    BY <1>7, StutterTracks
  <1> QED BY <1>1, <1>2, <1>3, <1>4, <1>5, <1>6, <1>7 DEF Next

(* Writes to boot files are tracked in every reachable state.              *)
THEOREM Tracking == Spec => []TrackInv
  BY InitTracks, NextTracks, InitInv, NextInv, PTL DEF Spec

(* Write ahead: outside a revert no boot file is in doubt unless the trial *)
(* and the backup are on disk whatever a power loss leaves                 *)
(* (handleUpdateUpload, handleBootConfig, applyStagedProgramUpdate).       *)
THEOREM BootWritesAreTracked == Spec => []NoUntrackedBootWrite
  <1>1. IInv /\ TrackInv => NoUntrackedBootWrite
    BY DEF IInv, RestInv, TrackInv, WriteInv, RevertInv, NoUntrackedBootWrite, Reverting, Guarded,
           SyncedPc, Pc, RuntimePc
  <1> QED BY <1>1, Tracking, Invariance, PTL

(* What bootRecoveryConfirm confirms is what the firmware loaded, and not  *)
(* an update armed during this boot.                                       *)
THEOREM WhatRanIsConfirmed == Spec => ConfirmsWhatRan
  <1>1. TrackInv /\ Confirm => BootSet(boot) = running
    BY DEF TrackInv, RanInv, Confirm, RuntimePc
  <1>2. TrackInv /\ [Next]_vars => [Confirm => BootSet(boot) = running]_vars
    BY <1>1
  <1> QED BY <1>2, Tracking, PTL DEF Spec, ConfirmsWhatRan

-----------------------------------------------------------------------------
(* A complete boot set: what a confirmed image left on the boot partition. *)
GoodSet == [kernel : Version, loader : Version, program : Version,
            cmdline : Version, config : Version]

(* Backup d brings back boot set g and writes nothing that is torn.        *)
Holds(d, g) ==
  /\ d["config"] = g.config /\ d["loader"] = g.loader
  /\ d["program"] = g.program /\ d["cmdline"] = g.cmdline
  /\ d[KernelFileOf[g.config]] = g.kernel
  /\ \A f \in BootFile : d[f] # Torn

(* Outcome s of a power loss has the good set, or the means to restore it. *)
SoundStore(s) ==
  /\ s.trial = NoTrial => BootSet(boot) = s.good
  /\ s.trial # NoTrial => Holds(s.backup, s.good)
  /\ bootDur[KernelFileOf[s.good.config]] \subseteq Version

(* A backup without a trial is a copy of the boot files.                   *)
FreshInv ==
  st.trial = NoTrial /\ HasBackup(st) /\ pc \notin {"confirmdrop", "revertdrop"}
    => st.backup = Snapshot(boot)

(* The files a revert has behind it are those of the backup.               *)
RestoredInv ==
  pc = "restore" =>
    /\ todo \subseteq BackupFiles(st)
    /\ ~failed => \A f \in BackupFiles(st) \ todo : boot[f] = st.backup[f]

(* Whatever a power loss leaves of either partition, the good boot set is  *)
(* there or can be restored, and the firmware finds a kernel.              *)
CardInv == /\ \A s \in stDur : SoundStore(s)
           /\ bootDur["loader"] \subseteq Version
           /\ FreshInv
           /\ RestoredInv

GoodInv == \A s \in stDur : s.good \in GoodSet

(* The invariant of what a revert restores, as long as no power loss has   *)
(* hit one of the two windows that cut records, the restored files before  *)
(* their sync and the removal of the backup.                               *)
SetInv == GoodInv /\ (cut = {} => CardInv)

-----------------------------------------------------------------------------
(* Nothing that matters to SoundStore tells u from s.                      *)
Alike(u, s) == /\ u.good = s.good /\ u.backup = s.backup
               /\ u.trial = NoTrial <=> s.trial = NoTrial

(* A good boot set names the kernel it boots.                              *)
LEMMA GoodKernel ==
  ASSUME NEW b, BootSet(b) \in GoodSet
  PROVE  /\ KernelOf(b) = KernelFileOf[BootSet(b).config]
         /\ b[KernelOf(b)] \in Version /\ b["config"] \in Version
         /\ b["loader"] \in Version /\ b["program"] \in Version
         /\ b["cmdline"] \in Version
  <1>1. /\ BootSet(b).kernel = b[KernelOf(b)] /\ BootSet(b).config = b["config"]
        /\ BootSet(b).loader = b["loader"] /\ BootSet(b).program = b["program"]
        /\ BootSet(b).cmdline = b["cmdline"]
    BY DEF BootSet
  <1>2. /\ BootSet(b).kernel \in Version /\ BootSet(b).config \in Version
        /\ BootSet(b).loader \in Version /\ BootSet(b).program \in Version
        /\ BootSet(b).cmdline \in Version
    BY DEF GoodSet
  <1> QED BY <1>1, <1>2 DEF KernelOf

(* A copy of a good boot set restores it.                                  *)
LEMMA SnapshotHolds ==
  ASSUME NEW b \in [BootFile -> Content], BootSet(b) \in GoodSet
  PROVE  Holds(Snapshot(b), BootSet(b))
  <1> DEFINE fixed == {"loader", "program", "cmdline", "config", KernelOf(b)}
  <1>1. KernelOf(b) \in KernelFile /\ VersionFile \notin fixed
    BY KernelOfType, ConstantsAssumption DEF VersionFile
  <1>2. fixed \subseteq BackupName /\ BootFile \subseteq BackupName
    BY <1>1 DEF BackupName, BootFile
  <1>3. \A f \in fixed : Snapshot(b)[f] = b[f]
    BY <1>1, <1>2 DEF Snapshot
  <1>4. \A f \in BootFile \ fixed : Snapshot(b)[f] = Absent
    <2>1. VersionFile \notin BootFile
      BY ConstantsAssumption DEF BootFile, VersionFile
    <2> QED BY <1>2, <2>1 DEF Snapshot
  <1>5. \A f \in fixed : b[f] \in Version
    BY GoodKernel
  <1>6. \A f \in BootFile : Snapshot(b)[f] # Torn
    BY <1>3, <1>4, <1>5, ConstantsAssumption
  <1> QED BY <1>3, <1>6, GoodKernel DEF Holds, BootSet

(* Laying a backup that holds a good set over any boot files gives it.     *)
LEMMA HoldsRestores ==
  ASSUME NEW d, NEW g \in GoodSet, Holds(d, g), NEW b,
         \A f \in BootFile : d[f] # Absent => b[f] = d[f]
  PROVE  BootSet(b) = g
  <1>1. /\ g.kernel \in Version /\ g.loader \in Version /\ g.program \in Version
        /\ g.cmdline \in Version /\ g.config \in Version
    BY DEF GoodSet
  <1>2. KernelFileOf[g.config] \in BootFile
    BY <1>1 DEF BootFile, KernelFile
  <1>3. /\ b["config"] = g.config /\ b["loader"] = g.loader
        /\ b["program"] = g.program /\ b["cmdline"] = g.cmdline
        /\ b[KernelFileOf[g.config]] = g.kernel
    BY <1>1, <1>2, ConstantsAssumption DEF Holds, BootFile
  <1>4. KernelOf(b) = KernelFileOf[g.config]
    BY <1>1, <1>3 DEF KernelOf
  <1> QED BY <1>3, <1>4 DEF BootSet, GoodSet

(* A backup that holds a good set restores versions.                       *)
LEMMA HoldsVersions ==
  ASSUME NEW s \in Storage, NEW g, Holds(s.backup, g), NEW f \in BackupFiles(s)
  PROVE  s.backup[f] \in Version
  BY DEF BackupFiles, Storage, Holds, Content, BackupName

-----------------------------------------------------------------------------
(* Steps that write no boot file and change neither trial, backup nor good *)
(* set in any outcome.                                                     *)
LEMMA AlikeSound ==
  ASSUME SetInv, UNCHANGED <<boot, cut>>,
         \A f \in BootFile : bootDur'[f] \subseteq bootDur[f],
         \A u \in stDur' : \E s \in stDur : Alike(u, s),
         cut = {} => FreshInv' /\ RestoredInv'
  PROVE  SetInv'
  <1>1. GoodInv'
    BY DEF SetInv, GoodInv, Alike
  <1>2. ASSUME cut' = {} PROVE CardInv'
    <2>1. CardInv /\ FreshInv' /\ RestoredInv'
      BY <1>2 DEF SetInv
    <2>2. bootDur'["loader"] \subseteq Version
      BY <2>1 DEF CardInv, BootFile
    <2>3. ASSUME NEW u \in stDur' PROVE SoundStore(u)'
      <3>1. PICK s \in stDur : Alike(u, s)
        OBVIOUS
      <3>2. SoundStore(s) /\ s.good \in GoodSet
        BY <2>1 DEF CardInv, SetInv, GoodInv
      <3>3. KernelFileOf[s.good.config] \in BootFile
        BY <3>2 DEF GoodSet, BootFile, KernelFile
      <3> QED BY <3>1, <3>2, <3>3 DEF SoundStore, Alike
    <2> QED BY <2>1, <2>2, <2>3 DEF CardInv
  <1> QED BY <1>1, <1>2 DEF SetInv

(* Steps that write nothing.                                               *)
LEMMA QuietSound ==
  ASSUME SetInv, UNCHANGED <<bootVars, stVars, cut>>, pc' # "restore",
         pc \in {"confirmdrop", "revertdrop"} => pc' = pc
  PROVE  SetInv'
  <1>1. cut = {} => FreshInv' /\ RestoredInv'
    BY DEF SetInv, CardInv, FreshInv, RestoredInv, HasBackup, bootVars, stVars
  <1>2. UNCHANGED <<boot, cut>> /\ bootDur' = bootDur /\ stDur' = stDur
    BY DEF bootVars, stVars
  <1> QED BY <1>1, <1>2, AlikeSound DEF Alike

(* Writes to a boot file while every outcome has a trial.                  *)
LEMMA GuardedSound ==
  ASSUME SetInv, Guarded, UNCHANGED <<stVars, cut>>, 
         NEW f \in BootFile, NEW c, BootWrite(f, c) \/ BootWriteSync(f, c),
         bootDur \in [BootFile -> SUBSET Content], st \in stDur,
         cut = {} => (c \in Version \/ f \notin KernelFile \cup {"loader"}) /\ RestoredInv'
  PROVE  SetInv'
  <1>1. GoodInv'
    BY DEF SetInv, GoodInv, stVars
  <1>2. ASSUME cut' = {} PROVE CardInv'
    <2>1. CardInv /\ RestoredInv' /\ (c \in Version \/ f \notin KernelFile \cup {"loader"})
      BY <1>2 DEF SetInv
    <2>2. \A g \in KernelFile \cup {"loader"} :
             bootDur[g] \subseteq Version => bootDur'[g] \subseteq Version
      <3>1. TAKE g \in KernelFile \cup {"loader"}
      <3>2. HAVE bootDur[g] \subseteq Version
      <3>3. g \in BootFile
        BY DEF BootFile
      <3>4. CASE g = f
        <4>1. c \in Version
          BY <2>1, <3>4
        <4>2. bootDur'[g] \subseteq bootDur[g] \cup {c}
          BY <3>3, <3>4 DEF BootWrite, BootWriteSync
        <4> QED BY <3>2, <4>1, <4>2
      <3>5. CASE g # f
        <4>1. bootDur'[g] = bootDur[g]
          BY <3>3, <3>5 DEF BootWrite, BootWriteSync
        <4> QED BY <3>2, <4>1
      <3> QED BY <3>4, <3>5
    <2>3. bootDur'["loader"] \subseteq Version
      BY <2>1, <2>2 DEF CardInv
    <2>4. ASSUME NEW s \in stDur' PROVE SoundStore(s)'
      <3>1. s \in stDur /\ s.trial # NoTrial /\ SoundStore(s) /\ s.good \in GoodSet
        BY <2>1 DEF CardInv, SetInv, GoodInv, stVars, Guarded
      <3>2. KernelFileOf[s.good.config] \in KernelFile
        BY <3>1 DEF GoodSet, KernelFile
      <3> QED BY <2>2, <3>1, <3>2 DEF SoundStore
    <2>5. FreshInv'
      BY DEF FreshInv, Guarded, stVars
    <2> QED BY <2>1, <2>3, <2>4, <2>5 DEF CardInv
  <1> QED BY <1>1, <1>2 DEF SetInv

-----------------------------------------------------------------------------
(* FirmwareLoads keeps what a revert restores.                             *)
LEMMA FirmwareLoadsSound ==
  ASSUME IInv, TrackInv, SetInv, FirmwareLoads
  PROVE  SetInv'
  BY QuietSound DEF FirmwareLoads, envVars

(* NoStagedProgram keeps what a revert restores.                           *)
LEMMA NoStagedProgramSound ==
  ASSUME IInv, TrackInv, SetInv, NoStagedProgram
  PROVE  SetInv'
  BY QuietSound DEF NoStagedProgram, envVars

(* PromotionFails keeps what a revert restores.                            *)
LEMMA PromotionFailsSound ==
  ASSUME IInv, TrackInv, SetInv, PromotionFails
  PROVE  SetInv'
  BY QuietSound DEF PromotionFails, envVars

(* BeginNormalBoot keeps what a revert restores.                           *)
LEMMA BeginNormalBootSound ==
  ASSUME IInv, TrackInv, SetInv, BeginNormalBoot
  PROVE  SetInv'
  BY QuietSound DEF BeginNormalBoot, envVars

(* UnstageProgram keeps what a revert restores.                            *)
LEMMA UnstageProgramSound ==
  ASSUME IInv, TrackInv, SetInv, UnstageProgram
  PROVE  SetInv'
  <1>s. st \in stDur /\ st \in Storage
    BY DEF IInv, StoreInv, StateOK
  <1>1. UNCHANGED <<boot, cut>> /\ \A f \in BootFile : bootDur'[f] \subseteq bootDur[f]
    BY DEF UnstageProgram, IInv, BootInv, bootVars, envVars
  <1>2. \A u \in stDur' : \E s \in stDur : Alike(u, s)
    BY <1>s DEF UnstageProgram, Alike, Store, Storage, stVars
  <1>3. cut = {} => FreshInv' /\ RestoredInv'
    BY <1>s DEF UnstageProgram, SetInv, CardInv, FreshInv, RestoredInv, HasBackup, Storage, Store,
       StoreSync, SyncAll, stVars, bootVars, TrackInv, RevertInv
  <1> QED BY <1>1, <1>2, <1>3, AlikeSound

(* Reboot keeps what a revert restores.                                    *)
LEMMA RebootSound ==
  ASSUME IInv, TrackInv, SetInv, Reboot
  PROVE  SetInv'
  <1>1. UNCHANGED <<boot, cut>> /\ \A f \in BootFile : bootDur'[f] \subseteq bootDur[f]
    BY DEF Reboot, IInv, BootInv, bootVars, envVars, SyncAll
  <1>2. \A u \in stDur' : \E s \in stDur : Alike(u, s)
    BY DEF Reboot, SyncAll, Alike, IInv, StoreInv
  <1>3. cut = {} => FreshInv' /\ RestoredInv'
    BY DEF Reboot, SyncAll, SetInv, CardInv, FreshInv, RestoredInv, HasBackup
  <1> QED BY <1>1, <1>2, <1>3, AlikeSound

(* CountAttempt keeps what a revert restores.                              *)
LEMMA CountAttemptSound ==
  ASSUME IInv, TrackInv, SetInv, CountAttempt
  PROVE  SetInv'
  <1>s. st \in stDur /\ st \in Storage
    BY DEF IInv, StoreInv, StateOK
  <1>1. UNCHANGED <<boot, cut>> /\ \A f \in BootFile : bootDur'[f] \subseteq bootDur[f]
    BY DEF CountAttempt, IInv, BootInv, bootVars, envVars
  <1>2. \A u \in stDur' : \E s \in stDur : Alike(u, s)
    BY <1>s, ConstantsAssumption DEF CountAttempt, Alike, StoreSync, Storage, NoTrial
  <1>3. cut = {} => FreshInv' /\ RestoredInv'
    BY <1>s DEF CountAttempt, SetInv, CardInv, FreshInv, RestoredInv, HasBackup, Storage, Store,
       StoreSync, SyncAll, stVars, bootVars, TrackInv, RevertInv, NoTrial
  <1> QED BY <1>1, <1>2, <1>3, AlikeSound

(* EnterTrial keeps what a revert restores.                                *)
LEMMA EnterTrialSound ==
  ASSUME IInv, TrackInv, SetInv, EnterTrial
  PROVE  SetInv'
  <1>s. st \in stDur /\ st \in Storage
    BY DEF IInv, StoreInv, StateOK
  <1>1. UNCHANGED <<boot, cut>> /\ \A f \in BootFile : bootDur'[f] \subseteq bootDur[f]
    BY DEF EnterTrial, IInv, BootInv, bootVars, envVars
  <1>2. \A u \in stDur' : \E s \in stDur : Alike(u, s)
    BY <1>s, ConstantsAssumption DEF EnterTrial, Alike, StoreSync, Storage, NoTrial
  <1>3. cut = {} => FreshInv' /\ RestoredInv'
    BY <1>s DEF EnterTrial, SetInv, CardInv, FreshInv, RestoredInv, HasBackup, Storage, Store,
       StoreSync, SyncAll, stVars, bootVars, TrackInv, RevertInv, NoTrial
  <1> QED BY <1>1, <1>2, <1>3, AlikeSound

(* DecideRevert keeps what a revert restores.                              *)
LEMMA DecideRevertSound ==
  ASSUME IInv, TrackInv, SetInv, DecideRevert
  PROVE  SetInv'
  BY QuietSound DEF DecideRevert, envVars

(* TrialMountFails keeps what a revert restores.                           *)
LEMMA TrialMountFailsSound ==
  ASSUME IInv, TrackInv, SetInv, TrialMountFails
  PROVE  SetInv'
  BY QuietSound DEF TrialMountFails, envVars

(* StartRuntime keeps what a revert restores.                              *)
LEMMA StartRuntimeSound ==
  ASSUME IInv, TrackInv, SetInv, StartRuntime
  PROVE  SetInv'
  BY QuietSound DEF StartRuntime, envVars

(* WriteReport keeps what a revert restores.                               *)
LEMMA WriteReportSound ==
  ASSUME IInv, TrackInv, SetInv, WriteReport
  PROVE  SetInv'
  <1>s. st \in stDur /\ st \in Storage
    BY DEF IInv, StoreInv, StateOK
  <1>1. UNCHANGED <<boot, cut>> /\ \A f \in BootFile : bootDur'[f] \subseteq bootDur[f]
    BY DEF WriteReport, IInv, BootInv, bootVars, envVars
  <1>2. \A u \in stDur' : \E s \in stDur : Alike(u, s)
    BY <1>s DEF WriteReport, Alike, StoreSync, Storage, stVars
  <1>3. cut = {} => FreshInv' /\ RestoredInv'
    BY <1>s DEF WriteReport, SetInv, CardInv, FreshInv, RestoredInv, BackupFiles, HasBackup,
       Storage, StoreSync, stVars, bootVars
  <1> QED BY <1>1, <1>2, <1>3, AlikeSound

(* RestoreFailed keeps what a revert restores.                             *)
LEMMA RestoreFailedSound ==
  ASSUME IInv, TrackInv, SetInv, RestoreFailed
  PROVE  SetInv'
  <1>1. UNCHANGED <<boot, cut>> /\ \A f \in BootFile : bootDur'[f] \subseteq bootDur[f]
    BY DEF RestoreFailed, IInv, BootInv, bootVars, envVars, SyncAll
  <1>2. \A u \in stDur' : \E s \in stDur : Alike(u, s)
    BY DEF RestoreFailed, SyncAll, Alike, IInv, StoreInv
  <1>3. cut = {} => FreshInv' /\ RestoredInv'
    BY DEF RestoreFailed, SyncAll, SetInv, CardInv, FreshInv, RestoredInv, HasBackup
  <1> QED BY <1>1, <1>2, <1>3, AlikeSound

(* RevertSyncsState keeps what a revert restores.                          *)
LEMMA RevertSyncsStateSound ==
  ASSUME IInv, TrackInv, SetInv, RevertSyncsState
  PROVE  SetInv'
  <1>s. st \in stDur /\ st \in Storage
    BY DEF IInv, StoreInv, StateOK
  <1>1. UNCHANGED <<boot, cut>> /\ \A f \in BootFile : bootDur'[f] \subseteq bootDur[f]
    BY DEF RevertSyncsState, IInv, BootInv, bootVars, envVars
  <1>2. \A u \in stDur' : \E s \in stDur : Alike(u, s)
    BY <1>s DEF RevertSyncsState, Alike, StoreSync
  <1>3. cut = {} => FreshInv' /\ RestoredInv'
    BY <1>s DEF RevertSyncsState, SetInv, CardInv, FreshInv, RestoredInv, HasBackup, Storage,
       Store, StoreSync, SyncAll, stVars, bootVars, TrackInv, RevertInv
  <1> QED BY <1>1, <1>2, <1>3, AlikeSound

(* ConfirmSyncsState keeps what a revert restores.                         *)
LEMMA ConfirmSyncsStateSound ==
  ASSUME IInv, TrackInv, SetInv, ConfirmSyncsState
  PROVE  SetInv'
  <1>s. st \in stDur /\ st \in Storage
    BY DEF IInv, StoreInv, StateOK
  <1>1. UNCHANGED <<boot, cut>> /\ \A f \in BootFile : bootDur'[f] \subseteq bootDur[f]
    BY DEF ConfirmSyncsState, IInv, BootInv, bootVars, envVars
  <1>2. \A u \in stDur' : \E s \in stDur : Alike(u, s)
    BY <1>s DEF ConfirmSyncsState, Alike, StoreSync
  <1>3. cut = {} => FreshInv' /\ RestoredInv'
    BY <1>s DEF ConfirmSyncsState, SetInv, CardInv, FreshInv, RestoredInv, HasBackup, Storage,
       Store, StoreSync, SyncAll, stVars, bootVars, TrackInv, RevertInv
  <1> QED BY <1>1, <1>2, <1>3, AlikeSound

(* LeaveTrialToNextBoot keeps what a revert restores.                      *)
LEMMA LeaveTrialToNextBootSound ==
  ASSUME IInv, TrackInv, SetInv, LeaveTrialToNextBoot
  PROVE  SetInv'
  BY QuietSound DEF LeaveTrialToNextBoot, envVars

(* BeginRequest keeps what a revert restores.                              *)
LEMMA BeginRequestSound ==
  ASSUME IInv, TrackInv, SetInv, NEW k \in Kinds, NEW v \in Version, BeginRequest(k, v)
  PROVE  SetInv'
  BY QuietSound DEF BeginRequest, envVars

(* PrepareFails keeps what a revert restores.                              *)
LEMMA PrepareFailsSound ==
  ASSUME IInv, TrackInv, SetInv, PrepareFails
  PROVE  SetInv'
  BY QuietSound DEF PrepareFails, envVars, EndRequest

(* InstallFails keeps what a revert restores.                              *)
LEMMA InstallFailsSound ==
  ASSUME IInv, TrackInv, SetInv, InstallFails
  PROVE  SetInv'
  BY QuietSound DEF InstallFails, envVars, EndRequest

(* UserRestart keeps what a revert restores.                               *)
LEMMA UserRestartSound ==
  ASSUME IInv, TrackInv, SetInv, UserRestart
  PROVE  SetInv'
  BY QuietSound DEF UserRestart, envVars

(* FinishBootFile keeps what a revert restores.                            *)
LEMMA FinishBootFileSound ==
  ASSUME IInv, TrackInv, SetInv, FinishBootFile
  PROVE  SetInv'
  BY QuietSound DEF FinishBootFile, envVars, EndRequest

(* SyncBootFiles keeps what a revert restores.                             *)
LEMMA SyncBootFilesSound ==
  ASSUME IInv, TrackInv, SetInv, SyncBootFiles
  PROVE  SetInv'
  <1>1. UNCHANGED <<boot, cut>> /\ \A f \in BootFile : bootDur'[f] \subseteq bootDur[f]
    BY DEF SyncBootFiles, IInv, BootInv, bootVars, envVars, SyncAll
  <1>2. \A u \in stDur' : \E s \in stDur : Alike(u, s)
    BY DEF SyncBootFiles, SyncAll, Alike, IInv, StoreInv, stVars
  <1>3. cut = {} => FreshInv' /\ RestoredInv'
    BY DEF SyncBootFiles, SyncAll, SetInv, CardInv, FreshInv, RestoredInv, HasBackup, stVars,
       bootVars
  <1> QED BY <1>1, <1>2, <1>3, AlikeSound

(* StageProgram keeps what a revert restores.                              *)
LEMMA StageProgramSound ==
  ASSUME IInv, TrackInv, SetInv, StageProgram
  PROVE  SetInv'
  <1>s. st \in stDur /\ st \in Storage
    BY DEF IInv, StoreInv, StateOK
  <1>1. UNCHANGED <<boot, cut>> /\ \A f \in BootFile : bootDur'[f] \subseteq bootDur[f]
    BY DEF StageProgram, IInv, BootInv, bootVars, envVars
  <1>2. \A u \in stDur' : \E s \in stDur : Alike(u, s)
    BY <1>s DEF StageProgram, Alike, Store, Storage
  <1>3. cut = {} => FreshInv' /\ RestoredInv'
    BY <1>s DEF StageProgram, SetInv, CardInv, FreshInv, RestoredInv, HasBackup, Storage, Store,
       StoreSync, SyncAll, stVars, bootVars, TrackInv, RevertInv
  <1> QED BY <1>1, <1>2, <1>3, AlikeSound

(* DismissReport keeps what a revert restores.                             *)
LEMMA DismissReportSound ==
  ASSUME IInv, TrackInv, SetInv, DismissReport
  PROVE  SetInv'
  <1>s. st \in stDur /\ st \in Storage
    BY DEF IInv, StoreInv, StateOK
  <1>1. UNCHANGED <<boot, cut>> /\ \A f \in BootFile : bootDur'[f] \subseteq bootDur[f]
    BY DEF DismissReport, IInv, BootInv, bootVars, envVars
  <1>2. \A u \in stDur' : \E s \in stDur : Alike(u, s)
    BY <1>s DEF DismissReport, Alike, StoreSync, Storage
  <1>3. cut = {} => FreshInv' /\ RestoredInv'
    BY <1>s DEF DismissReport, SetInv, CardInv, FreshInv, RestoredInv, HasBackup, Storage, Store,
       StoreSync, SyncAll, stVars, bootVars, TrackInv, RevertInv
  <1> QED BY <1>1, <1>2, <1>3, AlikeSound

-----------------------------------------------------------------------------
(* The installed runtime goes while a trial is pending.                    *)
LEMMA UnlinkOldProgramSound ==
  ASSUME IInv, TrackInv, SetInv, UnlinkOldProgram
  PROVE  SetInv'
  <1>1. stDur = {st} /\ st.trial # NoTrial
    BY DEF UnlinkOldProgram, TrackInv, WriteInv, StagedInv, IInv, StoreInv
  <1>2. Guarded
    BY <1>1 DEF Guarded, IInv, StoreInv, StateOK
  <1>3. RestoredInv' /\ UNCHANGED <<stVars, cut>>
    BY DEF UnlinkOldProgram, RestoredInv, envVars
  <1>4. "program" \in BootFile /\ "program" \notin KernelFile \cup {"loader"}
    BY ConstantsAssumption DEF BootFile
  <1> QED BY <1>2, <1>3, <1>4, GuardedSound DEF UnlinkOldProgram, IInv, BootInv, StoreInv

(* The staged runtime comes while a trial is pending.                      *)
LEMMA PromoteStagedSound ==
  ASSUME IInv, TrackInv, SetInv, PromoteStaged
  PROVE  SetInv'
  <1>1. stDur = {st} /\ st.trial # NoTrial
    BY DEF PromoteStaged, TrackInv, WriteInv, StagedInv, IInv, StoreInv
  <1>2. Guarded
    BY <1>1 DEF Guarded, IInv, StoreInv, StateOK
  <1>3. RestoredInv' /\ UNCHANGED <<stVars, cut>>
    BY DEF PromoteStaged, RestoredInv, envVars
  <1>4. "program" \in BootFile /\ "program" \notin KernelFile \cup {"loader"}
    BY ConstantsAssumption DEF BootFile
  <1> QED BY <1>2, <1>3, <1>4, GuardedSound DEF PromoteStaged, IInv, BootInv, StoreInv

(* A boot file is installed after the trial was armed.                     *)
LEMMA InstallFileSound ==
  ASSUME IInv, TrackInv, SetInv, NEW f \in BootFile, InstallFile(f)
  PROVE  SetInv'
  <1>1. Guarded /\ req.ver \in Version
    BY DEF InstallFile, TrackInv, WriteInv, IInv, RestInv
  <1>2. RestoredInv' /\ UNCHANGED <<stVars, cut>>
    BY DEF InstallFile, RestoredInv, envVars
  <1> QED BY <1>1, <1>2, GuardedSound DEF InstallFile, IInv, BootInv, StoreInv

(* cmdline.txt is replaced after the trial was armed.                      *)
LEMMA InstallCmdlineSound ==
  ASSUME IInv, TrackInv, SetInv, InstallCmdline
  PROVE  SetInv'
  <1>1. Guarded /\ req.ver \in Version
    BY DEF InstallCmdline, TrackInv, WriteInv, IInv, RestInv
  <1>2. RestoredInv' /\ UNCHANGED <<stVars, cut>>
    BY DEF InstallCmdline, RestoredInv, envVars, EndRequest
  <1>3. "cmdline" \in BootFile
    BY DEF BootFile
  <1> QED BY <1>1, <1>2, <1>3, GuardedSound DEF InstallCmdline, IInv, BootInv, StoreInv

(* config.txt is torn while a trial is pending; no kernel or loader is.    *)
LEMMA TruncateConfigSound ==
  ASSUME IInv, TrackInv, SetInv, TruncateConfig
  PROVE  SetInv'
  <1>1. Guarded
    BY DEF TruncateConfig, TrackInv, WriteInv
  <1>2. RestoredInv' /\ UNCHANGED <<stVars, cut>>
    BY DEF TruncateConfig, RestoredInv, envVars
  <1>3. "config" \in BootFile /\ "config" \notin KernelFile \cup {"loader"}
    BY ConstantsAssumption DEF BootFile
  <1> QED BY <1>1, <1>2, <1>3, GuardedSound DEF TruncateConfig, IInv, BootInv, StoreInv

(* config.txt is written while a trial is pending.                         *)
LEMMA WriteConfigSound ==
  ASSUME IInv, TrackInv, SetInv, WriteConfig
  PROVE  SetInv'
  <1>1. Guarded /\ req.ver \in Version
    BY DEF WriteConfig, TrackInv, WriteInv, IInv, RestInv
  <1>2. RestoredInv' /\ UNCHANGED <<stVars, cut>>
    BY DEF WriteConfig, RestoredInv, envVars, EndRequest
  <1>3. "config" \in BootFile
    BY DEF BootFile
  <1> QED BY <1>1, <1>2, <1>3, GuardedSound DEF WriteConfig, IInv, BootInv, StoreInv

(* A revert writes versions, and what it has behind it is as the backup    *)
(* has it unless a write failed.                                           *)
LEMMA RestoreFileSound ==
  ASSUME IInv, TrackInv, SetInv, NEW f \in BootFile, RestoreFile(f)
  PROVE  SetInv'
  <1>1. stDur = {st} /\ st.trial # NoTrial /\ st \in Storage
    BY DEF RestoreFile, TrackInv, WriteInv, RevertInv, IInv, StoreInv, StateOK
  <1>2. Guarded
    BY <1>1 DEF Guarded, IInv, StoreInv, StateOK
  <1>3. UNCHANGED <<stVars, cut>> /\ boot \in [BootFile -> Content]
    BY DEF RestoreFile, IInv, BootInv
  <1>4. ASSUME cut = {} PROVE st.backup[f] \in Version /\ RestoredInv'
    <2>1. RestoredInv /\ Holds(st.backup, st.good)
      BY <1>1, <1>4 DEF SetInv, CardInv, SoundStore
    <2>2. st.backup[f] \in Version
      BY <1>1, <2>1, HoldsVersions DEF RestoredInv, RestoreFile
    <2>3. BackupFiles(st') = BackupFiles(st) /\ todo' \subseteq BackupFiles(st)
      BY <1>3, <2>1 DEF RestoredInv, RestoreFile, stVars
    <2>4. ASSUME ~failed', NEW g \in BackupFiles(st) \ todo'
          PROVE  boot'[g] = st.backup[g]
      <3>1. ~failed /\ BootWrite(f, st.backup[f])
        BY <2>4 DEF RestoreFile
      <3>2. g \in BootFile
        BY DEF BackupFiles
      <3>3. CASE g = f
        BY <1>3, <3>1, <3>2, <3>3 DEF BootWrite
      <3>4. CASE g # f
        <4>1. boot'[g] = boot[g] /\ g \notin todo
          BY <1>3, <2>4, <3>1, <3>2, <3>4 DEF BootWrite, RestoreFile
        <4> QED BY <2>1, <3>1, <4>1 DEF RestoredInv, RestoreFile
      <3> QED BY <3>3, <3>4
    <2> QED BY <1>3, <2>2, <2>3, <2>4 DEF RestoredInv, stVars
  <1>5. CASE BootWrite(f, st.backup[f])
    BY <1>2, <1>3, <1>4, <1>5, GuardedSound DEF IInv, BootInv, StoreInv
  <1>6. CASE UNCHANGED bootVars
    <2>1. cut = {} => FreshInv' /\ RestoredInv'
      BY <1>1, <1>3, <1>4 DEF FreshInv, stVars
    <2> QED BY <1>3, <1>6, <2>1, AlikeSound DEF Alike, bootVars, stVars
  <1> QED BY <1>5, <1>6 DEF RestoreFile

(* Once every file is back without an error the boot partition holds the   *)
(* good set, and the trial may go.                                         *)
LEMMA RestoreCompleteSound ==
  ASSUME IInv, TrackInv, SetInv, RestoreComplete
  PROVE  SetInv'
  <1>0. PICK t : t = [st EXCEPT !.trial = NoTrial, !.boots = 0]
    OBVIOUS
  <1>1. stDur = {st} /\ st.trial # NoTrial /\ st \in Storage /\ HasBackup(st)
    BY DEF RestoreComplete, TrackInv, WriteInv, RevertInv, IInv, StoreInv, StateOK
  <1>2. t.trial = NoTrial /\ t.good = st.good
    BY <1>0, <1>1 DEF Storage
  <1>3. st' = t /\ stDur' = {st, t} /\ UNCHANGED <<boot, bootDur, cut>> /\ pc' = "revertdrop"
    BY <1>0, <1>1 DEF RestoreComplete, Store, bootVars, envVars
  <1>4. GoodInv'
    BY <1>1, <1>2, <1>3 DEF SetInv, GoodInv
  <1>5. ASSUME cut' = {} PROVE CardInv'
    <2>1. CardInv /\ st.good \in GoodSet
      BY <1>1, <1>3, <1>5 DEF SetInv, GoodInv
    <2>2. Holds(st.backup, st.good) /\ SoundStore(st)
      BY <1>1, <2>1 DEF CardInv, SoundStore
    <2>3. \A f \in BootFile : st.backup[f] # Absent => boot[f] = st.backup[f]
      BY <1>1, <2>1 DEF CardInv, RestoredInv, RestoreComplete, BackupFiles
    <2>4. BootSet(boot) = st.good
      BY <2>1, <2>2, <2>3, HoldsRestores
    <2>5. ASSUME NEW s \in stDur' PROVE SoundStore(s)'
      <3>1. s.good = st.good /\ (s = st \/ s.trial = NoTrial)
        BY <1>2, <1>3
      <3> QED BY <1>1, <1>3, <2>2, <2>4, <3>1 DEF SoundStore
    <2> QED BY <1>3, <2>1, <2>5 DEF CardInv, FreshInv, RestoredInv
  <1> QED BY <1>4, <1>5 DEF SetInv

-----------------------------------------------------------------------------
(* Once the trial is gone, what becomes of the backup directory matters to *)
(* nobody.                                                                 *)
LEMMA UntrackedStore ==
  ASSUME NEW s \in Storage, NEW d
  PROVE  /\ [s EXCEPT !.backup = d].trial = s.trial
         /\ [s EXCEPT !.backup = d].good = s.good
         /\ [s EXCEPT !.backup = d].backup = d
  BY DEF Storage

(* What removing the backup directory does to the card.                    *)
LEMMA DropSound ==
  ASSUME IInv, SetInv, UNCHANGED <<boot, bootDur, cut>>, pc' # "restore",
         st.trial = NoTrial,
         \A u \in stDur' : u \in stDur \/ \E d : u = [st EXCEPT !.backup = d],
         cut = {} => FreshInv'
  PROVE  SetInv'
  <1>1. st \in stDur /\ st \in Storage
    BY DEF IInv, StoreInv, StateOK
  <1>2. \A u \in stDur' : u \in stDur \/ (u.trial = NoTrial /\ u.good = st.good)
    <2>1. SUFFICES ASSUME NEW u \in stDur', NEW d, u = [st EXCEPT !.backup = d]
                   PROVE  u.trial = NoTrial /\ u.good = st.good
      OBVIOUS
    <2> QED BY <1>1, <2>1, UntrackedStore
  <1>3. GoodInv'
    BY <1>1, <1>2 DEF SetInv, GoodInv
  <1>4. ASSUME cut' = {} PROVE CardInv'
    <2>1. CardInv /\ FreshInv'
      BY <1>4 DEF SetInv
    <2>2. ASSUME NEW u \in stDur' PROVE SoundStore(u)'
      BY <1>1, <1>2, <2>1 DEF CardInv, SoundStore
    <2> QED BY <2>1, <2>2 DEF CardInv, RestoredInv
  <1> QED BY <1>3, <1>4 DEF SetInv

(* A revert removes the backup once the trial is gone.                     *)
LEMMA RevertDropsBackupSound ==
  ASSUME IInv, TrackInv, SetInv, RevertDropsBackup
  PROVE  SetInv'
  <1>1. st.trial = NoTrial /\ st \in Storage
    BY DEF RevertDropsBackup, IInv, OrderInv, StoreInv, StateOK
  <1>2. UNCHANGED <<boot, bootDur, cut>> /\ pc' # "restore"
    BY DEF RevertDropsBackup, bootVars, envVars
  <1>3. ~HasBackup(st')
    BY <1>1, UntrackedStore DEF RevertDropsBackup, HasBackup, NoBackup, BackupName
  <1>4. \A u \in stDur' : u \in stDur \/ \E d : u = [st EXCEPT !.backup = d]
    BY DEF RevertDropsBackup
  <1> QED BY <1>1, <1>2, <1>3, <1>4, DropSound DEF FreshInv, HasBackup

(* A confirmation removes the backup once the trial is gone.               *)
LEMMA ConfirmDropsBackupSound ==
  ASSUME IInv, TrackInv, SetInv, ConfirmDropsBackup
  PROVE  SetInv'
  <1>1. st.trial = NoTrial /\ st \in Storage
    BY DEF ConfirmDropsBackup, IInv, OrderInv, StoreInv, StateOK
  <1>2. UNCHANGED <<boot, bootDur, cut>> /\ pc' # "restore"
    BY DEF ConfirmDropsBackup, bootVars, envVars
  <1>3. ~HasBackup(st')
    BY <1>1, UntrackedStore DEF ConfirmDropsBackup, HasBackup, NoBackup, BackupName
  <1>4. \A u \in stDur' : u \in stDur \/ \E d : u = [st EXCEPT !.backup = d]
    BY DEF ConfirmDropsBackup
  <1> QED BY <1>1, <1>2, <1>3, <1>4, DropSound DEF FreshInv, HasBackup

(* The runtime may die while it removes the backup; `cut' tells when the   *)
(* directory is left behind.                                               *)
LEMMA RuntimeFailsSound ==
  ASSUME IInv, TrackInv, SetInv, RuntimeFails
  PROVE  SetInv'
  <1>1. UNCHANGED <<boot, bootDur>> /\ pc' # "restore" /\ (cut' = {} => cut = {} /\ FreshInv')
    BY DEF RuntimeFails, bootVars, LeftBehind, FreshInv, HasBackup
  <1>2. st \in stDur /\ st \in Storage
    BY DEF IInv, StoreInv, StateOK
  <1>3. CASE UNCHANGED stVars
    <2>1. GoodInv'
      BY <1>3 DEF SetInv, GoodInv, stVars
    <2>2. cut' = {} => CardInv'
      BY <1>1, <1>3 DEF SetInv, CardInv, RestoredInv, SoundStore, stVars
    <2> QED BY <2>1, <2>2 DEF SetInv
  <1>4. CASE pc = "confirmdrop" /\ \E d : Store([st EXCEPT !.backup = d])
    <2>1. st.trial = NoTrial
      BY <1>4 DEF IInv, OrderInv
    <2>2. \A u \in stDur' : u \in stDur \/ (u.trial = NoTrial /\ u.good = st.good)
      <3>1. PICK d : Store([st EXCEPT !.backup = d])
        BY <1>4
      <3>2. [st EXCEPT !.backup = d].trial = NoTrial /\ [st EXCEPT !.backup = d].good = st.good
        BY <1>2, <2>1, UntrackedStore
      <3> QED BY <3>1, <3>2 DEF Store
    <2>3. GoodInv'
      BY <1>2, <2>2 DEF SetInv, GoodInv
    <2>4. ASSUME cut' = {} PROVE CardInv'
      <3>1. CardInv /\ FreshInv'
        BY <1>1, <2>4 DEF SetInv
      <3>2. ASSUME NEW u \in stDur' PROVE SoundStore(u)'
        BY <1>1, <1>2, <2>1, <2>2, <3>1 DEF CardInv, SoundStore
      <3> QED BY <1>1, <3>1, <3>2 DEF CardInv, RestoredInv
    <2> QED BY <2>3, <2>4 DEF SetInv
  <1> QED BY <1>3, <1>4 DEF RuntimeFails

(* What is confirmed ran from the boot partition, and is healthy.          *)
LEMMA ConfirmSound ==
  ASSUME IInv, TrackInv, SetInv, Confirm
  PROVE  SetInv'
  <1>0. PICK t : t = [st EXCEPT !.trial = NoTrial, !.boots = 0, !.good = running]
    OBVIOUS
  <1>1. st \in Storage /\ st \in stDur /\ running = BootSet(boot) /\ Unsynced = {}
    BY DEF Confirm, IInv, StoreInv, StateOK, TrackInv, RanInv, RuntimePc
  <1>2. t.trial = NoTrial /\ t.good = running
    BY <1>0, <1>1 DEF Storage
  <1>3. /\ st' = t /\ stDur' = stDur \cup {t} /\ pc' = "confirmdrop"
        /\ UNCHANGED <<boot, bootDur, cut>>
    BY <1>0 DEF Confirm, Store, bootVars, envVars
  <1>4. running \in GoodSet
    <2>1. running \in BootSetType
      BY DEF IInv, RestInv
    <2>2. DOMAIN running = {"kernel", "loader", "program", "cmdline", "config"}
      BY <2>1 DEF BootSetType
    <2>3. /\ running.kernel \in Version /\ running.loader \in Version
          /\ running.program \in Version /\ running.cmdline \in Version
          /\ running.config \in Version
      BY <2>2 DEF Confirm, Sound
    <2> QED BY <2>1, <2>3 DEF GoodSet, BootSetType
  <1>5. GoodInv'
    BY <1>2, <1>3, <1>4 DEF SetInv, GoodInv
  <1>6. ASSUME cut' = {} PROVE CardInv'
    <2>1. CardInv
      BY <1>3, <1>6 DEF SetInv
    <2>2. bootDur[KernelFileOf[running.config]] \subseteq Version
      <3>1. KernelOf(boot) = KernelFileOf[running.config] /\ boot[KernelOf(boot)] \in Version
        BY <1>1, <1>4, GoodKernel
      <3>2. KernelOf(boot) \in BootFile
        BY KernelOfType DEF BootFile
      <3> QED BY <1>1, <3>1, <3>2 DEF Unsynced
    <2>3. ASSUME NEW s \in stDur' PROVE SoundStore(s)'
      <3>1. CASE s \in stDur
        BY <1>3, <2>1, <3>1 DEF CardInv, SoundStore
      <3>2. CASE s = t
        BY <1>1, <1>2, <1>3, <2>2, <3>2 DEF SoundStore
      <3> QED BY <1>3, <3>1, <3>2
    <2> QED BY <1>3, <2>1, <2>3 DEF CardInv, FreshInv, RestoredInv
  <1> QED BY <1>5, <1>6 DEF SetInv

(* A new backup is a copy of the boot files.                               *)
LEMMA PrepareBackupSound ==
  ASSUME IInv, TrackInv, SetInv, PrepareBackup
  PROVE  SetInv'
  <1>1. UNCHANGED <<boot, bootDur, cut>> /\ pc' = "arm" /\ st \in stDur /\ st \in Storage
    BY DEF PrepareBackup, bootVars, envVars, IInv, StoreInv, StateOK
  <1>2. CASE HasBackup(st)
    BY <1>2, QuietSound DEF PrepareBackup, bootVars, stVars, envVars
  <1>3. CASE ~HasBackup(st)
    <2>1. st.trial = NoTrial
      BY <1>1, <1>3 DEF IInv, StoreInv, StateOK
    <2>2. st' = [st EXCEPT !.backup = Snapshot(boot)] /\ stDur' = {st'}
      BY <1>3 DEF PrepareBackup, StoreSync
    <2>3. FreshInv'
      BY <1>1, <2>2, UntrackedStore DEF FreshInv
    <2> QED BY <1>1, <2>1, <2>2, <2>3, DropSound
  <1> QED BY <1>2, <1>3

(* Arming a trial over a fresh backup makes the boot set one to restore.   *)
LEMMA ArmTrialSound ==
  ASSUME IInv, TrackInv, SetInv, ArmTrial
  PROVE  SetInv'
  <1>0. PICK t : t = [st EXCEPT !.trial = 0, !.boots = 0]
    OBVIOUS
  <1>1. st \in Storage /\ st \in stDur /\ HasBackup(st) /\ boot \in [BootFile -> Content]
    BY DEF ArmTrial, IInv, StoreInv, StateOK, OrderInv, BootInv
  <1>2. t.trial # NoTrial /\ t.backup = st.backup /\ t.good = st.good
    BY <1>0, <1>1, ArmedStore
  <1>3. st' = t /\ stDur' = {t} /\ UNCHANGED <<boot, bootDur, cut>> /\ pc' = "install"
    BY <1>0 DEF ArmTrial, StoreSync, bootVars, envVars
  <1>4. GoodInv'
    BY <1>1, <1>2, <1>3 DEF SetInv, GoodInv
  <1>5. ASSUME cut' = {} PROVE CardInv'
    <2>1. CardInv /\ SoundStore(st) /\ st.good \in GoodSet
      BY <1>1, <1>3, <1>5 DEF SetInv, CardInv, GoodInv
    <2>2. Holds(st.backup, st.good)
      <3>1. CASE st.trial # NoTrial
        BY <2>1, <3>1 DEF SoundStore
      <3>2. CASE st.trial = NoTrial
        <4>1. st.backup = Snapshot(boot) /\ BootSet(boot) = st.good
          BY <1>1, <2>1, <3>2 DEF CardInv, FreshInv, SoundStore, ArmTrial
        <4> QED BY <1>1, <2>1, <4>1, SnapshotHolds
      <3> QED BY <3>1, <3>2
    <2>3. SoundStore(t)'
      BY <1>2, <1>3, <2>1, <2>2 DEF SoundStore
    <2> QED BY <1>2, <1>3, <2>1, <2>3 DEF CardInv, FreshInv, RestoredInv
  <1> QED BY <1>4, <1>5 DEF SetInv

(* Every outcome of a power loss is sound; `cut' tells the two it is not.  *)
LEMMA PowerLossSound ==
  ASSUME IInv, TrackInv, SetInv, PowerLoss
  PROVE  SetInv'
  <1>1. PICK s \in stDur :
          /\ st' = s /\ stDur' = {s} /\ pc' = "firmware"
          /\ cut' = {} => /\ cut = {} /\ (s.trial = NoTrial => Unsynced = {})
                          /\ ~LeftBehind(boot', s)
    BY DEF PowerLoss
  <1>2. \A f \in BootFile : boot'[f] \in bootDur[f] /\ bootDur'[f] = {boot'[f]}
    BY DEF PowerLoss, IInv, BootInv
  <1>3. GoodInv'
    BY <1>1 DEF SetInv, GoodInv
  <1>4. ASSUME cut' = {} PROVE CardInv'
    <2>1. CardInv /\ SoundStore(s) /\ s.good \in GoodSet
      BY <1>1, <1>4 DEF SetInv, GoodInv, CardInv
    <2>2. KernelFileOf[s.good.config] \in BootFile /\ "loader" \in BootFile
      BY <2>1 DEF GoodSet, BootFile, KernelFile
    <2>3. s.trial = NoTrial => BootSet(boot') = s.good
      <3>1. HAVE s.trial = NoTrial
      <3>2. Unsynced = {}
        BY <1>1, <1>4, <3>1
      <3>3. boot' = boot
        BY <3>2 DEF PowerLoss, IInv, BootInv
      <3> QED BY <2>1, <3>1, <3>3 DEF SoundStore
    <2>4. SoundStore(s)'
      BY <1>1, <1>2, <2>1, <2>2, <2>3 DEF SoundStore
    <2>5. FreshInv'
      BY <1>1, <1>4 DEF FreshInv, LeftBehind, HasBackup
    <2> QED BY <1>1, <1>2, <2>1, <2>2, <2>4, <2>5 DEF CardInv, RestoredInv
  <1> QED BY <1>3, <1>4 DEF SetInv

-----------------------------------------------------------------------------
(* The image the card was flashed with is the first good boot set.         *)
LEMMA InitSound == Init => SetInv
  <1> SUFFICES ASSUME Init PROVE SetInv
    OBVIOUS
  <1>1. \A f \in BootFile \ (KernelFile \ {KernelFileOf[Factory]}) : FactorySet[f] = Factory
    BY DEF FactorySet
  <1>2. /\ "loader" \in BootFile \ KernelFile /\ "program" \in BootFile \ KernelFile
        /\ "cmdline" \in BootFile \ KernelFile /\ "config" \in BootFile \ KernelFile
        /\ KernelFileOf[Factory] \in KernelFile \cap BootFile
    BY ConstantsAssumption DEF BootFile, KernelFile
  <1>3. KernelOf(FactorySet) = KernelFileOf[Factory]
    BY <1>1, <1>2, ConstantsAssumption DEF KernelOf
  <1>4. BootSet(FactorySet) \in GoodSet /\ BootSet(FactorySet).config = Factory
    BY <1>1, <1>2, <1>3, ConstantsAssumption DEF BootSet, GoodSet
  <1>5. /\ st.good = BootSet(FactorySet) /\ stDur = {st} /\ st.trial = NoTrial
        /\ boot = FactorySet /\ pc = "firmware" /\ ~HasBackup(st)
    BY DEF Init, HasBackup, NoBackup, BackupName
  <1>6. \A f \in BootFile : bootDur[f] = {FactorySet[f]}
    BY DEF Init
  <1>7. SoundStore(st)
    BY <1>1, <1>2, <1>4, <1>5, <1>6, ConstantsAssumption DEF SoundStore
  <1>8. bootDur["loader"] \subseteq Version
    BY <1>1, <1>2, <1>6, ConstantsAssumption
  <1> QED BY <1>4, <1>5, <1>7, <1>8 DEF SetInv, GoodInv, CardInv, FreshInv, RestoredInv

(* A stuttering step keeps it.                                             *)
LEMMA StutterSound == SetInv /\ UNCHANGED vars => SetInv'
  <1> SUFFICES ASSUME SetInv, UNCHANGED vars PROVE SetInv'
    OBVIOUS
  <1>1. GoodInv'
    BY DEF vars, SetInv, GoodInv
  <1>2. cut' = {} => CardInv'
    BY DEF vars, SetInv, CardInv, SoundStore, FreshInv, RestoredInv, HasBackup, BackupFiles
  <1> QED BY <1>1, <1>2 DEF SetInv

(* Every step keeps it.                                                    *)
LEMMA NextSound == IInv /\ TrackInv /\ SetInv /\ [Next]_vars => SetInv'
  <1> SUFFICES ASSUME IInv, TrackInv, SetInv, [Next]_vars PROVE SetInv'
    OBVIOUS
  <1>1. CASE Bootloader
    BY <1>1, FirmwareLoadsSound, NoStagedProgramSound, UnlinkOldProgramSound, PromoteStagedSound,
       UnstageProgramSound, PromotionFailsSound, RebootSound, BeginNormalBootSound,
       CountAttemptSound, EnterTrialSound, DecideRevertSound, TrialMountFailsSound,
       StartRuntimeSound
    DEF Bootloader
  <1>2. CASE Revert
    BY <1>2, WriteReportSound, RestoreFileSound, RestoreFailedSound, RestoreCompleteSound,
       RevertDropsBackupSound, RevertSyncsStateSound
    DEF Revert
  <1>3. CASE Confirmation
    BY <1>3, ConfirmSound, ConfirmDropsBackupSound, ConfirmSyncsStateSound,
       LeaveTrialToNextBootSound
    DEF Confirmation
  <1>4. CASE Serve
    BY <1>4, PrepareBackupSound, ArmTrialSound, InstallFileSound, InstallCmdlineSound,
       TruncateConfigSound, WriteConfigSound, FinishBootFileSound, SyncBootFilesSound,
       StageProgramSound
    DEF Serve
  <1>5. CASE User
    BY <1>5, BeginRequestSound, UserRestartSound, DismissReportSound
    DEF User
  <1>6. CASE Failure
    BY <1>6, PrepareFailsSound, InstallFailsSound, RuntimeFailsSound, PowerLossSound
    DEF Failure
  <1>7. CASE UNCHANGED vars
    BY <1>7, StutterSound
  <1> QED BY <1>1, <1>2, <1>3, <1>4, <1>5, <1>6, <1>7 DEF Next

(* In every reachable state the card has the last good boot set or the     *)
(* means to restore it.                                                    *)
THEOREM Soundness == Spec => []SetInv
  <1>1. IInv /\ TrackInv /\ SetInv /\ IInv' /\ TrackInv' /\ [Next]_vars => SetInv'
    BY NextSound
  <1> QED BY <1>1, InitSound, Tracking, Invariance, PTL DEF Spec

(* A revert gives back the set that was last found healthy, no other set   *)
(* runs without a trial, and the report outlives a reset at any step of    *)
(* bootRecoveryRevert.                                                     *)
THEOREM RevertsAreSound == Spec => []RevertIsSound
  <1>1. IInv /\ SetInv => RevertRestoresGood
    <2> SUFFICES ASSUME IInv, SetInv, cut = {}, st.trial # NoTrial
                 PROVE  BootSet(Overlay(boot, st.backup)) = st.good
      BY DEF RevertRestoresGood
    <2>1. Holds(st.backup, st.good) /\ st.good \in GoodSet
      BY DEF SetInv, CardInv, GoodInv, SoundStore, IInv, StoreInv
    <2>2. \A f \in BootFile : st.backup[f] # Absent => Overlay(boot, st.backup)[f] = st.backup[f]
      BY DEF Overlay
    <2> QED BY <2>1, <2>2, HoldsRestores
  <1>2. IInv /\ SetInv => UntrackedSetIsGood
    BY DEF UntrackedSetIsGood, SetInv, CardInv, SoundStore, IInv, StoreInv
  <1>3. TrackInv => ReportDurable
    BY DEF ReportDurable, TrackInv, WriteInv, RevertInv
  <1>4. IInv /\ TrackInv /\ SetInv => RevertIsSound
    BY <1>1, <1>2, <1>3 DEF RevertIsSound
  <1> QED BY <1>4, Soundness, Tracking, Invariance, PTL

-----------------------------------------------------------------------------
(* An update in progress has installed the kernel and the loader once they *)
(* are no longer to be done.                                               *)
InstallInv ==
  pc \in {"prepare", "arm", "install"} /\ req.kind = "update" =>
    \A f \in {KernelFileOf[req.ver], "loader"} :
      f \in todo \/ (pc = "install" /\ boot[f] = req.ver)

(* The order of boot_targets and the single writer keep it.                *)
LEMMA NextInstall == IInv /\ InstallInv /\ [Next]_vars => InstallInv'
  <1> SUFFICES ASSUME IInv, InstallInv, [Next]_vars,
                      pc' \in {"prepare", "arm", "install"}, req'.kind = "update"
               PROVE  \A f \in {KernelFileOf[req'.ver], "loader"} :
                        f \in todo' \/ (pc' = "install" /\ boot'[f] = req'.ver)
    BY DEF InstallInv
  <1>1. CASE \E k \in Kinds, v \in Version : BeginRequest(k, v)
    <2>1. PICK k \in Kinds, v \in Version : BeginRequest(k, v)
      BY <1>1
    <2>2. req'.ver = v /\ todo' \in Targets("update", v)
      BY <2>1 DEF BeginRequest
    <2> QED BY <2>2 DEF Targets
  <1>2. CASE PrepareBackup
    BY <1>2 DEF PrepareBackup, InstallInv, reqVars, bootVars
  <1>3. CASE ArmTrial
    BY <1>3 DEF ArmTrial, InstallInv, reqVars, bootVars
  <1>4. CASE \E f \in BootFile : InstallFile(f)
    <2>1. PICK f \in BootFile : InstallFile(f)
      BY <1>4
    <2>2. KernelFileOf[req.ver] \in BootFile /\ "loader" \in BootFile
      BY DEF IInv, RestInv, BootFile, KernelFile
    <2> QED BY <2>1, <2>2 DEF InstallFile, InstallInv, BootWrite, IInv, BootInv
  <1>5. CASE UNCHANGED vars
    BY <1>5 DEF vars, InstallInv
  <1>6. CASE Bootloader \/ Revert \/ Confirmation
    BY <1>6 DEF Bootloader, Revert, Confirmation, FirmwareLoads, NoStagedProgram,
       UnlinkOldProgram,
       PromoteStaged, UnstageProgram, PromotionFails, Reboot, BeginNormalBoot, CountAttempt,
       EnterTrial, DecideRevert, TrialMountFails, StartRuntime, WriteReport, RestoreFile,
       RestoreFailed, RestoreComplete, RevertDropsBackup, RevertSyncsState, Confirm,
       ConfirmDropsBackup, ConfirmSyncsState, LeaveTrialToNextBoot
  <1>7. CASE InstallCmdline \/ TruncateConfig \/ WriteConfig \/ FinishBootFile
             \/ SyncBootFiles \/ StageProgram \/ UserRestart \/ DismissReport
    BY <1>7 DEF InstallCmdline, TruncateConfig, WriteConfig, FinishBootFile, SyncBootFiles,
       StageProgram, UserRestart, DismissReport, EndRequest
  <1>8. CASE Failure
    BY <1>8 DEF Failure, PrepareFails, InstallFails, RuntimeFails, PowerLoss, EndRequest
  <1> QED BY <1>1, <1>2, <1>3, <1>4, <1>5, <1>6, <1>7, <1>8 DEF Next, Serve, User

(* An update leaves the machine loadable after each of its renames.        *)
LEMMA InstallKeepsLoadable ==
  ASSUME IInv, InstallInv, NEW f \in BootFile, InstallFile(f), req.kind = "update", Loadable(boot)
  PROVE  Loadable(boot')
  <1>1. req.ver \in Version /\ boot' = [boot EXCEPT ![f] = req.ver] /\ boot \in [BootFile -> Content]
    BY DEF InstallFile, BootWrite, IInv, RestInv, BootInv
  <1>2. KernelOf(boot) \in BootFile /\ "loader" \in BootFile /\ "config" \in BootFile
    BY KernelOfType DEF BootFile
  <1>3. boot'["loader"] \in Version /\ boot'["config"] \in Version
    BY <1>1, <1>2 DEF Loadable
  <1>4. CASE f # "config"
    <2>1. KernelOf(boot') = KernelOf(boot)
      BY <1>1, <1>2, <1>4 DEF KernelOf
    <2> QED BY <1>1, <1>2, <1>3, <2>1 DEF Loadable
  <1>5. CASE f = "config"
    <2>1. KernelFileOf[req.ver] \in KernelFile
      BY <1>1 DEF KernelFile
    <2>2. KernelFileOf[req.ver] \notin {"loader", "cmdline", "config"}
      BY <2>1, ConstantsAssumption
    <2>3. KernelFileOf[req.ver] \notin todo
      BY <1>5, <2>2 DEF InstallFile, Rank
    <2>4. boot[KernelFileOf[req.ver]] = req.ver
      BY <2>3 DEF InstallInv, InstallFile
    <2>5. KernelOf(boot') = KernelFileOf[req.ver]
      BY <1>1, <1>2, <1>5 DEF KernelOf
    <2>6. boot'[KernelFileOf[req.ver]] = req.ver
      BY <1>1, <1>5, <2>1, <2>2, <2>4 DEF BootFile
    <2> QED BY <1>1, <1>3, <2>5, <2>6 DEF Loadable
  <1> QED BY <1>4, <1>5

(* A revert leaves the machine loadable after each file it writes back.    *)
LEMMA RestoreKeepsLoadable ==
  ASSUME IInv, TrackInv, SetInv, cut = {}, NEW f \in BootFile, RestoreFile(f), Loadable(boot)
  PROVE  Loadable(boot')
  <1>1. st \in stDur /\ st \in Storage /\ st.trial # NoTrial /\ boot \in [BootFile -> Content]
    BY DEF RestoreFile, TrackInv, RevertInv, IInv, StoreInv, StateOK, BootInv
  <1>2. CardInv /\ SoundStore(st) /\ Holds(st.backup, st.good) /\ st.good \in GoodSet
    BY <1>1 DEF SetInv, CardInv, SoundStore, GoodInv
  <1>3. st.backup[f] \in Version
    BY <1>1, <1>2, HoldsVersions DEF CardInv, RestoredInv, RestoreFile
  <1>4. CASE UNCHANGED boot
    BY <1>4
  <1>5. CASE boot' = [boot EXCEPT ![f] = st.backup[f]]
    <2>1. KernelOf(boot) \in BootFile /\ "loader" \in BootFile /\ "config" \in BootFile
      BY KernelOfType DEF BootFile
    <2>2. boot'["loader"] \in Version /\ boot'["config"] \in Version
      BY <1>1, <1>3, <1>5, <2>1 DEF Loadable
    <2>3. CASE f # "config"
      <3>1. KernelOf(boot') = KernelOf(boot)
        BY <1>1, <1>5, <2>1, <2>3 DEF KernelOf
      <3> QED BY <1>1, <1>3, <1>5, <2>1, <2>2, <3>1 DEF Loadable
    <2>4. CASE f = "config"
      <3> DEFINE k == KernelFileOf[st.good.config]
      <3>1. st.backup[f] = st.good.config /\ st.good.config \in Version
        BY <1>2, <2>4 DEF Holds, GoodSet
      <3>2. k \in KernelFile /\ k \in BootFile /\ k # "config"
        BY <3>1, ConstantsAssumption DEF KernelFile, BootFile
      <3>3. boot[k] \in Version
        BY <1>2, <3>2 DEF SoundStore, IInv, BootInv
      <3>4. boot'[k] = boot[k] /\ boot'["config"] = st.good.config
        BY <1>1, <1>5, <2>1, <2>4, <3>1, <3>2
      <3>5. KernelOf(boot') = k
        BY <3>1, <3>4 DEF KernelOf
      <3> QED BY <2>2, <3>3, <3>4, <3>5 DEF Loadable
    <2> QED BY <2>3, <2>4
  <1> QED BY <1>4, <1>5 DEF RestoreFile, BootWrite, bootVars

(* No step of an update and no step of a revert takes the firmware the way *)
(* to the bootloader: config.txt comes last in boot_targets and in         *)
(* brRestoreDir.                                                           *)
THEOREM FirmwareKeepsBooting == Spec => KeepsFirmwareBooting
  <1> DEFINE Step == /\ pc \in {"install", "restore"} /\ pc' = pc
                     /\ req.kind \in {"update", "none"}
                     /\ cut = {}
                     /\ Loadable(boot)
  <1>1. Init => InstallInv
    BY DEF Init, InstallInv
  <1>2. ASSUME IInv, TrackInv, SetInv, InstallInv, Next, Step
        PROVE  Loadable(boot')
    <2>1. CASE \E f \in BootFile : InstallFile(f)
      <3>1. PICK f \in BootFile : InstallFile(f)
        BY <2>1
      <3>2. req.kind = "update"
        BY <1>2, <3>1 DEF InstallFile
      <3> QED BY <1>2, <3>1, <3>2, InstallKeepsLoadable
    <2>2. CASE \E f \in BootFile : RestoreFile(f)
      BY <1>2, <2>2, RestoreKeepsLoadable
    <2>3. CASE UNCHANGED boot
      BY <1>2, <2>3
    <2>4. CASE Bootloader \/ Confirmation
      BY <1>2, <2>4 DEF Bootloader, Confirmation, FirmwareLoads, NoStagedProgram,
         UnlinkOldProgram,
         PromoteStaged, UnstageProgram, PromotionFails, Reboot, BeginNormalBoot, CountAttempt,
         EnterTrial, DecideRevert, TrialMountFails, StartRuntime, Confirm,
         ConfirmDropsBackup, ConfirmSyncsState, LeaveTrialToNextBoot
    <2>5. CASE \/ WriteReport \/ RestoreFailed \/ RestoreComplete \/ RevertDropsBackup
               \/ RevertSyncsState
      BY <2>3, <2>5 DEF WriteReport, RestoreFailed, RestoreComplete, RevertDropsBackup,
         RevertSyncsState, SyncAll, bootVars
    <2>6. CASE PrepareBackup \/ ArmTrial \/ InstallCmdline \/ TruncateConfig \/ WriteConfig
               \/ FinishBootFile \/ SyncBootFiles \/ StageProgram
      BY <1>2, <2>6 DEF PrepareBackup, ArmTrial, InstallCmdline, TruncateConfig, WriteConfig,
         FinishBootFile, SyncBootFiles, StageProgram, EndRequest
    <2>7. CASE User
      BY <1>2, <2>7 DEF User, BeginRequest, UserRestart, DismissReport
    <2>8. CASE Failure
      BY <1>2, <2>8 DEF Failure, PrepareFails, InstallFails, RuntimeFails, PowerLoss, EndRequest
    <2> QED BY <1>2, <2>1, <2>2, <2>4, <2>5, <2>6, <2>7, <2>8 DEF Next, Revert, Serve
  <1>3. IInv /\ TrackInv /\ SetInv /\ InstallInv /\ [Next]_vars => [Step => Loadable(boot')]_vars
    BY <1>2
  <1>4. IInv /\ InstallInv /\ [Next]_vars => InstallInv'
    BY NextInstall
  <1>5. Spec => []InstallInv
    BY <1>1, <1>4, Invariance, PTL DEF Spec
  <1> QED BY <1>3, <1>5, Soundness, Tracking, Invariance, PTL DEF Spec, KeepsFirmwareBooting, Step
=============================================================================
