------------------------ MODULE ConfigRestore_proofs ------------------------
(***************************************************************************)
(* Proofs about ConfigRestore for every number of managed entries, all     *)
(* contents and every budget of edits, I/O errors, deaths and power losses.*)
(* The last theorem is the refinement: ConfigRestore implements            *)
(* AtomicRestore.                                                          *)
(***************************************************************************)
EXTENDS ConfigRestore, TLAPS

(* Entry r of disk d has left new/ for its place.                          *)
InPlace(d, r) == r \in d.mask /\ d.new[r] = Absent

(* What an interrupted restore leaves of every entry: an installed one is  *)
(* there, one put aside and not yet replaced is not.                       *)
PartialOK(d) ==
  d.pending => \A r \in Root : IF InPlace(d, r) THEN d.live[r] # Absent
                               ELSE d.old[r] # Absent => d.live[r] = Absent

StateOK(d) == d \in Disk /\ DiskOK(d) /\ PartialOK(d)

DurInv == disk \in dur /\ \A d \in dur : StateOK(d)

CtlInv == /\ pc \in Pc
          /\ i \in 1..(NRoots + 1)
          /\ req \in ValidArchive \cup {NoSetup}
          /\ req # NoSetup <=> pc \in {"staging", "publish", "published"}
          /\ answer \in {"none", "busy", "accepted", "rejected"}
          /\ left \in [edit : Nat, ioError : Nat, death : Nat, powerLoss : Nat]

Loop == pc \in {"apply", "saved", "place", "placed"}

(* What the position in the code says about the disk.                      *)
OrderInv ==
  /\ Loop => disk.pending
  /\ pc \in {"saved", "place"} => /\ i \in Root
                                  /\ ~InPlace(disk, i)
                                  /\ disk.live[i] = Absent
  /\ pc = "placed" => i \in Root /\ InPlace(disk, i)
  /\ pc \in {"retired", "drop", "sfx", "staging", "publish"} => ~disk.pending
  /\ pc = "published" => disk.pending
  /\ pc # "refused"

(* The loop leaves every entry it has passed as the archive has it.        *)
PassedInv ==
  Loop => \A r \in 1..(i - 1) : /\ disk.new[r] = Absent
                                /\ r \notin disk.mask => disk.live[r] = Absent

(* The runtime sees a restore only before the first of its renames.        *)
UntouchedInv ==
  pc \in UpPc /\ disk.pending => disk.old = Nothing /\ Has(disk.new) = disk.mask

AcceptedInv ==
  answer = "accepted" => /\ pc \in {"rebooting", "runtime"}
                         /\ \A d \in dur : d.pending

IInv == DurInv /\ CtlInv /\ OrderInv /\ PassedInv /\ UntouchedInv /\ AcceptedInv


-----------------------------------------------------------------------------
(* Updates of a disk.                                                      *)

(* The loop ends after the last entry; no archive is the absence of one.   *)
LEMMA Sizes == NRoots \in Nat /\ NoSetup \notin ValidArchive
  BY ConstantsAssumption DEF ValidArchive

(* The fields of a disk have their types.                                  *)
LEMMA DiskFields ==
  ASSUME NEW d \in Disk
  PROVE  /\ d.live \in Setup /\ d.new \in Setup /\ d.old \in Setup
         /\ d.mask \in SUBSET Root
         /\ d.pending \in BOOLEAN /\ d.done \in BOOLEAN /\ d.temp \in BOOLEAN
  BY DEF Disk

(* Clearing a field, or changing what is in place, gives a disk.           *)
LEMMA SetTemp ==
  ASSUME NEW d \in Disk, NEW b \in BOOLEAN
  PROVE  [d EXCEPT !.temp = b] \in Disk
  BY DEF Disk

(* Remains of a finished restore may come and go.                          *)
LEMMA SetDone ==
  ASSUME NEW d \in Disk, NEW b \in BOOLEAN
  PROVE  [d EXCEPT !.done = b] \in Disk
  BY DEF Disk

(* The pending mark may change.                                            *)
LEMMA SetPending ==
  ASSUME NEW d \in Disk, NEW b \in BOOLEAN
  PROVE  [d EXCEPT !.pending = b] \in Disk
  BY DEF Disk

(* Another plan with what it installs gives a disk.                        *)
LEMMA SetPlan ==
  ASSUME NEW d \in Disk, NEW m \in SUBSET Root, NEW s \in Setup
  PROVE  [[d EXCEPT !.mask = m] EXCEPT !.new = s] \in Disk
  <1>1. [d EXCEPT !.mask = m] \in Disk
    BY DEF Disk
  <1> QED BY <1>1 DEF Disk

(* Another old/ directory gives a disk.                                    *)
LEMMA SetAside ==
  ASSUME NEW d \in Disk, NEW s \in Setup
  PROVE  [d EXCEPT !.old = s] \in Disk
  BY DEF Disk

(* Another live entry gives a disk.                                        *)
LEMMA SetLive ==
  ASSUME NEW d \in Disk, NEW r \in Root, NEW v \in Value \cup {Absent}
  PROVE  [d EXCEPT !.live[r] = v] \in Disk
  BY DEF Disk, Setup

(* Another saved entry gives a disk.                                       *)
LEMMA SetOld ==
  ASSUME NEW d \in Disk, NEW r \in Root, NEW v \in Value \cup {Absent}
  PROVE  [d EXCEPT !.old[r] = v] \in Disk
  BY DEF Disk, Setup

(* Another new entry gives a disk.                                         *)
LEMMA SetNew ==
  ASSUME NEW d \in Disk, NEW r \in Root, NEW v \in Value \cup {Absent}
  PROVE  [d EXCEPT !.new[r] = v] \in Disk
  BY DEF Disk, Setup

(* The disk after entry r was saved, after it was installed, after a plan   *)
(* was published.                                                          *)
Saved(d, r) == [d EXCEPT !.old[r] = d.live[r], !.live[r] = Absent]
Placed(d, r) == [d EXCEPT !.live[r] = d.new[r], !.new[r] = Absent]
Published(d, a) == [d EXCEPT !.temp = FALSE, !.pending = TRUE, !.mask = Has(a),
                             !.new = a, !.old = Nothing]

(* rename(dst, saved): entry r of the live setup becomes that of old/.     *)
LEMMA SavedState ==
  ASSUME NEW d, StateOK(d), d.pending, NEW r \in Root, ~InPlace(d, r),
         d.live[r] # Absent, d.old[r] = Absent
  PROVE  LET e == Saved(d, r)
         IN  /\ StateOK(e)
             /\ e.pending /\ e.mask = d.mask /\ e.new = d.new
             /\ e.live = [d.live EXCEPT ![r] = Absent]
             /\ e.old = [d.old EXCEPT ![r] = d.live[r]]
             /\ e.done = d.done /\ e.temp = d.temp
  <1> DEFINE o == [d EXCEPT !.old[r] = d.live[r]]
             e == Saved(d, r)
  <1>1. d \in Disk /\ d.live[r] \in Value \cup {Absent}
    BY DEF StateOK, Disk, Setup
  <1>2. o \in Disk
    BY <1>1, SetOld
  <1>3. e = [o EXCEPT !.live[r] = Absent]
    BY <1>1 DEF Disk, Saved
  <1> HIDE DEF o
  <1>4. e \in Disk
    BY <1>2, <1>3, SetLive
  <1>5. /\ e.pending /\ e.mask = d.mask /\ e.new = d.new
        /\ e.live = [d.live EXCEPT ![r] = Absent]
        /\ e.old = [d.old EXCEPT ![r] = d.live[r]]
        /\ e.done = d.done /\ e.temp = d.temp
    BY <1>1 DEF Disk, Saved
  <1> HIDE DEF e
  <1>6. PartialOK(e)
    BY <1>1, <1>5 DEF StateOK, PartialOK, InPlace, Disk, Setup
  <1>7. DiskOK(e)
    BY <1>5 DEF StateOK, DiskOK, Has
  <1> QED BY <1>4, <1>5, <1>6, <1>7 DEF StateOK, e

(* rename(src, dst): entry r of new/ becomes that of the live setup.       *)
LEMMA InstalledState ==
  ASSUME NEW d, StateOK(d), d.pending, NEW r \in Root,
         d.new[r] # Absent, d.live[r] = Absent
  PROVE  LET e == Placed(d, r)
         IN  /\ StateOK(e)
             /\ e.pending /\ e.mask = d.mask /\ r \in d.mask
             /\ e.live = [d.live EXCEPT ![r] = d.new[r]]
             /\ e.new = [d.new EXCEPT ![r] = Absent]
             /\ e.old = d.old /\ e.done = d.done /\ e.temp = d.temp
  <1> DEFINE o == [d EXCEPT !.live[r] = d.new[r]]
             e == Placed(d, r)
  <1>1. d \in Disk /\ d.new[r] \in Value \cup {Absent}
    BY DEF StateOK, Disk, Setup
  <1>2. o \in Disk
    BY <1>1, SetLive
  <1>3. e = [o EXCEPT !.new[r] = Absent]
    BY <1>1 DEF Disk, Placed
  <1> HIDE DEF o
  <1>4. e \in Disk
    BY <1>2, <1>3, SetNew
  <1>5. /\ e.pending /\ e.mask = d.mask
        /\ e.live = [d.live EXCEPT ![r] = d.new[r]]
        /\ e.new = [d.new EXCEPT ![r] = Absent]
        /\ e.old = d.old /\ e.done = d.done /\ e.temp = d.temp
    BY <1>1 DEF Disk, Placed
  <1> HIDE DEF e
  <1>6. r \in d.mask
    BY DEF StateOK, DiskOK, Has
  <1>7. PartialOK(e)
    <2> SUFFICES ASSUME NEW q \in Root
                 PROVE  IF InPlace(e, q) THEN e.live[q] # Absent
                        ELSE e.old[q] # Absent => e.live[q] = Absent
      BY DEF PartialOK
    <2>1. d.live \in [Root -> Value \cup {Absent}] /\ d.new \in [Root -> Value \cup {Absent}]
      BY <1>1 DEF Disk, Setup
    <2>2. CASE q = r
      BY <1>5, <1>6, <2>1, <2>2 DEF InPlace
    <2>3. CASE q # r
      <3>1. e.live[q] = d.live[q] /\ e.new[q] = d.new[q]
        BY <1>5, <2>1, <2>3
      <3> QED BY <1>5, <3>1 DEF StateOK, PartialOK, InPlace
    <2> QED BY <2>2, <2>3
  <1>8. DiskOK(e)
    BY <1>1, <1>5 DEF StateOK, DiskOK, Has, Disk, Setup
  <1> QED BY <1>4, <1>5, <1>6, <1>7, <1>8 DEF StateOK, e

(* rename(temp, pending): a plan appears, nothing of it is applied.        *)
LEMMA PublishedState ==
  ASSUME NEW d, StateOK(d), NEW a \in ValidArchive
  PROVE  LET e == Published(d, a)
         IN  /\ StateOK(e)
             /\ e.pending /\ e.mask = Has(a) /\ e.new = a /\ e.old = Nothing
             /\ e.live = d.live
  <1> DEFINE e == Published(d, a)
  <1>1. d \in Disk /\ a \in Setup /\ Required \subseteq Has(a) /\ Has(a) \subseteq Root
    BY DEF StateOK, ValidArchive, Has
  <1>3. Nothing \in Setup
    BY DEF Nothing, Setup
  <1>4. e \in Disk
    <2> DEFINE e1 == [d EXCEPT !.temp = FALSE]
               e2 == [e1 EXCEPT !.pending = TRUE]
               e3 == [e2 EXCEPT !.mask = Has(a)]
               e4 == [e3 EXCEPT !.new = a]
    <2>1. e1 \in Disk /\ e2 \in Disk
      BY <1>1, SetTemp, SetPending
    <2>2. e4 \in Disk
      BY <1>1, <2>1, SetPlan
    <2>3. [e4 EXCEPT !.old = Nothing] \in Disk
      BY <1>3, <2>2, SetAside
    <2>4. e = [e4 EXCEPT !.old = Nothing]
      BY <1>1 DEF Disk, Published
    <2> QED BY <2>3, <2>4
  <1>5. /\ e.pending /\ e.mask = Has(a) /\ e.new = a /\ e.old = Nothing
        /\ e.live = d.live
    BY <1>1 DEF Disk, Published
  <1> HIDE DEF e
  <1>6. DiskOK(e)
    BY <1>1, <1>5 DEF DiskOK
  <1>7. PartialOK(e)
    BY <1>1, <1>5 DEF PartialOK, InPlace, Has, Nothing
  <1> QED BY <1>4, <1>5, <1>6, <1>7 DEF StateOK, e

(* rename(pending, done): the plan is gone.                                *)
LEMMA RetiredState ==
  ASSUME NEW d, StateOK(d)
  PROVE  LET e == [d EXCEPT !.pending = FALSE, !.mask = {}, !.new = Nothing,
                            !.old = Nothing, !.done = TRUE]
         IN  /\ StateOK(e)
             /\ ~e.pending /\ e.mask = {} /\ e.new = Nothing /\ e.old = Nothing
             /\ e.live = d.live
  <1> DEFINE e == [d EXCEPT !.pending = FALSE, !.mask = {}, !.new = Nothing,
                            !.old = Nothing, !.done = TRUE]
  <1>1. d \in Disk
    BY DEF StateOK
  <1>3. Nothing \in Setup
    BY DEF Nothing, Setup
  <1>4. e \in Disk
    <2> DEFINE e1 == [d EXCEPT !.pending = FALSE]
               e2 == [e1 EXCEPT !.mask = {}]
               e3 == [e2 EXCEPT !.new = Nothing]
               e4 == [e3 EXCEPT !.old = Nothing]
    <2>1. e1 \in Disk
      BY <1>1, SetPending
    <2>2. e3 \in Disk
      BY <1>3, <2>1, SetPlan
    <2>3. e4 \in Disk
      BY <1>3, <2>2, SetAside
    <2>4. [e4 EXCEPT !.done = TRUE] \in Disk
      BY <2>3, SetDone
    <2>5. e = [e4 EXCEPT !.done = TRUE]
      BY <1>1 DEF Disk
    <2> QED BY <2>4, <2>5
  <1>5. /\ ~e.pending /\ e.mask = {} /\ e.new = Nothing /\ e.old = Nothing
        /\ e.live = d.live
    BY <1>1 DEF Disk
  <1> QED BY <1>4, <1>5 DEF StateOK, DiskOK, PartialOK

(* A change of the live setup that no restore depends on.                  *)
LEMMA EditedState ==
  ASSUME NEW d, StateOK(d), NEW r \in Root, NEW v \in Value \cup {Absent},
         d.pending => d.old = Nothing /\ Has(d.new) = d.mask
  PROVE  LET e == [d EXCEPT !.live[r] = v]
         IN  /\ StateOK(e)
             /\ e.live = [d.live EXCEPT ![r] = v]
             /\ e.pending = d.pending /\ e.mask = d.mask /\ e.new = d.new
             /\ e.old = d.old /\ e.done = d.done /\ e.temp = d.temp
  <1> DEFINE e == [d EXCEPT !.live[r] = v]
  <1>1. d \in Disk /\ e \in Disk
    BY SetLive DEF StateOK
  <1>2. /\ e.live = [d.live EXCEPT ![r] = v]
        /\ e.pending = d.pending /\ e.mask = d.mask /\ e.new = d.new
        /\ e.old = d.old /\ e.done = d.done /\ e.temp = d.temp
    BY <1>1 DEF Disk
  <1>3. DiskOK(e)
    BY <1>2 DEF StateOK, DiskOK, Has
  <1>4. PartialOK(e)
    BY <1>1, <1>2 DEF PartialOK, InPlace, Has, Nothing
  <1> QED BY <1>1, <1>2, <1>3, <1>4 DEF StateOK

(* A workspace or the remains of a finished restore come and go.           *)
LEMMA ScratchState ==
  ASSUME NEW d, StateOK(d), NEW b \in BOOLEAN, NEW e,
         e = [d EXCEPT !.temp = b] \/ e = [d EXCEPT !.done = b]
  PROVE  /\ StateOK(e)
         /\ e.live = d.live /\ e.pending = d.pending /\ e.mask = d.mask
         /\ e.new = d.new /\ e.old = d.old
  <1>1. d \in Disk /\ e \in Disk
    BY SetTemp, SetDone DEF StateOK
  <1>2. /\ e.live = d.live /\ e.pending = d.pending /\ e.mask = d.mask
        /\ e.new = d.new /\ e.old = d.old
    BY <1>1 DEF Disk
  <1> QED BY <1>1, <1>2 DEF StateOK, DiskOK, PartialOK, InPlace

(* Both ways of writing keep what is known of the disk.                    *)
LEMMA WriteKeeps ==
  ASSUME DurInv, NEW e, StateOK(e), Write(e) \/ WriteSync(e)
  PROVE  DurInv'
  BY DEF DurInv, Write, WriteSync, StateOK, PartialOK, DiskOK, InPlace

(* A sync keeps the invariant of what it writes out.                       *)
LEMMA SyncKeeps ==
  ASSUME DurInv, SyncDisk
  PROVE  DurInv' /\ disk' = disk /\ dur' = {disk}
  BY WriteKeeps DEF DurInv, SyncDisk, WriteSync

(* What leaves the disk alone keeps what is known of it.                   *)
LEMMA DiskUnchanged == DurInv /\ UNCHANGED <<disk, dur>> => DurInv'
  BY DEF DurInv

-----------------------------------------------------------------------------
(* Every action preserves the invariant.                                   *)

(* DiscardUnpublished preserves the invariant.                             *)
LEMMA DiscardUnpublishedKeeps ==
  ASSUME IInv, DiscardUnpublished
  PROVE  IInv'
  <1> USE DEF IInv
  <1>1. /\ DurInv'
        /\ disk'.live = disk.live /\ disk'.pending = disk.pending
        /\ disk'.mask = disk.mask /\ disk'.new = disk.new /\ disk'.old = disk.old
    <2>1. StateOK(disk) /\ FALSE \in BOOLEAN
      BY DEF DurInv
    <2> QED BY <2>1, ScratchState, WriteKeeps, DiskUnchanged DEF DiscardUnpublished, Write
  <1>2. CtlInv'
    BY Sizes DEF DiscardUnpublished, CtlInv, Working, NextRoot, Refuse, Spend, Pc, ApplyPc, UpPc, Placing, Root, OrderInv
  <1>3. OrderInv'
    BY <1>1 DEF DiscardUnpublished, CtlInv, OrderInv, Working, NextRoot, Refuse, Spend, Pc, ApplyPc, UpPc, Loop, Placing, Root, InPlace, Installed
  <1>4. PassedInv'
    BY <1>1 DEF DiscardUnpublished, CtlInv, OrderInv, PassedInv, Working, NextRoot, Refuse, Spend, Pc, ApplyPc, UpPc, Loop, Placing, Root, InPlace, Installed, UntouchedInv
  <1>5. UntouchedInv'
    BY <1>1 DEF DiscardUnpublished, CtlInv, OrderInv, UntouchedInv, Working, NextRoot, Refuse, Spend, Pc, ApplyPc, UpPc, Loop, Placing
  <1>6. AcceptedInv'
    BY <1>1 DEF DiscardUnpublished, CtlInv, OrderInv, AcceptedInv, Working, NextRoot, Refuse, Spend, Pc, ApplyPc, UpPc, Loop, Placing, Write, WriteSync, SyncDisk
  <1> QED BY <1>1, <1>2, <1>3, <1>4, <1>5, <1>6

(* RemoveDone preserves the invariant.                                     *)
LEMMA RemoveDoneKeeps ==
  ASSUME IInv, RemoveDone
  PROVE  IInv'
  <1> USE DEF IInv
  <1>1. /\ DurInv'
        /\ disk'.live = disk.live /\ disk'.pending = disk.pending
        /\ disk'.mask = disk.mask /\ disk'.new = disk.new /\ disk'.old = disk.old
    <2>1. StateOK(disk) /\ FALSE \in BOOLEAN
      BY DEF DurInv
    <2> QED BY <2>1, ScratchState, WriteKeeps, DiskUnchanged DEF RemoveDone, Write
  <1>2. CtlInv'
    BY Sizes DEF RemoveDone, CtlInv, Working, NextRoot, Refuse, Spend, Pc, ApplyPc, UpPc, Placing, Root, OrderInv
  <1>3. OrderInv'
    BY <1>1 DEF RemoveDone, CtlInv, OrderInv, Working, NextRoot, Refuse, Spend, Pc, ApplyPc, UpPc, Loop, Placing, Root, InPlace, Installed
  <1>4. PassedInv'
    BY <1>1 DEF RemoveDone, CtlInv, OrderInv, PassedInv, Working, NextRoot, Refuse, Spend, Pc, ApplyPc, UpPc, Loop, Placing, Root, InPlace, Installed, UntouchedInv
  <1>5. UntouchedInv'
    BY <1>1 DEF RemoveDone, CtlInv, OrderInv, UntouchedInv, Working, NextRoot, Refuse, Spend, Pc, ApplyPc, UpPc, Loop, Placing
  <1>6. AcceptedInv'
    BY <1>1 DEF RemoveDone, CtlInv, OrderInv, AcceptedInv, Working, NextRoot, Refuse, Spend, Pc, ApplyPc, UpPc, Loop, Placing, Write, WriteSync, SyncDisk
  <1> QED BY <1>1, <1>2, <1>3, <1>4, <1>5, <1>6

(* SkipInstalled preserves the invariant.                                  *)
LEMMA SkipInstalledKeeps ==
  ASSUME IInv, SkipInstalled
  PROVE  IInv'
  <1> USE DEF IInv
  <1>1. /\ DurInv' /\ disk' = disk /\ dur' = dur
        /\ disk.live[i] # Absent
    <2>1. StateOK(disk) /\ disk.pending /\ i \in Root /\ InPlace(disk, i)
      BY DEF DurInv, OrderInv, SkipInstalled, Loop, Installed, InPlace
    <2>2. disk.live[i] # Absent
      BY <2>1 DEF StateOK, PartialOK
    <2> QED BY <2>2, DiskUnchanged DEF SkipInstalled, NextRoot, Refuse
  <1>2. CtlInv'
    BY Sizes DEF SkipInstalled, CtlInv, Working, NextRoot, Refuse, Spend, Pc, ApplyPc, UpPc, Placing, Root, OrderInv
  <1>3. OrderInv'
    BY <1>1 DEF SkipInstalled, CtlInv, OrderInv, Working, NextRoot, Refuse, Spend, Pc, ApplyPc, UpPc, Loop, Placing, Root, InPlace, Installed
  <1>4. PassedInv'
    BY <1>1 DEF SkipInstalled, CtlInv, OrderInv, PassedInv, Working, NextRoot, Refuse, Spend, Pc, ApplyPc, UpPc, Loop, Placing, Root, InPlace, Installed, UntouchedInv
  <1>5. UntouchedInv'
    BY <1>1 DEF SkipInstalled, CtlInv, OrderInv, UntouchedInv, Working, NextRoot, Refuse, Spend, Pc, ApplyPc, UpPc, Loop, Placing
  <1>6. AcceptedInv'
    BY <1>1 DEF SkipInstalled, CtlInv, OrderInv, AcceptedInv, Working, NextRoot, Refuse, Spend, Pc, ApplyPc, UpPc, Loop, Placing, Write, WriteSync, SyncDisk
  <1> QED BY <1>1, <1>2, <1>3, <1>4, <1>5, <1>6

(* SaveOld preserves the invariant.                                        *)
LEMMA SaveOldKeeps ==
  ASSUME IInv, SaveOld
  PROVE  IInv'
  <1> USE DEF IInv
  <1>1. /\ DurInv'
        /\ disk'.pending /\ disk'.mask = disk.mask /\ disk'.new = disk.new
        /\ disk'.live = [disk.live EXCEPT ![i] = Absent]
        /\ i \in Root /\ disk.old[i] = Absent /\ ~InPlace(disk', i)
        /\ disk'.live[i] = Absent
    <2>1. StateOK(disk) /\ disk.pending /\ i \in Root /\ ~InPlace(disk, i) /\ disk.live[i] # Absent
      BY DEF DurInv, OrderInv, SaveOld, Loop, Installed, InPlace
    <2>2. disk.old[i] = Absent
      BY <2>1 DEF StateOK, PartialOK
    <2>3. Write([disk EXCEPT !.old[i] = disk.live[i], !.live[i] = Absent])
      BY <2>2 DEF SaveOld
    <2> DEFINE e == Saved(disk, i)
    <2>4. /\ StateOK(e) /\ e.pending /\ e.mask = disk.mask /\ e.new = disk.new
          /\ e.live = [disk.live EXCEPT ![i] = Absent]
          /\ e.old = [disk.old EXCEPT ![i] = disk.live[i]]
      BY <2>1, <2>2, SavedState
    <2>5. disk' = e /\ Write(e)
      BY <2>3 DEF Write, Saved
    <2> HIDE DEF e
    <2>6. DurInv'
      BY <2>4, <2>5, WriteKeeps
    <2>7. e.live[i] = Absent
      BY <2>1, <2>4 DEF StateOK, Disk, Setup
    <2> QED BY <2>1, <2>2, <2>4, <2>5, <2>6, <2>7 DEF InPlace
  <1>2. CtlInv'
    BY Sizes DEF SaveOld, CtlInv, Working, NextRoot, Refuse, Spend, Pc, ApplyPc, UpPc, Placing, Root, OrderInv
  <1>3. OrderInv'
    BY <1>1 DEF SaveOld, CtlInv, OrderInv, Working, NextRoot, Refuse, Spend, Pc, ApplyPc, UpPc, Loop, Placing, Root, InPlace, Installed
  <1>4. PassedInv'
    BY <1>1 DEF SaveOld, CtlInv, OrderInv, PassedInv, Working, NextRoot, Refuse, Spend, Pc, ApplyPc, UpPc, Loop, Placing, Root, InPlace, Installed, UntouchedInv
  <1>5. UntouchedInv'
    BY <1>1 DEF SaveOld, CtlInv, OrderInv, UntouchedInv, Working, NextRoot, Refuse, Spend, Pc, ApplyPc, UpPc, Loop, Placing
  <1>6. AcceptedInv'
    BY <1>1 DEF SaveOld, CtlInv, OrderInv, AcceptedInv, Working, NextRoot, Refuse, Spend, Pc, ApplyPc, UpPc, Loop, Placing, Write, WriteSync, SyncDisk
  <1> QED BY <1>1, <1>2, <1>3, <1>4, <1>5, <1>6

(* SyncSaved preserves the invariant.                                      *)
LEMMA SyncSavedKeeps ==
  ASSUME IInv, SyncSaved
  PROVE  IInv'
  <1> USE DEF IInv
  <1>1. DurInv' /\ disk' = disk /\ dur' = {disk} /\ disk \in dur
    BY SyncKeeps DEF SyncSaved, DurInv
  <1>2. CtlInv'
    BY Sizes DEF SyncSaved, CtlInv, Working, NextRoot, Refuse, Spend, Pc, ApplyPc, UpPc, Placing, Root, OrderInv
  <1>3. OrderInv'
    BY <1>1 DEF SyncSaved, CtlInv, OrderInv, Working, NextRoot, Refuse, Spend, Pc, ApplyPc, UpPc, Loop, Placing, Root, InPlace, Installed
  <1>4. PassedInv'
    BY <1>1 DEF SyncSaved, CtlInv, OrderInv, PassedInv, Working, NextRoot, Refuse, Spend, Pc, ApplyPc, UpPc, Loop, Placing, Root, InPlace, Installed, UntouchedInv
  <1>5. UntouchedInv'
    BY <1>1 DEF SyncSaved, CtlInv, OrderInv, UntouchedInv, Working, NextRoot, Refuse, Spend, Pc, ApplyPc, UpPc, Loop, Placing
  <1>6. AcceptedInv'
    BY <1>1 DEF SyncSaved, CtlInv, OrderInv, AcceptedInv, Working, NextRoot, Refuse, Spend, Pc, ApplyPc, UpPc, Loop, Placing, Write, WriteSync, SyncDisk
  <1> QED BY <1>1, <1>2, <1>3, <1>4, <1>5, <1>6

(* NothingToInstall preserves the invariant.                               *)
LEMMA NothingToInstallKeeps ==
  ASSUME IInv, NothingToInstall
  PROVE  IInv'
  <1> USE DEF IInv
  <1>1. DurInv' /\ disk' = disk /\ dur' = dur
    BY DiskUnchanged DEF NothingToInstall, NextRoot, Refuse
  <1>2. CtlInv'
    BY Sizes DEF NothingToInstall, CtlInv, Working, NextRoot, Refuse, Spend, Pc, ApplyPc, UpPc, Placing, Root, OrderInv
  <1>3. OrderInv'
    BY <1>1 DEF NothingToInstall, CtlInv, OrderInv, Working, NextRoot, Refuse, Spend, Pc, ApplyPc, UpPc, Loop, Placing, Root, InPlace, Installed
  <1>4. PassedInv'
    BY <1>1 DEF NothingToInstall, CtlInv, OrderInv, PassedInv, Working, NextRoot, Refuse, Spend, Pc, ApplyPc, UpPc, Loop, Placing, Root, InPlace, Installed, UntouchedInv
  <1>5. UntouchedInv'
    BY <1>1 DEF NothingToInstall, CtlInv, OrderInv, UntouchedInv, Working, NextRoot, Refuse, Spend, Pc, ApplyPc, UpPc, Loop, Placing
  <1>6. AcceptedInv'
    BY <1>1 DEF NothingToInstall, CtlInv, OrderInv, AcceptedInv, Working, NextRoot, Refuse, Spend, Pc, ApplyPc, UpPc, Loop, Placing, Write, WriteSync, SyncDisk
  <1> QED BY <1>1, <1>2, <1>3, <1>4, <1>5, <1>6

(* InstallNew preserves the invariant.                                     *)
LEMMA InstallNewKeeps ==
  ASSUME IInv, InstallNew
  PROVE  IInv'
  <1> USE DEF IInv
  <1>1. /\ DurInv'
        /\ disk'.pending /\ disk'.mask = disk.mask /\ i \in disk.mask
        /\ disk'.new = [disk.new EXCEPT ![i] = Absent]
        /\ disk'.live = [disk.live EXCEPT ![i] = disk.new[i]]
        /\ i \in Root /\ disk'.new[i] = Absent
    <2>1. StateOK(disk) /\ disk.pending /\ i \in Root /\ disk.live[i] = Absent /\ disk.new[i] # Absent
      BY DEF DurInv, OrderInv, InstallNew, Placing, Loop
    <2> DEFINE e == Placed(disk, i)
    <2>2. /\ StateOK(e) /\ e.pending /\ e.mask = disk.mask /\ i \in disk.mask
          /\ e.live = [disk.live EXCEPT ![i] = disk.new[i]]
          /\ e.new = [disk.new EXCEPT ![i] = Absent]
      BY <2>1, InstalledState
    <2>3. disk' = e /\ Write(e)
      BY DEF InstallNew, Write, Placed
    <2> HIDE DEF e
    <2>4. DurInv'
      BY <2>2, <2>3, WriteKeeps
    <2>5. e.new[i] = Absent
      BY <2>1, <2>2 DEF StateOK, Disk, Setup
    <2> QED BY <2>1, <2>2, <2>3, <2>4, <2>5
  <1>2. CtlInv'
    BY Sizes DEF InstallNew, CtlInv, Working, NextRoot, Refuse, Spend, Pc, ApplyPc, UpPc, Placing, Root, OrderInv
  <1>3. OrderInv'
    BY <1>1 DEF InstallNew, CtlInv, OrderInv, Working, NextRoot, Refuse, Spend, Pc, ApplyPc, UpPc, Loop, Placing, Root, InPlace, Installed
  <1>4. PassedInv'
    BY <1>1 DEF InstallNew, CtlInv, OrderInv, PassedInv, Working, NextRoot, Refuse, Spend, Pc, ApplyPc, UpPc, Loop, Placing, Root, InPlace, Installed, UntouchedInv
  <1>5. UntouchedInv'
    BY <1>1 DEF InstallNew, CtlInv, OrderInv, UntouchedInv, Working, NextRoot, Refuse, Spend, Pc, ApplyPc, UpPc, Loop, Placing
  <1>6. AcceptedInv'
    BY <1>1 DEF InstallNew, CtlInv, OrderInv, AcceptedInv, Working, NextRoot, Refuse, Spend, Pc, ApplyPc, UpPc, Loop, Placing, Write, WriteSync, SyncDisk
  <1> QED BY <1>1, <1>2, <1>3, <1>4, <1>5, <1>6

(* SyncInstalled preserves the invariant.                                  *)
LEMMA SyncInstalledKeeps ==
  ASSUME IInv, SyncInstalled
  PROVE  IInv'
  <1> USE DEF IInv
  <1>1. DurInv' /\ disk' = disk /\ dur' = {disk} /\ disk \in dur
    BY SyncKeeps DEF SyncInstalled, DurInv
  <1>2. CtlInv'
    BY Sizes DEF SyncInstalled, CtlInv, Working, NextRoot, Refuse, Spend, Pc, ApplyPc, UpPc, Placing, Root, OrderInv
  <1>3. OrderInv'
    BY <1>1 DEF SyncInstalled, CtlInv, OrderInv, Working, NextRoot, Refuse, Spend, Pc, ApplyPc, UpPc, Loop, Placing, Root, InPlace, Installed
  <1>4. PassedInv'
    BY <1>1 DEF SyncInstalled, CtlInv, OrderInv, PassedInv, Working, NextRoot, Refuse, Spend, Pc, ApplyPc, UpPc, Loop, Placing, Root, InPlace, Installed, UntouchedInv
  <1>5. UntouchedInv'
    BY <1>1 DEF SyncInstalled, CtlInv, OrderInv, UntouchedInv, Working, NextRoot, Refuse, Spend, Pc, ApplyPc, UpPc, Loop, Placing
  <1>6. AcceptedInv'
    BY <1>1 DEF SyncInstalled, CtlInv, OrderInv, AcceptedInv, Working, NextRoot, Refuse, Spend, Pc, ApplyPc, UpPc, Loop, Placing, Write, WriteSync, SyncDisk
  <1> QED BY <1>1, <1>2, <1>3, <1>4, <1>5, <1>6

(* Retire preserves the invariant.                                         *)
LEMMA RetireKeeps ==
  ASSUME IInv, Retire
  PROVE  IInv'
  <1> USE DEF IInv
  <1>1. DurInv' /\ ~disk'.pending
    <2>1. StateOK(disk)
      BY DEF DurInv
    <2> QED BY <2>1, RetiredState, WriteKeeps DEF Retire, Write
  <1>2. CtlInv'
    BY Sizes DEF Retire, CtlInv, Working, NextRoot, Refuse, Spend, Pc, ApplyPc, UpPc, Placing, Root, OrderInv
  <1>3. OrderInv'
    BY <1>1 DEF Retire, CtlInv, OrderInv, Working, NextRoot, Refuse, Spend, Pc, ApplyPc, UpPc, Loop, Placing, Root, InPlace, Installed
  <1>4. PassedInv'
    BY <1>1 DEF Retire, CtlInv, OrderInv, PassedInv, Working, NextRoot, Refuse, Spend, Pc, ApplyPc, UpPc, Loop, Placing, Root, InPlace, Installed, UntouchedInv
  <1>5. UntouchedInv'
    BY <1>1 DEF Retire, CtlInv, OrderInv, UntouchedInv, Working, NextRoot, Refuse, Spend, Pc, ApplyPc, UpPc, Loop, Placing
  <1>6. AcceptedInv'
    BY <1>1 DEF Retire, CtlInv, OrderInv, AcceptedInv, Working, NextRoot, Refuse, Spend, Pc, ApplyPc, UpPc, Loop, Placing, Write, WriteSync, SyncDisk
  <1> QED BY <1>1, <1>2, <1>3, <1>4, <1>5, <1>6

(* SyncRetired preserves the invariant.                                    *)
LEMMA SyncRetiredKeeps ==
  ASSUME IInv, SyncRetired
  PROVE  IInv'
  <1> USE DEF IInv
  <1>1. DurInv' /\ disk' = disk /\ dur' = {disk} /\ disk \in dur
    BY SyncKeeps DEF SyncRetired, DurInv
  <1>2. CtlInv'
    BY Sizes DEF SyncRetired, CtlInv, Working, NextRoot, Refuse, Spend, Pc, ApplyPc, UpPc, Placing, Root, OrderInv
  <1>3. OrderInv'
    BY <1>1 DEF SyncRetired, CtlInv, OrderInv, Working, NextRoot, Refuse, Spend, Pc, ApplyPc, UpPc, Loop, Placing, Root, InPlace, Installed
  <1>4. PassedInv'
    BY <1>1 DEF SyncRetired, CtlInv, OrderInv, PassedInv, Working, NextRoot, Refuse, Spend, Pc, ApplyPc, UpPc, Loop, Placing, Root, InPlace, Installed, UntouchedInv
  <1>5. UntouchedInv'
    BY <1>1 DEF SyncRetired, CtlInv, OrderInv, UntouchedInv, Working, NextRoot, Refuse, Spend, Pc, ApplyPc, UpPc, Loop, Placing
  <1>6. AcceptedInv'
    BY <1>1 DEF SyncRetired, CtlInv, OrderInv, AcceptedInv, Working, NextRoot, Refuse, Spend, Pc, ApplyPc, UpPc, Loop, Placing, Write, WriteSync, SyncDisk
  <1> QED BY <1>1, <1>2, <1>3, <1>4, <1>5, <1>6

(* DropDone preserves the invariant.                                       *)
LEMMA DropDoneKeeps ==
  ASSUME IInv, DropDone
  PROVE  IInv'
  <1> USE DEF IInv
  <1>1. /\ DurInv'
        /\ disk'.live = disk.live /\ disk'.pending = disk.pending
        /\ disk'.mask = disk.mask /\ disk'.new = disk.new /\ disk'.old = disk.old
    <2>1. StateOK(disk) /\ FALSE \in BOOLEAN
      BY DEF DurInv
    <2> QED BY <2>1, ScratchState, WriteKeeps, DiskUnchanged DEF DropDone, Write
  <1>2. CtlInv'
    BY Sizes DEF DropDone, CtlInv, Working, NextRoot, Refuse, Spend, Pc, ApplyPc, UpPc, Placing, Root, OrderInv
  <1>3. OrderInv'
    BY <1>1 DEF DropDone, CtlInv, OrderInv, Working, NextRoot, Refuse, Spend, Pc, ApplyPc, UpPc, Loop, Placing, Root, InPlace, Installed
  <1>4. PassedInv'
    BY <1>1 DEF DropDone, CtlInv, OrderInv, PassedInv, Working, NextRoot, Refuse, Spend, Pc, ApplyPc, UpPc, Loop, Placing, Root, InPlace, Installed, UntouchedInv
  <1>5. UntouchedInv'
    BY <1>1 DEF DropDone, CtlInv, OrderInv, UntouchedInv, Working, NextRoot, Refuse, Spend, Pc, ApplyPc, UpPc, Loop, Placing
  <1>6. AcceptedInv'
    BY <1>1 DEF DropDone, CtlInv, OrderInv, AcceptedInv, Working, NextRoot, Refuse, Spend, Pc, ApplyPc, UpPc, Loop, Placing, Write, WriteSync, SyncDisk
  <1> QED BY <1>1, <1>2, <1>3, <1>4, <1>5, <1>6

(* EnsureSfx preserves the invariant.                                      *)
LEMMA EnsureSfxKeeps ==
  ASSUME IInv, EnsureSfx
  PROVE  IInv'
  <1> USE DEF IInv
  <1>1. DurInv' /\ ~disk'.pending
    <2>1. StateOK(disk) /\ ~disk.pending /\ Sfx \in Root
      BY ConstantsAssumption DEF DurInv, OrderInv, EnsureSfx
    <2> DEFINE v == IF disk.live[Sfx] = Absent THEN Empty ELSE disk.live[Sfx]
    <2>2. v \in Value \cup {Absent}
      BY <2>1, ConstantsAssumption DEF StateOK, Disk, Setup
    <2>3. Write([disk EXCEPT !.live[Sfx] = v])
      BY DEF EnsureSfx
    <2> QED BY <2>1, <2>2, <2>3, EditedState, WriteKeeps DEF Write
  <1>2. CtlInv'
    BY Sizes DEF EnsureSfx, CtlInv, Working, NextRoot, Refuse, Spend, Pc, ApplyPc, UpPc, Placing, Root, OrderInv
  <1>3. OrderInv'
    BY <1>1 DEF EnsureSfx, CtlInv, OrderInv, Working, NextRoot, Refuse, Spend, Pc, ApplyPc, UpPc, Loop, Placing, Root, InPlace, Installed
  <1>4. PassedInv'
    BY <1>1 DEF EnsureSfx, CtlInv, OrderInv, PassedInv, Working, NextRoot, Refuse, Spend, Pc, ApplyPc, UpPc, Loop, Placing, Root, InPlace, Installed, UntouchedInv
  <1>5. UntouchedInv'
    BY <1>1 DEF EnsureSfx, CtlInv, OrderInv, UntouchedInv, Working, NextRoot, Refuse, Spend, Pc, ApplyPc, UpPc, Loop, Placing
  <1>6. AcceptedInv'
    BY <1>1 DEF EnsureSfx, CtlInv, OrderInv, AcceptedInv, Working, NextRoot, Refuse, Spend, Pc, ApplyPc, UpPc, Loop, Placing, Write, WriteSync, SyncDisk
  <1> QED BY <1>1, <1>2, <1>3, <1>4, <1>5, <1>6

(* ApplyFails preserves the invariant.                                     *)
LEMMA ApplyFailsKeeps ==
  ASSUME IInv, ApplyFails
  PROVE  IInv'
  <1> USE DEF IInv
  <1>1. DurInv' /\ disk' = disk /\ dur' = dur
    BY DiskUnchanged DEF ApplyFails, NextRoot, Refuse
  <1>2. CtlInv'
    BY Sizes DEF ApplyFails, CtlInv, Working, NextRoot, Refuse, Spend, Pc, ApplyPc, UpPc, Placing, Root, OrderInv
  <1>3. OrderInv'
    BY <1>1 DEF ApplyFails, CtlInv, OrderInv, Working, NextRoot, Refuse, Spend, Pc, ApplyPc, UpPc, Loop, Placing, Root, InPlace, Installed
  <1>4. PassedInv'
    BY <1>1 DEF ApplyFails, CtlInv, OrderInv, PassedInv, Working, NextRoot, Refuse, Spend, Pc, ApplyPc, UpPc, Loop, Placing, Root, InPlace, Installed, UntouchedInv
  <1>5. UntouchedInv'
    BY <1>1 DEF ApplyFails, CtlInv, OrderInv, UntouchedInv, Working, NextRoot, Refuse, Spend, Pc, ApplyPc, UpPc, Loop, Placing
  <1>6. AcceptedInv'
    BY <1>1 DEF ApplyFails, CtlInv, OrderInv, AcceptedInv, Working, NextRoot, Refuse, Spend, Pc, ApplyPc, UpPc, Loop, Placing, Write, WriteSync, SyncDisk
  <1> QED BY <1>1, <1>2, <1>3, <1>4, <1>5, <1>6

(* Respawn preserves the invariant.                                        *)
LEMMA RespawnKeeps ==
  ASSUME IInv, Respawn
  PROVE  IInv'
  <1> USE DEF IInv
  <1>1. DurInv' /\ disk' = disk /\ dur' = dur
    BY DiskUnchanged DEF Respawn, NextRoot, Refuse
  <1>2. CtlInv'
    BY Sizes DEF Respawn, CtlInv, Working, NextRoot, Refuse, Spend, Pc, ApplyPc, UpPc, Placing, Root, OrderInv
  <1>3. OrderInv'
    BY <1>1 DEF Respawn, CtlInv, OrderInv, Working, NextRoot, Refuse, Spend, Pc, ApplyPc, UpPc, Loop, Placing, Root, InPlace, Installed
  <1>4. PassedInv'
    BY <1>1 DEF Respawn, CtlInv, OrderInv, PassedInv, Working, NextRoot, Refuse, Spend, Pc, ApplyPc, UpPc, Loop, Placing, Root, InPlace, Installed, UntouchedInv
  <1>5. UntouchedInv'
    BY <1>1 DEF Respawn, CtlInv, OrderInv, UntouchedInv, Working, NextRoot, Refuse, Spend, Pc, ApplyPc, UpPc, Loop, Placing
  <1>6. AcceptedInv'
    BY <1>1 DEF Respawn, CtlInv, OrderInv, AcceptedInv, Working, NextRoot, Refuse, Spend, Pc, ApplyPc, UpPc, Loop, Placing, Write, WriteSync, SyncDisk
  <1> QED BY <1>1, <1>2, <1>3, <1>4, <1>5, <1>6

(* Edit preserves the invariant.                                           *)
LEMMA EditKeeps ==
  ASSUME IInv, Edit
  PROVE  IInv'
  <1> USE DEF IInv
  <1>1. /\ DurInv'
        /\ disk'.pending = disk.pending /\ disk'.mask = disk.mask
        /\ disk'.new = disk.new /\ disk'.old = disk.old
        /\ dur' = dur \cup {disk'} /\ disk \in dur
    <2>1. StateOK(disk) /\ (disk.pending => disk.old = Nothing /\ Has(disk.new) = disk.mask)
      BY DEF DurInv, UntouchedInv, Edit
    <2>2. PICK r \in Root, v \in Value \cup {Absent} : Write([disk EXCEPT !.live[r] = v])
      BY DEF Edit
    <2> DEFINE e == [disk EXCEPT !.live[r] = v]
    <2>3. /\ StateOK(e) /\ e.pending = disk.pending /\ e.mask = disk.mask
          /\ e.new = disk.new /\ e.old = disk.old
      BY <2>1, EditedState
    <2>4. disk' = e /\ dur' = dur \cup {e} /\ DurInv'
      BY <2>2, <2>3, WriteKeeps DEF Write
    <2> QED BY <2>3, <2>4 DEF DurInv
  <1>2. CtlInv'
    BY Sizes DEF Edit, CtlInv, Working, NextRoot, Refuse, Spend, Pc, ApplyPc, UpPc, Placing, Root, OrderInv
  <1>3. OrderInv'
    BY <1>1 DEF Edit, CtlInv, OrderInv, Working, NextRoot, Refuse, Spend, Pc, ApplyPc, UpPc, Loop, Placing, Root, InPlace, Installed
  <1>4. PassedInv'
    BY <1>1 DEF Edit, CtlInv, OrderInv, PassedInv, Working, NextRoot, Refuse, Spend, Pc, ApplyPc, UpPc, Loop, Placing, Root, InPlace, Installed, UntouchedInv
  <1>5. UntouchedInv'
    BY <1>1 DEF Edit, CtlInv, OrderInv, UntouchedInv, Working, NextRoot, Refuse, Spend, Pc, ApplyPc, UpPc, Loop, Placing
  <1>6. AcceptedInv'
    BY <1>1 DEF Edit, CtlInv, OrderInv, AcceptedInv, Working, NextRoot, Refuse, Spend, Pc, ApplyPc, UpPc, Loop, Placing, Write, WriteSync, SyncDisk
  <1> QED BY <1>1, <1>2, <1>3, <1>4, <1>5, <1>6

(* AlreadyStaged preserves the invariant.                                  *)
LEMMA AlreadyStagedKeeps ==
  ASSUME IInv, AlreadyStaged
  PROVE  IInv'
  <1> USE DEF IInv
  <1>1. DurInv' /\ disk' = disk /\ dur' = dur
    BY DiskUnchanged DEF AlreadyStaged, NextRoot, Refuse
  <1>2. CtlInv'
    BY Sizes DEF AlreadyStaged, CtlInv, Working, NextRoot, Refuse, Spend, Pc, ApplyPc, UpPc, Placing, Root, OrderInv
  <1>3. OrderInv'
    BY <1>1 DEF AlreadyStaged, CtlInv, OrderInv, Working, NextRoot, Refuse, Spend, Pc, ApplyPc, UpPc, Loop, Placing, Root, InPlace, Installed
  <1>4. PassedInv'
    BY <1>1 DEF AlreadyStaged, CtlInv, OrderInv, PassedInv, Working, NextRoot, Refuse, Spend, Pc, ApplyPc, UpPc, Loop, Placing, Root, InPlace, Installed, UntouchedInv
  <1>5. UntouchedInv'
    BY <1>1 DEF AlreadyStaged, CtlInv, OrderInv, UntouchedInv, Working, NextRoot, Refuse, Spend, Pc, ApplyPc, UpPc, Loop, Placing
  <1>6. AcceptedInv'
    BY <1>1 DEF AlreadyStaged, CtlInv, OrderInv, AcceptedInv, Working, NextRoot, Refuse, Spend, Pc, ApplyPc, UpPc, Loop, Placing, Write, WriteSync, SyncDisk
  <1> QED BY <1>1, <1>2, <1>3, <1>4, <1>5, <1>6

(* BeginStage preserves the invariant.                                     *)
LEMMA BeginStageKeeps ==
  ASSUME IInv, BeginStage
  PROVE  IInv'
  <1> USE DEF IInv
  <1>1. /\ DurInv'
        /\ disk'.live = disk.live /\ disk'.pending = disk.pending
        /\ disk'.mask = disk.mask /\ disk'.new = disk.new /\ disk'.old = disk.old
    <2>1. StateOK(disk) /\ TRUE \in BOOLEAN
      BY DEF DurInv
    <2> QED BY <2>1, ScratchState, WriteKeeps, DiskUnchanged DEF BeginStage, Write
  <1>2. CtlInv'
    BY Sizes DEF BeginStage, CtlInv, Working, NextRoot, Refuse, Spend, Pc, ApplyPc, UpPc, Placing, Root, OrderInv
  <1>3. OrderInv'
    BY <1>1 DEF BeginStage, CtlInv, OrderInv, Working, NextRoot, Refuse, Spend, Pc, ApplyPc, UpPc, Loop, Placing, Root, InPlace, Installed
  <1>4. PassedInv'
    BY <1>1 DEF BeginStage, CtlInv, OrderInv, PassedInv, Working, NextRoot, Refuse, Spend, Pc, ApplyPc, UpPc, Loop, Placing, Root, InPlace, Installed, UntouchedInv
  <1>5. UntouchedInv'
    BY <1>1 DEF BeginStage, CtlInv, OrderInv, UntouchedInv, Working, NextRoot, Refuse, Spend, Pc, ApplyPc, UpPc, Loop, Placing
  <1>6. AcceptedInv'
    BY <1>1 DEF BeginStage, CtlInv, OrderInv, AcceptedInv, Working, NextRoot, Refuse, Spend, Pc, ApplyPc, UpPc, Loop, Placing, Write, WriteSync, SyncDisk
  <1> QED BY <1>1, <1>2, <1>3, <1>4, <1>5, <1>6

(* SyncStaged preserves the invariant.                                     *)
LEMMA SyncStagedKeeps ==
  ASSUME IInv, SyncStaged
  PROVE  IInv'
  <1> USE DEF IInv
  <1>1. DurInv' /\ disk' = disk /\ dur' = {disk} /\ disk \in dur
    BY SyncKeeps DEF SyncStaged, DurInv
  <1>2. CtlInv'
    BY Sizes DEF SyncStaged, CtlInv, Working, NextRoot, Refuse, Spend, Pc, ApplyPc, UpPc, Placing, Root, OrderInv
  <1>3. OrderInv'
    BY <1>1 DEF SyncStaged, CtlInv, OrderInv, Working, NextRoot, Refuse, Spend, Pc, ApplyPc, UpPc, Loop, Placing, Root, InPlace, Installed
  <1>4. PassedInv'
    BY <1>1 DEF SyncStaged, CtlInv, OrderInv, PassedInv, Working, NextRoot, Refuse, Spend, Pc, ApplyPc, UpPc, Loop, Placing, Root, InPlace, Installed, UntouchedInv
  <1>5. UntouchedInv'
    BY <1>1 DEF SyncStaged, CtlInv, OrderInv, UntouchedInv, Working, NextRoot, Refuse, Spend, Pc, ApplyPc, UpPc, Loop, Placing
  <1>6. AcceptedInv'
    BY <1>1 DEF SyncStaged, CtlInv, OrderInv, AcceptedInv, Working, NextRoot, Refuse, Spend, Pc, ApplyPc, UpPc, Loop, Placing, Write, WriteSync, SyncDisk
  <1> QED BY <1>1, <1>2, <1>3, <1>4, <1>5, <1>6

(* StageFails preserves the invariant.                                     *)
LEMMA StageFailsKeeps ==
  ASSUME IInv, StageFails
  PROVE  IInv'
  <1> USE DEF IInv
  <1>1. /\ DurInv'
        /\ disk'.live = disk.live /\ disk'.pending = disk.pending
        /\ disk'.mask = disk.mask /\ disk'.new = disk.new /\ disk'.old = disk.old
    <2>1. StateOK(disk) /\ FALSE \in BOOLEAN
      BY DEF DurInv
    <2> QED BY <2>1, ScratchState, WriteKeeps, DiskUnchanged DEF StageFails, Write
  <1>2. CtlInv'
    BY Sizes DEF StageFails, CtlInv, Working, NextRoot, Refuse, Spend, Pc, ApplyPc, UpPc, Placing, Root, OrderInv
  <1>3. OrderInv'
    BY <1>1 DEF StageFails, CtlInv, OrderInv, Working, NextRoot, Refuse, Spend, Pc, ApplyPc, UpPc, Loop, Placing, Root, InPlace, Installed
  <1>4. PassedInv'
    BY <1>1 DEF StageFails, CtlInv, OrderInv, PassedInv, Working, NextRoot, Refuse, Spend, Pc, ApplyPc, UpPc, Loop, Placing, Root, InPlace, Installed, UntouchedInv
  <1>5. UntouchedInv'
    BY <1>1 DEF StageFails, CtlInv, OrderInv, UntouchedInv, Working, NextRoot, Refuse, Spend, Pc, ApplyPc, UpPc, Loop, Placing
  <1>6. AcceptedInv'
    BY <1>1 DEF StageFails, CtlInv, OrderInv, AcceptedInv, Working, NextRoot, Refuse, Spend, Pc, ApplyPc, UpPc, Loop, Placing, Write, WriteSync, SyncDisk
  <1> QED BY <1>1, <1>2, <1>3, <1>4, <1>5, <1>6

(* Publish preserves the invariant.                                        *)
LEMMA PublishKeeps ==
  ASSUME IInv, Publish
  PROVE  IInv'
  <1> USE DEF IInv
  <1>1. /\ DurInv'
        /\ disk'.pending /\ disk'.old = Nothing /\ Has(disk'.new) = disk'.mask
    <2>1. StateOK(disk) /\ req \in ValidArchive
      BY DEF DurInv, CtlInv, Publish
    <2> DEFINE e == Published(disk, req)
    <2>2. StateOK(e) /\ e.pending /\ e.old = Nothing /\ Has(e.new) = e.mask
      BY <2>1, PublishedState
    <2>3. disk' = e /\ Write(e)
      BY DEF Publish, Write, Published
    <2> HIDE DEF e
    <2> QED BY <2>2, <2>3, WriteKeeps
  <1>2. CtlInv'
    BY Sizes DEF Publish, CtlInv, Working, NextRoot, Refuse, Spend, Pc, ApplyPc, UpPc, Placing, Root, OrderInv
  <1>3. OrderInv'
    BY <1>1 DEF Publish, CtlInv, OrderInv, Working, NextRoot, Refuse, Spend, Pc, ApplyPc, UpPc, Loop, Placing, Root, InPlace, Installed
  <1>4. PassedInv'
    BY <1>1 DEF Publish, CtlInv, OrderInv, PassedInv, Working, NextRoot, Refuse, Spend, Pc, ApplyPc, UpPc, Loop, Placing, Root, InPlace, Installed, UntouchedInv
  <1>5. UntouchedInv'
    BY <1>1 DEF Publish, CtlInv, OrderInv, UntouchedInv, Working, NextRoot, Refuse, Spend, Pc, ApplyPc, UpPc, Loop, Placing
  <1>6. AcceptedInv'
    BY <1>1 DEF Publish, CtlInv, OrderInv, AcceptedInv, Working, NextRoot, Refuse, Spend, Pc, ApplyPc, UpPc, Loop, Placing, Write, WriteSync, SyncDisk
  <1> QED BY <1>1, <1>2, <1>3, <1>4, <1>5, <1>6

(* SyncPublished preserves the invariant.                                  *)
LEMMA SyncPublishedKeeps ==
  ASSUME IInv, SyncPublished
  PROVE  IInv'
  <1> USE DEF IInv
  <1>1. DurInv' /\ disk' = disk /\ dur' = {disk} /\ disk \in dur
    BY SyncKeeps DEF SyncPublished, DurInv
  <1>2. CtlInv'
    BY Sizes DEF SyncPublished, CtlInv, Working, NextRoot, Refuse, Spend, Pc, ApplyPc, UpPc, Placing, Root, OrderInv
  <1>3. OrderInv'
    BY <1>1 DEF SyncPublished, CtlInv, OrderInv, Working, NextRoot, Refuse, Spend, Pc, ApplyPc, UpPc, Loop, Placing, Root, InPlace, Installed
  <1>4. PassedInv'
    BY <1>1 DEF SyncPublished, CtlInv, OrderInv, PassedInv, Working, NextRoot, Refuse, Spend, Pc, ApplyPc, UpPc, Loop, Placing, Root, InPlace, Installed, UntouchedInv
  <1>5. UntouchedInv'
    BY <1>1 DEF SyncPublished, CtlInv, OrderInv, UntouchedInv, Working, NextRoot, Refuse, Spend, Pc, ApplyPc, UpPc, Loop, Placing
  <1>6. AcceptedInv'
    BY <1>1 DEF SyncPublished, CtlInv, OrderInv, AcceptedInv, Working, NextRoot, Refuse, Spend, Pc, ApplyPc, UpPc, Loop, Placing, Write, WriteSync, SyncDisk
  <1> QED BY <1>1, <1>2, <1>3, <1>4, <1>5, <1>6

(* SyncPublishedFails preserves the invariant.                             *)
LEMMA SyncPublishedFailsKeeps ==
  ASSUME IInv, SyncPublishedFails
  PROVE  IInv'
  <1> USE DEF IInv
  <1>1. DurInv' /\ disk' = disk /\ dur' = dur
    BY DiskUnchanged DEF SyncPublishedFails, NextRoot, Refuse
  <1>2. CtlInv'
    BY Sizes DEF SyncPublishedFails, CtlInv, Working, NextRoot, Refuse, Spend, Pc, ApplyPc, UpPc, Placing, Root, OrderInv
  <1>3. OrderInv'
    BY <1>1 DEF SyncPublishedFails, CtlInv, OrderInv, Working, NextRoot, Refuse, Spend, Pc, ApplyPc, UpPc, Loop, Placing, Root, InPlace, Installed
  <1>4. PassedInv'
    BY <1>1 DEF SyncPublishedFails, CtlInv, OrderInv, PassedInv, Working, NextRoot, Refuse, Spend, Pc, ApplyPc, UpPc, Loop, Placing, Root, InPlace, Installed, UntouchedInv
  <1>5. UntouchedInv'
    BY <1>1 DEF SyncPublishedFails, CtlInv, OrderInv, UntouchedInv, Working, NextRoot, Refuse, Spend, Pc, ApplyPc, UpPc, Loop, Placing
  <1>6. AcceptedInv'
    BY <1>1 DEF SyncPublishedFails, CtlInv, OrderInv, AcceptedInv, Working, NextRoot, Refuse, Spend, Pc, ApplyPc, UpPc, Loop, Placing, Write, WriteSync, SyncDisk
  <1> QED BY <1>1, <1>2, <1>3, <1>4, <1>5, <1>6

(* Reboot preserves the invariant.                                         *)
LEMMA RebootKeeps ==
  ASSUME IInv, Reboot
  PROVE  IInv'
  <1> USE DEF IInv
  <1>1. DurInv' /\ disk' = disk /\ dur' = {disk} /\ disk \in dur
    BY SyncKeeps DEF Reboot, DurInv
  <1>2. CtlInv'
    BY Sizes DEF Reboot, CtlInv, Working, NextRoot, Refuse, Spend, Pc, ApplyPc, UpPc, Placing, Root, OrderInv
  <1>3. OrderInv'
    BY <1>1 DEF Reboot, CtlInv, OrderInv, Working, NextRoot, Refuse, Spend, Pc, ApplyPc, UpPc, Loop, Placing, Root, InPlace, Installed
  <1>4. PassedInv'
    BY <1>1 DEF Reboot, CtlInv, OrderInv, PassedInv, Working, NextRoot, Refuse, Spend, Pc, ApplyPc, UpPc, Loop, Placing, Root, InPlace, Installed, UntouchedInv
  <1>5. UntouchedInv'
    BY <1>1 DEF Reboot, CtlInv, OrderInv, UntouchedInv, Working, NextRoot, Refuse, Spend, Pc, ApplyPc, UpPc, Loop, Placing
  <1>6. AcceptedInv'
    BY <1>1 DEF Reboot, CtlInv, OrderInv, AcceptedInv, Working, NextRoot, Refuse, Spend, Pc, ApplyPc, UpPc, Loop, Placing, Write, WriteSync, SyncDisk
  <1> QED BY <1>1, <1>2, <1>3, <1>4, <1>5, <1>6

(* RuntimeDies preserves the invariant.                                    *)
LEMMA RuntimeDiesKeeps ==
  ASSUME IInv, RuntimeDies
  PROVE  IInv'
  <1> USE DEF IInv
  <1>1. DurInv' /\ disk' = disk /\ dur' = dur
    BY DiskUnchanged DEF RuntimeDies, NextRoot, Refuse
  <1>2. CtlInv'
    BY Sizes DEF RuntimeDies, CtlInv, Working, NextRoot, Refuse, Spend, Pc, ApplyPc, UpPc, Placing, Root, OrderInv
  <1>3. OrderInv'
    BY <1>1 DEF RuntimeDies, CtlInv, OrderInv, Working, NextRoot, Refuse, Spend, Pc, ApplyPc, UpPc, Loop, Placing, Root, InPlace, Installed
  <1>4. PassedInv'
    BY <1>1 DEF RuntimeDies, CtlInv, OrderInv, PassedInv, Working, NextRoot, Refuse, Spend, Pc, ApplyPc, UpPc, Loop, Placing, Root, InPlace, Installed, UntouchedInv
  <1>5. UntouchedInv'
    BY <1>1 DEF RuntimeDies, CtlInv, OrderInv, UntouchedInv, Working, NextRoot, Refuse, Spend, Pc, ApplyPc, UpPc, Loop, Placing
  <1>6. AcceptedInv'
    BY <1>1 DEF RuntimeDies, CtlInv, OrderInv, AcceptedInv, Working, NextRoot, Refuse, Spend, Pc, ApplyPc, UpPc, Loop, Placing, Write, WriteSync, SyncDisk
  <1> QED BY <1>1, <1>2, <1>3, <1>4, <1>5, <1>6

(* PowerLoss preserves the invariant.                                      *)
LEMMA PowerLossKeeps ==
  ASSUME IInv, PowerLoss
  PROVE  IInv'
  <1> USE DEF IInv
  <1>1. DurInv'
    BY WriteKeeps DEF PowerLoss, DurInv
  <1>2. CtlInv'
    BY Sizes DEF PowerLoss, CtlInv, Working, NextRoot, Refuse, Spend, Pc, ApplyPc, UpPc, Placing, Root, OrderInv
  <1>3. OrderInv'
    BY <1>1 DEF PowerLoss, CtlInv, OrderInv, Working, NextRoot, Refuse, Spend, Pc, ApplyPc, UpPc, Loop, Placing, Root, InPlace, Installed
  <1>4. PassedInv'
    BY <1>1 DEF PowerLoss, CtlInv, OrderInv, PassedInv, Working, NextRoot, Refuse, Spend, Pc, ApplyPc, UpPc, Loop, Placing, Root, InPlace, Installed, UntouchedInv
  <1>5. UntouchedInv'
    BY <1>1 DEF PowerLoss, CtlInv, OrderInv, UntouchedInv, Working, NextRoot, Refuse, Spend, Pc, ApplyPc, UpPc, Loop, Placing
  <1>6. AcceptedInv'
    BY <1>1 DEF PowerLoss, CtlInv, OrderInv, AcceptedInv, Working, NextRoot, Refuse, Spend, Pc, ApplyPc, UpPc, Loop, Placing, Write, WriteSync, SyncDisk
  <1> QED BY <1>1, <1>2, <1>3, <1>4, <1>5, <1>6

-----------------------------------------------------------------------------
(* A boot starts with nothing staged.                                      *)
LEMMA InitInv == Init => IInv
  <1> SUFFICES ASSUME Init PROVE IInv
    OBVIOUS
  <1>1. PICK s \in Setup :
          disk = [live |-> s, pending |-> FALSE, mask |-> {}, new |-> Nothing,
                  old |-> Nothing, done |-> FALSE, temp |-> FALSE]
    BY DEF Init
  <1>2. Nothing \in Setup
    BY DEF Nothing, Setup
  <1>3. StateOK(disk) /\ ~disk.pending
    BY <1>1, <1>2 DEF StateOK, Disk, DiskOK, PartialOK
  <1>4. DurInv
    BY <1>3 DEF Init, DurInv
  <1>5. CtlInv
    BY ConstantsAssumption DEF Init, CtlInv, Pc, ApplyPc
  <1>6. OrderInv /\ PassedInv /\ UntouchedInv /\ AcceptedInv
    BY DEF Init, OrderInv, PassedInv, UntouchedInv, AcceptedInv, Loop, UpPc
  <1> QED BY <1>4, <1>5, <1>6 DEF IInv

(* Nothing in the invariant depends on anything but the variables.         *)
LEMMA StutterInv == IInv /\ UNCHANGED vars => IInv'
  BY DEF IInv, vars, DurInv, StateOK, DiskOK, PartialOK, InPlace, CtlInv, OrderInv,
         PassedInv, UntouchedInv, AcceptedInv, Loop

(* Every step keeps the invariant.                                         *)
LEMMA NextInv == IInv /\ [Next]_vars => IInv'
  <1> SUFFICES ASSUME IInv, [Next]_vars PROVE IInv'
    OBVIOUS
  <1>1. CASE DiscardUnpublished
    BY <1>1, DiscardUnpublishedKeeps
  <1>2. CASE RemoveDone
    BY <1>2, RemoveDoneKeeps
  <1>3. CASE SkipInstalled
    BY <1>3, SkipInstalledKeeps
  <1>4. CASE SaveOld
    BY <1>4, SaveOldKeeps
  <1>5. CASE SyncSaved
    BY <1>5, SyncSavedKeeps
  <1>6. CASE NothingToInstall
    BY <1>6, NothingToInstallKeeps
  <1>7. CASE InstallNew
    BY <1>7, InstallNewKeeps
  <1>8. CASE SyncInstalled
    BY <1>8, SyncInstalledKeeps
  <1>9. CASE Retire
    BY <1>9, RetireKeeps
  <1>10. CASE SyncRetired
    BY <1>10, SyncRetiredKeeps
  <1>11. CASE DropDone
    BY <1>11, DropDoneKeeps
  <1>12. CASE EnsureSfx
    BY <1>12, EnsureSfxKeeps
  <1>13. CASE Respawn
    BY <1>13, RespawnKeeps
  <1>14. CASE AlreadyStaged
    BY <1>14, AlreadyStagedKeeps
  <1>15. CASE BeginStage
    BY <1>15, BeginStageKeeps
  <1>16. CASE SyncStaged
    BY <1>16, SyncStagedKeeps
  <1>17. CASE StageFails
    BY <1>17, StageFailsKeeps
  <1>18. CASE Publish
    BY <1>18, PublishKeeps
  <1>19. CASE SyncPublished
    BY <1>19, SyncPublishedKeeps
  <1>20. CASE SyncPublishedFails
    BY <1>20, SyncPublishedFailsKeeps
  <1>21. CASE Reboot
    BY <1>21, RebootKeeps
  <1>22. CASE Edit
    BY <1>22, EditKeeps
  <1>23. CASE ApplyFails
    BY <1>23, ApplyFailsKeeps
  <1>24. CASE RuntimeDies
    BY <1>24, RuntimeDiesKeeps
  <1>25. CASE PowerLoss
    BY <1>25, PowerLossKeeps
  <1>26. CASE UNCHANGED vars
    BY <1>26, StutterInv
  <1> QED BY <1>1, <1>2, <1>3, <1>4, <1>5, <1>6, <1>7, <1>8, <1>9, <1>10, <1>11, <1>12, <1>13, <1>14, <1>15, <1>16, <1>17, <1>18, <1>19, <1>20, <1>21, <1>22, <1>23, <1>24, <1>25, <1>26 DEF Next, Mount, Stage

-----------------------------------------------------------------------------
(* The invariant holds of every reachable state.                           *)
THEOREM Invariance == Spec => []IInv
  <1>1. Init => IInv
    BY InitInv
  <1>2. IInv /\ [Next]_vars => IInv'
    BY NextInv
  <1> QED BY <1>1, <1>2, PTL DEF Spec

(* Every disk a power loss can leave has a plan applyPending accepts.      *)
THEOREM TypeCorrect == Spec => []TypeOK
  <1>1. IInv => TypeOK
    BY DEF IInv, DurInv, StateOK, CtlInv, TypeOK
  <1> QED BY <1>1, Invariance, PTL

(* applyPending never takes either of the loop's error returns, wherever   *)
(* earlier attempts were cut short.                                        *)
THEOREM RestoreContinues == Spec => []NeverRefuses
  <1>1. IInv => NeverRefuses
    BY DEF IInv, OrderInv, NeverRefuses
  <1> QED BY <1>1, Invariance, PTL

(* A restore the device has accepted survives a power loss.                *)
THEOREM AcceptedSurvives == Spec => []AcceptedIsDurable
  <1>1. IInv => AcceptedIsDurable
    BY DEF IInv, AcceptedInv, AcceptedIsDurable
  <1> QED BY <1>1, Invariance, PTL

-----------------------------------------------------------------------------
(* The refinement: saving an old entry and installing a new one change     *)
(* neither the setup in force nor the staged one; the step that does is    *)
(* the rename that retires the pending directory.                          *)

(* What AtomicRestore sees of a disk.                                      *)
View(d) == <<SetupOf(d), StagedOf(d)>>

(* Two disks that differ in scratch directories only look the same.        *)
LEMMA SameView ==
  ASSUME NEW d, NEW e,
         e.live = d.live, e.pending = d.pending, e.mask = d.mask,
         e.new = d.new, e.old = d.old
  PROVE  SetupOf(e) = SetupOf(d) /\ StagedOf(e) = StagedOf(d)
  BY DEF SetupOf, StagedOf, Before, After

(* Both setups of a disk are setups.                                       *)
LEMMA ViewTyped ==
  ASSUME NEW d \in Disk
  PROVE  /\ SetupOf(d) \in Setup /\ After(d) \in Setup
         /\ StagedOf(d) = NoSetup <=> ~d.pending
  <1>1. /\ d.live \in [Root -> Value \cup {Absent}] /\ d.new \in [Root -> Value \cup {Absent}]
        /\ d.old \in [Root -> Value \cup {Absent}]
    BY DEF Disk, Setup
  <1>2. SetupOf(d) \in Setup /\ After(d) \in Setup
    BY <1>1 DEF SetupOf, Before, After, Setup
  <1> QED BY <1>2, ConstantsAssumption DEF StagedOf

(* Without a restore the setup in force is the live one.                   *)
LEMMA IdleView ==
  ASSUME NEW d, StateOK(d), ~d.pending
  PROVE  SetupOf(d) = d.live /\ StagedOf(d) = NoSetup
  <1>1. d.mask = {} /\ d.old = Nothing /\ d.live \in Setup
    BY DEF StateOK, DiskOK, Disk
  <1>2. SetupOf(d) = [r \in Root |-> d.live[r]]
    BY <1>1 DEF SetupOf, Before, Nothing
  <1>3. d.live = [r \in Root |-> d.live[r]]
    BY <1>1 DEF Setup
  <1> QED BY <1>2, <1>3 DEF StagedOf

(* A restore that has not begun leaves the setup in force alone.           *)
LEMMA UntouchedView ==
  ASSUME NEW d, d \in Disk, d.pending, d.old = Nothing, Has(d.new) = d.mask
  PROVE  SetupOf(d) = d.live /\ StagedOf(d) = d.new
  <1>1. d.live \in Setup /\ d.new \in Setup
    BY DEF Disk
  <1>2. SetupOf(d) = [r \in Root |-> d.live[r]]
    BY DEF SetupOf, Before, Nothing, Has
  <1>3. After(d) = [r \in Root |-> d.new[r]]
    BY DEF After, Has
  <1>4. d.live = [r \in Root |-> d.live[r]] /\ d.new = [r \in Root |-> d.new[r]]
    BY <1>1 DEF Setup
  <1> QED BY <1>2, <1>3, <1>4 DEF StagedOf

(* What a write, and a sync, do to the setups a power loss may leave.      *)
LEMMA WriteViews ==
  ASSUME dur' = dur \cup {disk'}
  PROVE  {View(d) : d \in dur'} = {View(d) : d \in dur} \cup {View(disk')}
  OBVIOUS

(* A step that changes neither setup is a stuttering step of AtomicRestore. *)
LEMMA StutterMaps ==
  ASSUME DurInv, pc \in UpPc <=> pc' \in UpPc,
         \/ disk' = disk /\ dur' = dur
         \/ /\ SetupOf(disk') = SetupOf(disk) /\ StagedOf(disk') = StagedOf(disk)
            /\ dur' = dur \cup {disk'}
  PROVE  UNCHANGED Atomic!vars
  <1>1. SetupOf(disk') = SetupOf(disk) /\ StagedOf(disk') = StagedOf(disk)
    OBVIOUS
  <1>2. View(disk') = View(disk) /\ View(disk) \in {View(d) : d \in dur}
    BY <1>1 DEF View, DurInv
  <1>3. {View(d) : d \in dur'} = {View(d) : d \in dur}
    BY <1>2, WriteViews
  <1>4. (pc \in UpPc)' = (pc \in UpPc)
    OBVIOUS
  <1> QED BY <1>1, <1>3, <1>4 DEF Atomic!vars, View

(* Syncing the disk is the Sync of AtomicRestore.                          *)
LEMMA SyncMaps ==
  ASSUME SyncDisk, (pc \in UpPc)' = (pc \in UpPc)
  PROVE  Atomic!Sync
  BY DEF SyncDisk, WriteSync, Atomic!Sync

(* A write adds one pair of setups to those a power loss may leave.        *)
LEMMA RememberMaps ==
  ASSUME dur' = dur \cup {disk'}
  PROVE  Atomic!Remember
  BY WriteViews DEF Atomic!Remember, View

-----------------------------------------------------------------------------
(* Every action maps to a step of AtomicRestore or to none.                *)

(* DiscardUnpublished maps to a step of the abstract specification, or to none. *)
LEMMA DiscardUnpublishedMaps ==
  ASSUME IInv, DiscardUnpublished
  PROVE  UNCHANGED Atomic!vars
  <1>1. DurInv /\ StateOK(disk) /\ FALSE \in BOOLEAN
    BY DEF IInv, DurInv
  <1>2. \/ disk' = disk /\ dur' = dur
        \/ /\ disk'.live = disk.live /\ disk'.pending = disk.pending
           /\ disk'.mask = disk.mask /\ disk'.new = disk.new /\ disk'.old = disk.old
           /\ dur' = dur \cup {disk'}
    BY <1>1, ScratchState DEF DiscardUnpublished, Write
  <1>3. SetupOf(disk') = SetupOf(disk) /\ StagedOf(disk') = StagedOf(disk)
    BY <1>2, SameView
  <1> QED BY <1>1, <1>2, <1>3, StutterMaps DEF DiscardUnpublished, UpPc

(* RemoveDone maps to a step of the abstract specification, or to none.    *)
LEMMA RemoveDoneMaps ==
  ASSUME IInv, RemoveDone
  PROVE  UNCHANGED Atomic!vars
  <1>1. DurInv /\ StateOK(disk) /\ FALSE \in BOOLEAN
    BY DEF IInv, DurInv
  <1>2. \/ disk' = disk /\ dur' = dur
        \/ /\ disk'.live = disk.live /\ disk'.pending = disk.pending
           /\ disk'.mask = disk.mask /\ disk'.new = disk.new /\ disk'.old = disk.old
           /\ dur' = dur \cup {disk'}
    BY <1>1, ScratchState DEF RemoveDone, Write
  <1>3. SetupOf(disk') = SetupOf(disk) /\ StagedOf(disk') = StagedOf(disk)
    BY <1>2, SameView
  <1> QED BY <1>1, <1>2, <1>3, StutterMaps DEF RemoveDone, UpPc

(* SkipInstalled maps to a step of the abstract specification, or to none. *)
LEMMA SkipInstalledMaps ==
  ASSUME IInv, SkipInstalled
  PROVE  UNCHANGED Atomic!vars
  BY StutterMaps DEF SkipInstalled, IInv, NextRoot, Refuse, ApplyPc, UpPc

(* SaveOld maps to a step of the abstract specification, or to none.       *)
LEMMA SaveOldMaps ==
  ASSUME IInv, SaveOld
  PROVE  UNCHANGED Atomic!vars
  <1>1. StateOK(disk) /\ disk.pending /\ i \in Root /\ ~InPlace(disk, i) /\ disk.live[i] # Absent
    BY DEF IInv, DurInv, OrderInv, SaveOld, Loop, Installed, InPlace
  <1>2. disk.old[i] = Absent
    BY <1>1 DEF StateOK, PartialOK
  <1> DEFINE e == Saved(disk, i)
  <1>3. /\ e.pending /\ e.mask = disk.mask /\ e.new = disk.new
        /\ e.live = [disk.live EXCEPT ![i] = Absent]
        /\ e.old = [disk.old EXCEPT ![i] = disk.live[i]]
    BY <1>1, <1>2, SavedState
  <1>4. disk' = e /\ dur' = dur \cup {disk'} /\ pc = "apply" /\ pc' = "saved"
    BY <1>2 DEF SaveOld, Write, Saved
  <1> HIDE DEF e
  <1>5. /\ disk.live \in [Root -> Value \cup {Absent}] /\ disk.old \in [Root -> Value \cup {Absent}]
    BY <1>1 DEF StateOK, Disk, Setup
  <1>6. ASSUME NEW r \in Root
        PROVE  Before(e)[r] = Before(disk)[r] /\ After(e)[r] = After(disk)[r]
    <2>1. CASE r = i
      BY <1>1, <1>2, <1>3, <1>5, <2>1 DEF Before, After, InPlace
    <2>2. CASE r # i
      BY <1>3, <1>5, <2>2 DEF Before, After
    <2> QED BY <2>1, <2>2
  <1>7. Before(e) = Before(disk) /\ After(e) = After(disk)
    BY <1>6 DEF Before, After
  <1>8. SetupOf(disk') = SetupOf(disk) /\ StagedOf(disk') = StagedOf(disk)
    BY <1>1, <1>3, <1>4, <1>7 DEF SetupOf, StagedOf
  <1> QED BY <1>4, <1>8, StutterMaps DEF IInv, UpPc

(* SyncSaved maps to a step of the abstract specification, or to none.     *)
LEMMA SyncSavedMaps ==
  ASSUME IInv, SyncSaved
  PROVE  Atomic!Sync
  BY SyncMaps DEF SyncSaved, UpPc

(* NothingToInstall maps to a step of the abstract specification, or to none. *)
LEMMA NothingToInstallMaps ==
  ASSUME IInv, NothingToInstall
  PROVE  UNCHANGED Atomic!vars
  BY StutterMaps DEF NothingToInstall, IInv, NextRoot, Refuse, ApplyPc, UpPc, Placing

(* InstallNew maps to a step of the abstract specification, or to none.    *)
LEMMA InstallNewMaps ==
  ASSUME IInv, InstallNew
  PROVE  UNCHANGED Atomic!vars
  <1>1. StateOK(disk) /\ disk.pending /\ i \in Root /\ disk.live[i] = Absent /\ disk.new[i] # Absent
    BY DEF IInv, DurInv, OrderInv, InstallNew, Placing, Loop
  <1> DEFINE e == Placed(disk, i)
  <1>3. /\ e.pending /\ e.mask = disk.mask /\ i \in disk.mask /\ e.old = disk.old
        /\ e.live = [disk.live EXCEPT ![i] = disk.new[i]]
        /\ e.new = [disk.new EXCEPT ![i] = Absent]
    BY <1>1, InstalledState
  <1>4. disk' = e /\ dur' = dur \cup {disk'} /\ pc \in {"place", "apply"} /\ pc' = "placed"
    BY DEF InstallNew, Placing, Write, Placed
  <1> HIDE DEF e
  <1>5. /\ disk.live \in [Root -> Value \cup {Absent}] /\ disk.new \in [Root -> Value \cup {Absent}]
    BY <1>1 DEF StateOK, Disk, Setup
  <1>6. ASSUME NEW r \in Root
        PROVE  Before(e)[r] = Before(disk)[r] /\ After(e)[r] = After(disk)[r]
    <2>1. CASE r = i
      BY <1>1, <1>3, <1>5, <2>1 DEF Before, After
    <2>2. CASE r # i
      BY <1>3, <1>5, <2>2 DEF Before, After
    <2> QED BY <2>1, <2>2
  <1>7. Before(e) = Before(disk) /\ After(e) = After(disk)
    BY <1>6 DEF Before, After
  <1>8. SetupOf(disk') = SetupOf(disk) /\ StagedOf(disk') = StagedOf(disk)
    BY <1>1, <1>3, <1>4, <1>7 DEF SetupOf, StagedOf
  <1> QED BY <1>4, <1>8, StutterMaps DEF IInv, UpPc

(* SyncInstalled maps to a step of the abstract specification, or to none. *)
LEMMA SyncInstalledMaps ==
  ASSUME IInv, SyncInstalled
  PROVE  Atomic!Sync
  BY SyncMaps DEF SyncInstalled, UpPc

(* Retire maps to a step of the abstract specification, or to none.        *)
LEMMA RetireMaps ==
  ASSUME IInv, Retire
  PROVE  Atomic!Restore
  <1>1. StateOK(disk) /\ disk.pending
    BY DEF IInv, DurInv, OrderInv, Retire, Loop
  <1>2. \A r \in Root : disk.new[r] = Absent /\ (r \notin disk.mask => disk.live[r] = Absent)
    BY Sizes DEF IInv, PassedInv, Retire, Loop, Root
  <1> DEFINE e == [disk EXCEPT !.pending = FALSE, !.mask = {}, !.new = Nothing,
                               !.old = Nothing, !.done = TRUE]
  <1>3. StateOK(e) /\ ~e.pending /\ e.live = disk.live
    BY <1>1, RetiredState
  <1>4. disk' = e /\ dur' = dur \cup {disk'} /\ pc \notin UpPc /\ pc' \notin UpPc
    BY DEF Retire, Write, UpPc
  <1> HIDE DEF e
  <1>5. SetupOf(disk') = disk.live /\ StagedOf(disk') = NoSetup
    BY <1>3, <1>4, IdleView
  <1>6. disk.live = [r \in Root |-> disk.live[r]]
    BY <1>1 DEF StateOK, Disk, Setup
  <1>7. After(disk) = [r \in Root |-> disk.live[r]]
    BY <1>2 DEF After
  <1>8. StagedOf(disk) = disk.live /\ StagedOf(disk) # NoSetup
    BY <1>1, <1>6, <1>7, ViewTyped DEF StagedOf, StateOK
  <1>9. Atomic!Remember
    BY <1>4, RememberMaps
  <1> QED BY <1>4, <1>5, <1>8, <1>9 DEF Atomic!Restore

(* SyncRetired maps to a step of the abstract specification, or to none.   *)
LEMMA SyncRetiredMaps ==
  ASSUME IInv, SyncRetired
  PROVE  Atomic!Sync
  BY SyncMaps DEF SyncRetired, UpPc

(* DropDone maps to a step of the abstract specification, or to none.      *)
LEMMA DropDoneMaps ==
  ASSUME IInv, DropDone
  PROVE  UNCHANGED Atomic!vars
  <1>1. DurInv /\ StateOK(disk) /\ FALSE \in BOOLEAN
    BY DEF IInv, DurInv
  <1>2. \/ disk' = disk /\ dur' = dur
        \/ /\ disk'.live = disk.live /\ disk'.pending = disk.pending
           /\ disk'.mask = disk.mask /\ disk'.new = disk.new /\ disk'.old = disk.old
           /\ dur' = dur \cup {disk'}
    BY <1>1, ScratchState DEF DropDone, Write
  <1>3. SetupOf(disk') = SetupOf(disk) /\ StagedOf(disk') = StagedOf(disk)
    BY <1>2, SameView
  <1> QED BY <1>1, <1>2, <1>3, StutterMaps DEF DropDone, UpPc

(* EnsureSfx maps to a step of the abstract specification, or to none.     *)
LEMMA EnsureSfxMaps ==
  ASSUME IInv, EnsureSfx
  PROVE  Atomic!Start
  <1>1. StateOK(disk) /\ ~disk.pending /\ Sfx \in Root
    BY ConstantsAssumption DEF IInv, DurInv, OrderInv, EnsureSfx
  <1> DEFINE v == IF disk.live[Sfx] = Absent THEN Empty ELSE disk.live[Sfx]
             e == [disk EXCEPT !.live[Sfx] = v]
  <1>2. v \in Value \cup {Absent}
    BY <1>1, ConstantsAssumption DEF StateOK, Disk, Setup
  <1>3. StateOK(e) /\ ~e.pending /\ e.live = [disk.live EXCEPT ![Sfx] = v]
    BY <1>1, <1>2, EditedState
  <1>4. disk' = e /\ dur' = dur \cup {disk'} /\ pc \notin UpPc /\ pc' \in UpPc
    BY DEF EnsureSfx, Write, UpPc
  <1>5. /\ SetupOf(disk) = disk.live /\ StagedOf(disk) = NoSetup
        /\ SetupOf(e) = e.live /\ StagedOf(e) = NoSetup
    BY <1>1, <1>3, IdleView
  <1>6. e.live \in Setup /\ disk.live \in Setup
    BY <1>1, <1>3 DEF StateOK, Disk
  <1>7. \A r \in Root : disk.live[r] # Absent => e.live[r] = disk.live[r]
    BY <1>3, <1>6 DEF Setup
  <1> HIDE DEF e, v
  <1>8. Atomic!Remember
    BY <1>4, RememberMaps
  <1>9. Atomic!Setup = Setup /\ Root = Root
    BY DEF Atomic!Setup, Setup
  <1>10. /\ SetupOf(disk') = e.live /\ StagedOf(disk') = NoSetup
    BY <1>4, <1>5
  <1>11. \E s \in Atomic!Setup :
           /\ \A r \in Root : SetupOf(disk)[r] # Absent => s[r] = SetupOf(disk)[r]
           /\ SetupOf(disk') = s
    BY <1>5, <1>6, <1>7, <1>9, <1>10
  <1> QED BY <1>4, <1>5, <1>8, <1>10, <1>11 DEF Atomic!Start

(* ApplyFails maps to a step of the abstract specification, or to none.    *)
LEMMA ApplyFailsMaps ==
  ASSUME IInv, ApplyFails
  PROVE  UNCHANGED Atomic!vars
  BY StutterMaps DEF ApplyFails, IInv, NextRoot, Refuse, ApplyPc, UpPc

(* Respawn maps to a step of the abstract specification, or to none.       *)
LEMMA RespawnMaps ==
  ASSUME IInv, Respawn
  PROVE  UNCHANGED Atomic!vars
  BY StutterMaps DEF Respawn, IInv, NextRoot, Refuse, ApplyPc, UpPc

(* AlreadyStaged maps to a step of the abstract specification, or to none. *)
LEMMA AlreadyStagedMaps ==
  ASSUME IInv, AlreadyStaged
  PROVE  UNCHANGED Atomic!vars
  BY StutterMaps DEF AlreadyStaged, IInv, NextRoot, Refuse, ApplyPc, UpPc

(* Edit maps to a step of the abstract specification, or to none.          *)
LEMMA EditMaps ==
  ASSUME IInv, Edit
  PROVE  Atomic!Edit
  <1>1. StateOK(disk) /\ (disk.pending => disk.old = Nothing /\ Has(disk.new) = disk.mask)
    BY DEF IInv, DurInv, UntouchedInv, Edit
  <1>2. PICK r \in Root, v \in Value \cup {Absent} : Write([disk EXCEPT !.live[r] = v])
    BY DEF Edit
  <1> DEFINE e == [disk EXCEPT !.live[r] = v]
  <1>3. /\ StateOK(e) /\ e.pending = disk.pending /\ e.mask = disk.mask
        /\ e.new = disk.new /\ e.old = disk.old
    BY <1>1, <1>2, EditedState
  <1>4. disk' = e /\ dur' = dur \cup {disk'} /\ pc \in UpPc /\ pc' \in UpPc
    BY <1>2 DEF Edit, Write
  <1> HIDE DEF e
  <1>5. StagedOf(e) = StagedOf(disk)
    BY <1>3 , <1>1, IdleView, UntouchedView DEF StateOK
  <1>6. SetupOf(e) \in Setup
    BY <1>3, ViewTyped DEF StateOK
  <1>7. Atomic!Remember
    BY <1>4, RememberMaps
  <1>8. Atomic!Setup = Setup
    BY DEF Atomic!Setup, Setup
  <1> QED BY <1>4, <1>5, <1>6, <1>7, <1>8 DEF Atomic!Edit

(* BeginStage maps to a step of the abstract specification, or to none.    *)
LEMMA BeginStageMaps ==
  ASSUME IInv, BeginStage
  PROVE  UNCHANGED Atomic!vars
  <1>1. DurInv /\ StateOK(disk) /\ TRUE \in BOOLEAN
    BY DEF IInv, DurInv
  <1>2. \/ disk' = disk /\ dur' = dur
        \/ /\ disk'.live = disk.live /\ disk'.pending = disk.pending
           /\ disk'.mask = disk.mask /\ disk'.new = disk.new /\ disk'.old = disk.old
           /\ dur' = dur \cup {disk'}
    BY <1>1, ScratchState DEF BeginStage, Write
  <1>3. SetupOf(disk') = SetupOf(disk) /\ StagedOf(disk') = StagedOf(disk)
    BY <1>2, SameView
  <1> QED BY <1>1, <1>2, <1>3, StutterMaps DEF BeginStage, UpPc

(* SyncStaged maps to a step of the abstract specification, or to none.    *)
LEMMA SyncStagedMaps ==
  ASSUME IInv, SyncStaged
  PROVE  Atomic!Sync
  BY SyncMaps DEF SyncStaged, UpPc

(* StageFails maps to a step of the abstract specification, or to none.    *)
LEMMA StageFailsMaps ==
  ASSUME IInv, StageFails
  PROVE  UNCHANGED Atomic!vars
  <1>1. DurInv /\ StateOK(disk) /\ FALSE \in BOOLEAN
    BY DEF IInv, DurInv
  <1>2. \/ disk' = disk /\ dur' = dur
        \/ /\ disk'.live = disk.live /\ disk'.pending = disk.pending
           /\ disk'.mask = disk.mask /\ disk'.new = disk.new /\ disk'.old = disk.old
           /\ dur' = dur \cup {disk'}
    BY <1>1, ScratchState DEF StageFails, Write
  <1>3. SetupOf(disk') = SetupOf(disk) /\ StagedOf(disk') = StagedOf(disk)
    BY <1>2, SameView
  <1> QED BY <1>1, <1>2, <1>3, StutterMaps DEF StageFails, UpPc

(* Publish maps to a step of the abstract specification, or to none.       *)
LEMMA PublishMaps ==
  ASSUME IInv, Publish
  PROVE  Atomic!Stage
  <1>1. StateOK(disk) /\ ~disk.pending /\ req \in ValidArchive /\ req \in Setup
    BY DEF IInv, DurInv, CtlInv, OrderInv, Publish, ValidArchive
  <1> DEFINE e == Published(disk, req)
  <1>2. /\ StateOK(e) /\ e.pending /\ e.old = Nothing /\ e.new = req /\ e.mask = Has(req)
        /\ e.live = disk.live
    BY <1>1, PublishedState
  <1>3. disk' = e /\ dur' = dur \cup {disk'} /\ pc \in UpPc /\ pc' \in UpPc
    BY DEF Publish, Write, UpPc, Published
  <1> HIDE DEF e
  <1>4. SetupOf(disk) = disk.live /\ StagedOf(disk) = NoSetup
    BY <1>1, IdleView
  <1>5. SetupOf(e) = disk.live /\ StagedOf(e) = req
    BY <1>2, UntouchedView DEF StateOK
  <1>6. Atomic!Remember
    BY <1>3, RememberMaps
  <1>7. Atomic!Setup = Setup
    BY DEF Atomic!Setup, Setup
  <1> QED BY <1>1, <1>3, <1>4, <1>5, <1>6, <1>7 DEF Atomic!Stage

(* SyncPublished maps to a step of the abstract specification, or to none. *)
LEMMA SyncPublishedMaps ==
  ASSUME IInv, SyncPublished
  PROVE  Atomic!Sync
  BY SyncMaps DEF SyncPublished, UpPc

(* SyncPublishedFails maps to a step of the abstract specification, or to none. *)
LEMMA SyncPublishedFailsMaps ==
  ASSUME IInv, SyncPublishedFails
  PROVE  UNCHANGED Atomic!vars
  BY StutterMaps DEF SyncPublishedFails, IInv, NextRoot, Refuse, ApplyPc, UpPc

(* Reboot maps to a step of the abstract specification, or to none.        *)
LEMMA RebootMaps ==
  ASSUME IInv, Reboot
  PROVE  Atomic!Reboot \/ Atomic!Sync
  <1>1. CASE pc' = "mount"
    BY <1>1 DEF Reboot, SyncDisk, WriteSync, UpPc, Atomic!Reboot
  <1>2. CASE pc' = "runtime"
    BY <1>2, SyncMaps DEF Reboot, UpPc
  <1> QED BY <1>1, <1>2 DEF Reboot

(* RuntimeDies maps to a step of the abstract specification, or to none.   *)
LEMMA RuntimeDiesMaps ==
  ASSUME IInv, RuntimeDies
  PROVE  Atomic!Stop
  BY DEF RuntimeDies, UpPc, Atomic!Stop

(* PowerLoss maps to a step of the abstract specification, or to none.     *)
LEMMA PowerLossMaps ==
  ASSUME IInv, PowerLoss
  PROVE  Atomic!PowerLoss
  <1>1. PICK d \in dur : disk' = d /\ dur' = {d}
    BY DEF PowerLoss, WriteSync
  <1>2. pc' \notin UpPc
    BY DEF PowerLoss, UpPc
  <1>3. <<SetupOf(d), StagedOf(d)>> \in {<<SetupOf(c), StagedOf(c)>> : c \in dur}
    OBVIOUS
  <1>4. {<<SetupOf(c), StagedOf(c)>> : c \in dur'} = {<<SetupOf(d), StagedOf(d)>>}
    BY <1>1
  <1> DEFINE v == <<SetupOf(d), StagedOf(d)>>
  <1>5. SetupOf(disk') = v[1] /\ StagedOf(disk') = v[2]
    BY <1>1
  <1>6. \E w \in {<<SetupOf(c), StagedOf(c)>> : c \in dur} :
          /\ SetupOf(disk') = w[1] /\ StagedOf(disk') = w[2]
          /\ {<<SetupOf(c), StagedOf(c)>> : c \in dur'} = {w}
    <2> WITNESS v \in {<<SetupOf(c), StagedOf(c)>> : c \in dur}
    <2> QED BY <1>4, <1>5
  <1> QED BY <1>2, <1>6 DEF Atomic!PowerLoss

-----------------------------------------------------------------------------
(* The machine first boots with no restore staged.                         *)
LEMMA InitMaps == Init => Atomic!Init
  <1> SUFFICES ASSUME Init PROVE Atomic!Init
    OBVIOUS
  <1>1. StateOK(disk) /\ ~disk.pending
    <2>1. IInv
      BY InitInv
    <2>2. ~disk.pending
      BY DEF Init
    <2> QED BY <2>1, <2>2 DEF IInv, DurInv
  <1>2. SetupOf(disk) \in Setup /\ StagedOf(disk) = NoSetup
    BY <1>1, ViewTyped DEF StateOK
  <1>3. dur = {disk} /\ pc \notin UpPc
    BY DEF Init, UpPc
  <1>4. Atomic!Setup = Setup
    BY DEF Atomic!Setup, Setup
  <1> QED BY <1>2, <1>3, <1>4 DEF Atomic!Init

(* Every step maps to a step of AtomicRestore or to a stuttering one.      *)
LEMMA NextMaps == IInv /\ [Next]_vars => [Atomic!Next]_(Atomic!vars)
  <1> SUFFICES ASSUME IInv, [Next]_vars PROVE [Atomic!Next]_(Atomic!vars)
    OBVIOUS
  <1>1. CASE DiscardUnpublished
    BY <1>1, DiscardUnpublishedMaps DEF Atomic!Next
  <1>2. CASE RemoveDone
    BY <1>2, RemoveDoneMaps DEF Atomic!Next
  <1>3. CASE SkipInstalled
    BY <1>3, SkipInstalledMaps DEF Atomic!Next
  <1>4. CASE SaveOld
    BY <1>4, SaveOldMaps DEF Atomic!Next
  <1>5. CASE SyncSaved
    BY <1>5, SyncSavedMaps DEF Atomic!Next
  <1>6. CASE NothingToInstall
    BY <1>6, NothingToInstallMaps DEF Atomic!Next
  <1>7. CASE InstallNew
    BY <1>7, InstallNewMaps DEF Atomic!Next
  <1>8. CASE SyncInstalled
    BY <1>8, SyncInstalledMaps DEF Atomic!Next
  <1>9. CASE Retire
    BY <1>9, RetireMaps DEF Atomic!Next
  <1>10. CASE SyncRetired
    BY <1>10, SyncRetiredMaps DEF Atomic!Next
  <1>11. CASE DropDone
    BY <1>11, DropDoneMaps DEF Atomic!Next
  <1>12. CASE EnsureSfx
    BY <1>12, EnsureSfxMaps DEF Atomic!Next
  <1>13. CASE Respawn
    BY <1>13, RespawnMaps DEF Atomic!Next
  <1>14. CASE AlreadyStaged
    BY <1>14, AlreadyStagedMaps DEF Atomic!Next
  <1>15. CASE BeginStage
    BY <1>15, BeginStageMaps DEF Atomic!Next
  <1>16. CASE SyncStaged
    BY <1>16, SyncStagedMaps DEF Atomic!Next
  <1>17. CASE StageFails
    BY <1>17, StageFailsMaps DEF Atomic!Next
  <1>18. CASE Publish
    BY <1>18, PublishMaps DEF Atomic!Next
  <1>19. CASE SyncPublished
    BY <1>19, SyncPublishedMaps DEF Atomic!Next
  <1>20. CASE SyncPublishedFails
    BY <1>20, SyncPublishedFailsMaps DEF Atomic!Next
  <1>21. CASE Reboot
    BY <1>21, RebootMaps DEF Atomic!Next
  <1>22. CASE Edit
    BY <1>22, EditMaps DEF Atomic!Next
  <1>23. CASE ApplyFails
    BY <1>23, ApplyFailsMaps DEF Atomic!Next
  <1>24. CASE RuntimeDies
    BY <1>24, RuntimeDiesMaps DEF Atomic!Next
  <1>25. CASE PowerLoss
    BY <1>25, PowerLossMaps DEF Atomic!Next
  <1>26. CASE UNCHANGED vars
    BY <1>26 DEF vars, Atomic!vars
  <1> QED BY <1>1, <1>2, <1>3, <1>4, <1>5, <1>6, <1>7, <1>8, <1>9, <1>10, <1>11, <1>12, <1>13, <1>14, <1>15, <1>16, <1>17, <1>18, <1>19, <1>20, <1>21, <1>22, <1>23, <1>24, <1>25, <1>26 DEF Next, Mount, Stage

(* Restoring a configuration is atomic: whatever dies, fails or loses      *)
(* power between the renames of applyPending.                              *)
THEOREM RestoreRefines == Spec => RestoreIsAtomic
  <1>1. Init => Atomic!Init
    BY InitMaps
  <1>2. IInv /\ [Next]_vars => [Atomic!Next]_(Atomic!vars)
    BY NextMaps
  <1> QED BY <1>1, <1>2, Invariance, PTL DEF Spec, RestoreIsAtomic, Atomic!Spec
=============================================================================
