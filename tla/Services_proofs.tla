--------------------------- MODULE Services_proofs ---------------------------
(***************************************************************************)
(* Services of the device, for every value of their constants:             *)
(*   SoundClips: sfxSlotRefs counts exactly those who use a clip, so that  *)
(*     no clip is freed or replaced under a trigger or a voice;            *)
(*   Supervisor: there is one runtime at a time, it is killed only when it *)
(*     was silent, and soon when it is; it and the service are started     *)
(*     again in time, and not before they have rested;                     *)
(*   UsageTelemetry: no collected point is lost before the collector has   *)
(*     it, and what the user opted out of is neither kept nor sent.        *)
(*   EffectMap: an effect that was saved comes back as it was saved, and   *)
(*     one that was deleted leaves nothing behind.                         *)
(***************************************************************************)
EXTENDS SoundClips, Supervisor, UsageTelemetry, EffectMap, FiniteSetTheorems, SequenceTheorems, TLAPS

-----------------------------------------------------------------------------
(* The clips of the soundboard.                                            *)

(* A clip, a trigger in the queue or in a voice, and one that waits for    *)
(* the reload that is to find its sound.                                   *)
Clips == File \X Nat
Triggers == [slot : Slot, hold : BOOLEAN, clip : Clips, n : 0..MaxTriggers]
Seekers == [slot : {0}, hold : BOOLEAN, clip : File \X {0}, n : 0..MaxTriggers]

(* What uses a slot: the voices that play it and the triggers that wait.   *)
Voices(k) == {v \in Playing : voices[v].slot = k}
Queued(k) == {j \in Waiting : queue[j].slot = k}

Places == {"idle", "stopall", "stopping", "drain", "release", "window", "take", "render"}

ClipTypes ==
  /\ slots \in [Slot -> Clips \cup {Empty}]
  /\ refs \in [Slot -> Nat]
  /\ files \in [File -> Nat]
  /\ queue \in Seq(Triggers)
  /\ voices \in [Voice -> Triggers \cup {Quiet}]
  /\ holdVoice \in {0} \cup Voice
  /\ left \in [triggers : 0..MaxTriggers, stops : 0..MaxStops, changes : 0..MaxChanges]
  /\ aud \in [at : Places, taken : Nat, upTo : Nat]
  /\ aud.taken <= aud.upTo /\ aud.upTo <= Len(queue)
  /\ aud.at # "take" => aud.taken = 0 /\ aud.upTo = 0
  /\ ctl \in [at : {"idle", "reload", "queue"}, event : Triggers \cup Seekers \cup {Quiet},
              todo : SUBSET File, seen : SUBSET Slot]
  /\ ctl.at = "queue" => ctl.event \in Triggers
  /\ ctl.at # "queue" => ctl.event \in Seekers \cup {Quiet}

(* Everybody has the clip he was promised, the trigger that is about to be *)
(* queued too.                                                             *)
Kept ==
  /\ \A v \in Playing : slots[voices[v].slot] = voices[v].clip
  /\ \A j \in Waiting : slots[queue[j].slot] = queue[j].clip
  /\ ctl.at = "queue" => slots[ctl.event.slot] = ctl.event.clip

(* The count of a clip is those who use it.                                *)
Counted ==
  \A k \in Slot : refs[k] = Cardinality(Voices(k)) + Cardinality(Queued(k)) + Reserved(k)

ClipInv == ClipTypes /\ Kept /\ Counted

-----------------------------------------------------------------------------
(* Sets of numbers and their least elements.                               *)

(* A set of natural numbers has a least element: the intervals 0..t are    *)
(* finite sets, which strict inclusion orders well.                        *)
LEMMA LeastNatural ==
  ASSUME NEW T \in SUBSET Nat, T # {}
  PROVE  \E m \in T : \A t \in T : m <= t
  <1> DEFINE Below == {0..t : t \in T}
  <1>1. Below \subseteq FiniteSubsetsOf(Nat)
    <2>1. ASSUME NEW t \in T PROVE IsFiniteSet(0..t)
      BY FS_Interval
    <2> QED BY <2>1 DEF FiniteSubsetsOf
  <1>2. Below # {}
    OBVIOUS
  <1>3. PICK I \in Below : \A J \in Below : <<J, I>> \notin StrictSubsetOrdering(Nat)
    <2> HIDE DEF Below
    <2> QED BY <1>1, <1>2, FS_StrictSubsetOrderingWellFounded, WFMin
  <1>4. PICK m \in T : I = 0..m
    BY <1>3
  <1>5. ASSUME NEW t \in T, ~(m <= t) PROVE FALSE
    <2>1. 0..t \in Below
      OBVIOUS
    <2>2. 0..t \subseteq 0..m /\ m \in 0..m /\ m \notin 0..t
      BY <1>5
    <2>3. <<0..t, 0..m>> \in StrictSubsetOrdering(Nat)
      BY <2>2 DEF StrictSubsetOrdering
    <2> QED BY <1>3, <1>4, <2>1, <2>3
  <1> QED BY <1>5

(* AnyOf and Pick find what they look for.                                 *)
LEMMA AnyOfIsOne ==
  ASSUME NEW S \in SUBSET Nat, S # {}
  PROVE  AnyOf(S) \in S
  BY LeastNatural DEF AnyOf

(* So does the choice of a voice: the ages of voices are bounded.          *)
LEMMA PickIsAVoice ==
  ASSUME NEW vs \in [Voice -> Triggers \cup {Quiet}], NEW hold \in BOOLEAN, ClipTypes
  PROVE  Pick(vs, hold) \in Voice
  <1> DEFINE rest == {v \in Voice : vs[v] = Quiet}
             free == {v \in Voice : hold \/ ~vs[v].hold}
             some == IF free # {} THEN free ELSE Voice
  <1>1. some \in SUBSET Voice /\ some # {}
    BY ClipsAssumption
  <1>2. Oldest(some) \in some
    <2> HIDE DEF some
    <2> DEFINE ages == {MaxTriggers - voices[w].n : w \in some}
    <2>1. \A w \in some : voices[w].n \in 0..MaxTriggers
      BY <1>1, ClipsAssumption DEF ClipTypes, Triggers, Quiet
    <2>2. ages \in SUBSET Nat /\ ages # {}
      <3>1. \A w \in some : MaxTriggers - voices[w].n \in Nat
        BY <2>1, ClipsAssumption
      <3> QED BY <1>1, <3>1
    <2>3. PICK m \in ages : \A t \in ages : m <= t
      <3> HIDE DEF ages
      <3> QED BY <2>2, LeastNatural
    <2>4. PICK v \in some : m = MaxTriggers - voices[v].n
      BY <2>3
    <2>5. \A w \in some : voices[v].n >= voices[w].n
      <3>1. ASSUME NEW w \in some PROVE voices[v].n >= voices[w].n
        <4>1. MaxTriggers - voices[v].n <= MaxTriggers - voices[w].n
          BY <2>3, <2>4
        <4> QED BY <2>1, <4>1, ClipsAssumption
      <3> QED BY <3>1
    <2> QED BY <2>5 DEF Oldest
  <1>3. CASE rest # {}
    BY <1>3, AnyOfIsOne, ClipsAssumption DEF Pick
  <1>4. CASE rest = {}
    BY <1>1, <1>2, <1>4 DEF Pick
  <1> QED BY <1>3, <1>4

(* Voices and the queue are finite.                                        *)
LEMMA UsersAreFinite ==
  ASSUME ClipTypes, NEW k
  PROVE  /\ IsFiniteSet(Voices(k)) /\ Cardinality(Voices(k)) \in Nat
         /\ IsFiniteSet(Queued(k)) /\ Cardinality(Queued(k)) \in Nat
  <1>1. IsFiniteSet(Voices(k))
    BY FS_Subset, ClipsAssumption DEF Voices, Playing
  <1>2. Queued(k) \in SUBSET (1..Len(queue)) /\ Len(queue) \in Nat
    BY DEF Queued, Waiting, ClipTypes
  <1>3. IsFiniteSet(Queued(k))
    <2>1. IsFiniteSet(1..Len(queue))
      BY <1>2, FS_Interval
    <2> QED BY <1>2, <2>1, FS_Subset
  <1> QED BY <1>1, <1>3, FS_CardinalityType

(* A slot without a reference is nobody's.                                 *)
LEMMA NobodyUses ==
  ASSUME ClipInv, NEW k \in Slot, refs[k] = 0
  PROVE  Voices(k) = {} /\ Queued(k) = {} /\ Reserved(k) = 0
  <1>1. Reserved(k) \in Nat
    BY DEF Reserved
  <1>2. Cardinality(Voices(k)) = 0 /\ Cardinality(Queued(k)) = 0 /\ Reserved(k) = 0
    BY <1>1, UsersAreFinite DEF ClipInv, Counted
  <1> QED BY <1>2, UsersAreFinite, FS_EmptySet DEF ClipInv

-----------------------------------------------------------------------------
(* The main loop.                                                          *)

(* What uses a slot depends on the voices, the queue and how much of it    *)
(* has been taken.                                                         *)
LEMMA UsersStay ==
  ASSUME UNCHANGED <<voices, queue>>, aud'.taken = aud.taken
  PROVE  /\ Playing' = Playing /\ Waiting' = Waiting
         /\ \A k : Voices(k)' = Voices(k) /\ Queued(k)' = Queued(k)
  BY DEF Playing, Waiting, Voices, Queued

(* Counting a clip and reserving it are one step, to whichever clip the    *)
(* slots have been changed.                                                *)
LEMMA CountKeeps ==
  ASSUME ClipInv, NEW i \in Slot, ctl.at # "queue",
         ctl'.at = "queue", ctl'.event \in Triggers, ctl'.event.slot = i,
         refs' = [refs EXCEPT ![i] = @ + 1],
         UNCHANGED <<voices, queue, aud>>
  PROVE  Counted'
  <1>1. \A k \in Slot : Reserved(k) = 0 /\ Reserved(k)' = IF k = i THEN 1 ELSE 0
    BY DEF Reserved
  <1>2. \A k \in Slot : refs'[k] = IF k = i THEN refs[k] + 1 ELSE refs[k]
    BY DEF ClipInv, ClipTypes
  <1>3. \A k \in Slot : Cardinality(Voices(k)) \in Nat /\ Cardinality(Queued(k)) \in Nat
    BY UsersAreFinite DEF ClipInv
  <1> QED BY <1>1, <1>2, <1>3, UsersStay DEF ClipInv, Counted

(* What is left of a budget stays within it.                               *)
LEMMA SpendLeaves ==
  ASSUME ClipTypes, NEW kind \in {"triggers", "stops", "changes"}, Spend(kind)
  PROVE  left' \in [triggers : 0..MaxTriggers, stops : 0..MaxStops, changes : 0..MaxChanges]
  <1>1. /\ left \in [triggers : 0..MaxTriggers, stops : 0..MaxStops, changes : 0..MaxChanges]
        /\ MaxTriggers \in Nat /\ MaxStops \in Nat /\ MaxChanges \in Nat
    BY ClipsAssumption DEF ClipTypes
  <1>2. left' = [left EXCEPT ![kind] = left[kind] - 1] /\ left[kind] > 0
    BY DEF Spend
  <1> QED BY <1>1, <1>2

(* A trigger counts its clip, or is kept until the sound has been loaded.  *)
LEMMA TriggerKeeps ==
  ASSUME ClipInv, NEW f \in File, NEW hold \in BOOLEAN, Trigger(f, hold)
  PROVE  ClipInv'
  <1>1. left.triggers \in 0..MaxTriggers /\ left.triggers > 0
    BY DEF ClipInv, ClipTypes, Trigger, Spend
  <1>2. left' \in [triggers : 0..MaxTriggers, stops : 0..MaxStops, changes : 0..MaxChanges]
    BY SpendLeaves DEF ClipInv, Trigger
  <1>3. CASE Loaded(f) # {}
    <2> DEFINE i == AnyOf(Loaded(f))
    <2>1. i \in Loaded(f)
      BY <1>3, AnyOfIsOne, ClipsAssumption DEF Loaded
    <2>2. i \in Slot /\ slots[i][1] = f /\ slots[i] \in Clips
      <3>1. i \in Slot /\ slots[i][1] = f
        BY <2>1 DEF Loaded
      <3>2. slots[i] # Empty
        BY <3>1, ClipsAssumption DEF Empty
      <3> QED BY <3>1, <3>2 DEF ClipInv, ClipTypes
    <2>3. Count(i, hold, left.triggers)
      BY <1>3 DEF Trigger
    <2> HIDE DEF i
    <2>4. Event(i, hold, slots[i], left.triggers) \in Triggers
      BY <1>1, <2>2 DEF Event, Triggers
    <2>5. /\ ctl' \in [at : {"queue"}, event : Triggers, todo : SUBSET File, seen : SUBSET Slot]
          /\ ctl'.at = "queue" /\ ctl'.event = Event(i, hold, slots[i], left.triggers)
      <3>1. ctl' = Main("queue", Event(i, hold, slots[i], left.triggers), {}, {})
        BY <2>3 DEF Count
      <3> QED BY <2>4, <3>1 DEF Main
    <2>6. UNCHANGED <<files, slots, queue, holdStops, stopAll, released, aud, voices, holdVoice>>
      BY DEF Trigger, audioVars
    <2>7. refs' = [refs EXCEPT ![i] = @ + 1]
      BY <2>3 DEF Count
    <2>8. Counted'
      <3>1. ctl.at # "queue" /\ ctl'.event \in Triggers /\ ctl'.event.slot = i
        BY <2>4, <2>5 DEF Trigger, Event
      <3> QED BY <2>2, <2>5, <2>6, <2>7, <3>1, CountKeeps
    <2>9. Kept'
      BY <2>2, <2>5, <2>6, UsersStay DEF ClipInv, Kept, Event
    <2>10. ClipTypes'
      BY <1>2, <2>2, <2>4, <2>5, <2>6, <2>7 DEF ClipInv, ClipTypes
    <2> QED BY <2>8, <2>9, <2>10 DEF ClipInv
  <1>4. CASE Loaded(f) = {}
    <2>1. UNCHANGED <<files, slots, refs, queue, holdStops, stopAll, released, aud, voices, holdVoice>>
      BY <1>4 DEF Trigger, audioVars
    <2>2. /\ ctl' \in [at : {"reload"}, event : Seekers, todo : SUBSET File, seen : SUBSET Slot]
          /\ ctl.at = "idle"
      <3>1. Event(0, hold, <<f, 0>>, left.triggers) \in Seekers
        BY <1>1 DEF Event, Seekers
      <3>2. ctl' = Main("reload", Event(0, hold, <<f, 0>>, left.triggers), Present, {})
            /\ ctl.at = "idle" /\ Present \in SUBSET File
        BY <1>4 DEF Trigger, Present
      <3>3. PICK todo \in SUBSET File :
              ctl' = Main("reload", Event(0, hold, <<f, 0>>, left.triggers), todo, {})
        BY <3>2
      <3> HIDE DEF Event
      <3> QED BY <3>1, <3>2, <3>3 DEF Main
    <2>3. Counted'
      BY <2>1, <2>2, UsersStay DEF ClipInv, Counted, Reserved
    <2>4. Kept'
      BY <2>1, <2>2, UsersStay DEF ClipInv, Kept
    <2>5. ClipTypes'
      BY <1>2, <2>1, <2>2 DEF ClipInv, ClipTypes
    <2> QED BY <2>3, <2>4, <2>5 DEF ClipInv
  <1> QED BY <1>3, <1>4

(* The count goes to the queue with the trigger, or back.                  *)
LEMMA EnqueueKeeps ==
  ASSUME ClipInv, Enqueue
  PROVE  ClipInv'
  <1> DEFINE i == ctl.event.slot
  <1>1. ctl.event \in Triggers /\ i \in Slot
    BY DEF ClipInv, ClipTypes, Enqueue, Triggers
  <1>2. /\ ctl' = Idle /\ ctl'.at = "idle" /\ ctl'.event = Quiet
        /\ UNCHANGED <<files, slots, holdStops, stopAll, released, left, aud, voices, holdVoice>>
    BY DEF Enqueue, audioVars, Idle, Main
  <1>3. ctl' \in [at : {"idle"}, event : {Quiet}, todo : SUBSET File, seen : SUBSET Slot]
    BY <1>2 DEF Idle, Main
  <1>4. \A k \in Slot : Reserved(k)' = 0 /\ Reserved(k) = IF k = i THEN 1 ELSE 0
    BY <1>2 DEF Reserved, Enqueue
  <1>5. \A k \in Slot : Cardinality(Voices(k)) \in Nat /\ Cardinality(Queued(k)) \in Nat
    BY UsersAreFinite DEF ClipInv
  <1>6. CASE Len(queue) >= QueueCap
    <2>1. refs' = [refs EXCEPT ![i] = @ - 1] /\ queue' = queue
      BY <1>6 DEF Enqueue
    <2>2. \A k \in Slot : refs'[k] = IF k = i THEN refs[k] - 1 ELSE refs[k]
      BY <2>1 DEF ClipInv, ClipTypes
    <2>3. Counted'
      BY <1>2, <1>4, <1>5, <2>1, <2>2, UsersStay DEF ClipInv, Counted
    <2>4. Kept'
      BY <1>2, <2>1, UsersStay DEF ClipInv, Kept
    <2>5. refs[i] - 1 \in Nat
      BY <1>1, <1>4, <1>5 DEF ClipInv, ClipTypes, Counted
    <2>6. ClipTypes'
      BY <1>2, <1>3, <2>1, <2>5 DEF ClipInv, ClipTypes
    <2> QED BY <2>3, <2>4, <2>6 DEF ClipInv
  <1>7. CASE ~(Len(queue) >= QueueCap)
    <2> DEFINE last == Len(queue) + 1
    <2>1. queue' = Append(queue, ctl.event) /\ refs' = refs
      BY <1>7 DEF Enqueue
    <2>2. queue \in Seq(Triggers) /\ Len(queue) \in Nat
      BY DEF ClipInv, ClipTypes
    <2>3. /\ queue' \in Seq(Triggers) /\ Len(queue') = last /\ queue'[last] = ctl.event
          /\ \A j \in 1..Len(queue) : queue'[j] = queue[j]
      BY <1>1, <2>1, <2>2
    <2>4. aud.taken \in Nat /\ aud.taken < last
      BY <2>2 DEF ClipInv, ClipTypes
    <2>5. Waiting' = Waiting \cup {last} /\ last \notin Waiting /\ Waiting \subseteq 1..Len(queue)
      <3>1. DOMAIN queue' = 1..last /\ DOMAIN queue = 1..Len(queue)
        BY <2>2, <2>3
      <3> QED BY <1>2, <2>2, <2>4, <3>1 DEF Waiting
    <2>6. Playing' = Playing /\ \A k : Voices(k)' = Voices(k)
      BY <1>2 DEF Playing, Voices
    <2>7. \A k \in Slot : Queued(k)' = IF k = i THEN Queued(k) \cup {last} ELSE Queued(k)
      BY <2>3, <2>5 DEF Queued
    <2>8. \A k \in Slot : Cardinality(Queued(k)') = IF k = i THEN Cardinality(Queued(k)) + 1
                                                   ELSE Cardinality(Queued(k))
      <3>1. \A k \in Slot : last \notin Queued(k) /\ IsFiniteSet(Queued(k))
        BY <2>5, UsersAreFinite DEF Queued, ClipInv
      <3> QED BY <2>7, <3>1, FS_AddElement
    <2>9. Counted'
      BY <1>4, <1>5, <2>1, <2>6, <2>8 DEF ClipInv, Counted
    <2>10. Kept'
      BY <1>2, <2>3, <2>5, <2>6 DEF ClipInv, Kept, Enqueue
    <2>11. ClipTypes'
      BY <1>2, <1>3, <2>1, <2>3 DEF ClipInv, ClipTypes
    <2> QED BY <2>9, <2>10, <2>11 DEF ClipInv
  <1> QED BY <1>6, <1>7

(* What waits in the queue is a trigger.                                   *)
LEMMA WaitingAreTriggers ==
  ASSUME ClipTypes, NEW j \in Waiting
  PROVE  j \in 1..Len(queue) /\ queue[j] \in Triggers
  BY DEF Waiting, ClipTypes

(* A slot that is used has a reference: what spares the slots that have    *)
(* one leaves everybody his clip.                                          *)
LEMMA UsedSlotsStay ==
  ASSUME ClipInv, \A k \in Slot : refs[k] > 0 => slots'[k] = slots[k],
         UNCHANGED <<voices, queue, aud>>
  PROVE  /\ \A v \in Playing' : slots'[voices'[v].slot] = voices'[v].clip
         /\ \A j \in Waiting' : slots'[queue'[j].slot] = queue'[j].clip
  <1>1. \A k \in Slot : refs[k] \in Nat /\ (refs[k] = 0 \/ refs[k] > 0)
    BY DEF ClipInv, ClipTypes
  <1>2. ASSUME NEW v \in Playing
        PROVE  slots'[voices[v].slot] = voices[v].clip
    <2>1. voices[v].slot \in Slot
      BY DEF Playing, ClipInv, ClipTypes, Triggers
    <2>2. Voices(voices[v].slot) # {}
      BY DEF Voices
    <2> QED BY <1>1, <2>1, <2>2, NobodyUses DEF ClipInv, Kept
  <1>3. ASSUME NEW j \in Waiting
        PROVE  slots'[queue[j].slot] = queue[j].clip
    <2>1. queue[j].slot \in Slot
      BY WaitingAreTriggers DEF ClipInv, Triggers
    <2>2. Queued(queue[j].slot) # {}
      BY DEF Queued
    <2> QED BY <1>1, <2>1, <2>2, NobodyUses DEF ClipInv, Kept
  <1> QED BY <1>2, <1>3, UsersStay

(* A reload reads only what nothing refers to.                             *)
LEMMA ReloadKeeps ==
  ASSUME ClipInv, NEW f \in File, Reload(f)
  PROVE  ClipInv'
  <1> DEFINE there == Loaded(f)
             free == {k \in Slot : slots[k] = Empty /\ refs[k] = 0}
             at == IF there # {} THEN there ELSE free
             k == AnyOf(at)
  <1>1. /\ UNCHANGED <<files, refs, queue, holdStops, stopAll, released, left, aud, voices,
                       holdVoice>>
        /\ ctl.at = "reload"
    BY DEF Reload, audioVars
  <1>2. at # {} => k \in at /\ k \in Slot
    <2>1. at \in SUBSET Nat /\ at \in SUBSET Slot
      BY ClipsAssumption DEF Loaded
    <2> HIDE DEF at
    <2> QED BY <2>1, AnyOfIsOne
  <1>3. \A i \in Slot : refs[i] \in Nat
    BY DEF ClipInv, ClipTypes
  <1>4. PICK todo \in SUBSET File, seen \in SUBSET Slot : ctl' = Main("reload", ctl.event, todo, seen)
    <2>1. ctl.todo \in SUBSET File /\ ctl.seen \in SUBSET Slot
      BY DEF ClipInv, ClipTypes
    <2>2. CASE at = {}
      <3>1. ctl' = Main("reload", ctl.event, ctl.todo \ {f}, ctl.seen)
        BY <2>2 DEF Reload
      <3> QED BY <2>1, <3>1
    <2>3. CASE at # {}
      <3>1. \/ ctl' = Main("reload", ctl.event, ctl.todo \ {f}, ctl.seen \cup {k})
            \/ ctl' = Main("reload", ctl.event, ctl.todo \ {f}, ctl.seen)
        BY <2>3 DEF Reload
      <3> QED BY <1>2, <2>1, <2>3, <3>1
    <2> QED BY <2>2, <2>3
  <1>5. /\ \A i \in Slot : refs[i] > 0 => slots'[i] = slots[i]
        /\ slots' \in [Slot -> Clips \cup {Empty}]
    <2>1. CASE slots' = slots
      BY <2>1 DEF ClipInv, ClipTypes
    <2>2. CASE slots' # slots
      <3>1. at # {}
        BY <2>2 DEF Reload
      <3>2. ~(there # {} /\ refs[k] > 0) /\ (slots' = [slots EXCEPT ![k] = <<f, files[f]>>]
                                             \/ slots' = [slots EXCEPT ![k] = Empty])
        BY <2>2, <3>1 DEF Reload
      <3>3. refs[k] = 0
        BY <1>2, <1>3, <3>1, <3>2
      <3>4. <<f, files[f]>> \in Clips
        BY DEF Clips, ClipInv, ClipTypes
      <3>5. PICK c \in Clips \cup {Empty} : slots' = [slots EXCEPT ![k] = c]
        BY <3>2, <3>4
      <3>6. slots \in [Slot -> Clips \cup {Empty}]
        BY DEF ClipInv, ClipTypes
      <3>7. k \in Slot
        BY <1>2, <3>1
      <3> HIDE DEF k
      <3>8. \A i \in Slot : i # k => slots'[i] = slots[i]
        BY <3>5, <3>6
      <3>9. ~(refs[k] > 0)
        BY <3>3
      <3> QED BY <3>5, <3>6, <3>7, <3>8, <3>9
    <2> QED BY <2>1, <2>2
  <1> HIDE DEF k
  <1>6. /\ ctl' \in [at : {"reload"}, event : Seekers \cup {Quiet}, todo : SUBSET File, seen : SUBSET Slot]
    BY <1>1, <1>4 DEF Main, ClipInv, ClipTypes
  <1>7. Kept'
    BY <1>1, <1>5, <1>6, UsedSlotsStay DEF Kept
  <1>8. Counted'
    BY <1>1, <1>6, UsersStay DEF ClipInv, Counted, Reserved
  <1>9. ClipTypes'
    BY <1>1, <1>5, <1>6 DEF ClipInv, ClipTypes
  <1> QED BY <1>7, <1>8, <1>9 DEF ClipInv

(* The sweep at its end frees only what nothing refers to.                 *)
LEMMA SweepKeeps ==
  ASSUME ClipInv, Sweep
  PROVE  ClipInv'
  <1> DEFINE kept == [k \in Slot |-> IF k \in ctl.seen \/ refs[k] > 0 THEN slots[k] ELSE Empty]
             at == IF ctl.event = Quiet THEN {} ELSE {k \in Slot : kept[k][1] = ctl.event.clip[1]}
             i == AnyOf(at)
             e == Event(i, ctl.event.hold, kept[i], ctl.event.n)
  <1>1. /\ UNCHANGED <<files, queue, holdStops, stopAll, released, left, aud, voices, holdVoice>>
        /\ ctl.at = "reload" /\ ctl.event \in Seekers \cup {Quiet} /\ slots' = kept
    BY DEF Sweep, audioVars, ClipInv, ClipTypes
  <1>2. slots' \in [Slot -> Clips \cup {Empty}] /\ \A k \in Slot : refs[k] > 0 => slots'[k] = slots[k]
    BY <1>1 DEF ClipInv, ClipTypes
  <1>3. CASE at = {}
    <2>1. ctl' = Idle /\ refs' = refs
      BY <1>3 DEF Sweep
    <2>2. ctl' \in [at : {"idle"}, event : {Quiet}, todo : SUBSET File, seen : SUBSET Slot]
      BY <2>1 DEF Idle, Main
    <2>3. Kept'
      BY <1>1, <1>2, <2>2, UsedSlotsStay DEF Kept
    <2>4. Counted'
      BY <1>1, <2>1, <2>2, UsersStay DEF ClipInv, Counted, Reserved
    <2>5. ClipTypes'
      BY <1>1, <1>2, <2>1, <2>2 DEF ClipInv, ClipTypes
    <2> QED BY <2>3, <2>4, <2>5 DEF ClipInv
  <1>4. CASE at # {}
    <2>1. i \in at
      <3>1. at \in SUBSET Nat
        BY ClipsAssumption
      <3> HIDE DEF at
      <3> QED BY <1>4, <3>1, AnyOfIsOne
    <2>2. /\ ctl.event \in Seekers /\ i \in Slot
          /\ kept[i][1] = ctl.event.clip[1]
      BY <1>1, <1>4, <2>1
    <2>3. refs' = [refs EXCEPT ![i] = @ + 1] /\ ctl' = Main("queue", e, {}, {})
      BY <1>4 DEF Sweep
    <2> HIDE DEF i
    <2>4. kept[i] \in Clips
      <3>1. kept[i][1] \in File
        BY <2>2 DEF Seekers
      <3>2. kept[i] # Empty
        BY <3>1, ClipsAssumption DEF Empty
      <3> QED BY <1>1, <1>2, <2>2, <3>2
    <2>5. e \in Triggers /\ e.slot = i /\ e.clip = slots'[i]
      BY <1>1, <2>2, <2>4 DEF Event, Triggers, Seekers
    <2> HIDE DEF e
    <2>6. /\ ctl' \in [at : {"queue"}, event : Triggers, todo : SUBSET File, seen : SUBSET Slot]
          /\ ctl'.event = e
      BY <2>3, <2>5 DEF Main
    <2>7. Kept'
      BY <1>1, <1>2, <2>5, <2>6, UsedSlotsStay DEF Kept
    <2>8. Counted'
      BY <1>1, <2>2, <2>3, <2>5, <2>6, CountKeeps
    <2>9. ClipTypes'
      BY <1>1, <1>2, <2>2, <2>3, <2>6 DEF ClipInv, ClipTypes
    <2> QED BY <2>7, <2>8, <2>9 DEF ClipInv
  <1> QED BY <1>3, <1>4

(* Files come and go, stops are asked for: no clip is touched.             *)
LEMMA ChangeKeeps ==
  ASSUME ClipInv, NEW f \in File, NEW version \in Nat, NEW reload \in BOOLEAN,
         Change(f, version, reload)
  PROVE  ClipInv'
  <1>1. /\ UNCHANGED <<slots, refs, queue, holdStops, stopAll, released, aud, voices, holdVoice>>
        /\ ctl.at = "idle" /\ files' = [files EXCEPT ![f] = version]
    BY DEF Change, audioVars
  <1>2. left' \in [triggers : 0..MaxTriggers, stops : 0..MaxStops, changes : 0..MaxChanges]
    BY SpendLeaves DEF ClipInv, Change
  <1>3. PICK todo \in SUBSET File : ctl' = Main("reload", Quiet, todo, {}) \/ ctl' = ctl
    <2>1. CASE reload
      <3>1. ctl' = Main("reload", Quiet, Present', {})
        BY <2>1 DEF Change
      <3>2. Present' \in SUBSET File
        BY DEF Present
      <3> QED BY <3>1, <3>2
    <2>2. CASE ~reload
      BY <2>2 DEF Change
    <2> QED BY <2>1, <2>2
  <1>4. /\ ctl' \in [at : {"idle", "reload"}, event : Seekers \cup {Quiet}, todo : SUBSET File,
                     seen : SUBSET Slot]
    BY <1>1, <1>3 DEF Main, ClipInv, ClipTypes
  <1>5. Kept' /\ Counted'
    BY <1>1, <1>4, UsersStay DEF ClipInv, Kept, Counted, Reserved
  <1>6. ClipTypes'
    BY <1>1, <1>2, <1>4 DEF ClipInv, ClipTypes
  <1> QED BY <1>5, <1>6 DEF ClipInv

(* Asking for a release or for Stop All touches neither.                   *)
LEMMA StopsAreAsked ==
  ASSUME ClipInv, StopHeld \/ StopAll
  PROVE  ClipInv'
  <1>1. UNCHANGED <<files, slots, refs, queue, ctl, aud, voices, holdVoice>>
    BY DEF StopHeld, StopAll, audioVars
  <1>2. left' \in [triggers : 0..MaxTriggers, stops : 0..MaxStops, changes : 0..MaxChanges]
    BY SpendLeaves DEF ClipInv, StopHeld, StopAll
  <1>3. Kept' /\ Counted'
    BY <1>1, UsersStay DEF ClipInv, Kept, Counted, Reserved
  <1>4. ClipTypes'
    BY <1>1, <1>2 DEF ClipInv, ClipTypes
  <1> QED BY <1>3, <1>4 DEF ClipInv

-----------------------------------------------------------------------------
(* The audio thread.                                                       *)

(* A voice that stops gives back one reference.                            *)
LEMMA StopCounts ==
  ASSUME ClipInv, NEW gone \in SUBSET Voice, NEW k \in Slot
  PROVE  /\ Cardinality({v \in gone : voices[v].slot = k}) \in Nat
         /\ Released(refs, gone)[k] = refs[k] - Cardinality({v \in gone : voices[v].slot = k})
         /\ Released(refs, gone)[k] \in Nat
         /\ Cardinality(Voices(k) \ gone) =
              Cardinality(Voices(k)) - Cardinality({v \in gone : voices[v].slot = k})
  <1> DEFINE mine == {v \in gone : voices[v].slot = k}
  <1>1. mine = Voices(k) \cap gone
    <2>1. k # 0 /\ \A v \in gone : voices[v] = Quiet => voices[v].slot = 0
      BY ClipsAssumption DEF Quiet
    <2> QED BY <2>1 DEF Voices, Playing
  <1>2. IsFiniteSet(Voices(k)) /\ Cardinality(Voices(k)) \in Nat /\ Cardinality(Queued(k)) \in Nat
    BY UsersAreFinite DEF ClipInv
  <1>3. Voices(k) \cap gone \in SUBSET Voices(k)
    OBVIOUS
  <1>4. IsFiniteSet(mine) /\ Cardinality(mine) <= Cardinality(Voices(k))
    <2> HIDE DEF mine
    <2> QED BY <1>1, <1>2, <1>3, FS_Subset
  <1>5. Cardinality(mine) \in Nat
    <2> HIDE DEF mine
    <2> QED BY <1>4, FS_CardinalityType
  <1>6. Cardinality(Voices(k) \ gone) = Cardinality(Voices(k)) - Cardinality(mine)
    <2> HIDE DEF mine
    <2> QED BY <1>1, <1>2, FS_Difference
  <1>7. refs[k] \in Nat /\ refs[k] >= Cardinality(Voices(k))
    BY <1>2 DEF ClipInv, ClipTypes, Counted, Reserved
  <1>8. Released(refs, gone)[k] = IF refs[k] < Cardinality(mine) THEN 0
                                  ELSE refs[k] - Cardinality(mine)
    BY DEF Released
  <1> HIDE DEF mine
  <1>9. Released(refs, gone)[k] = refs[k] - Cardinality(mine) /\ Released(refs, gone)[k] \in Nat
    BY <1>2, <1>4, <1>5, <1>7, <1>8
  <1> QED BY <1>5, <1>6, <1>9 DEF mine

(* Some voices stop, and the queue stays.                                  *)
LEMMA StopKeeps ==
  ASSUME ClipInv, NEW gone \in SUBSET Voice, Stop(gone),
         UNCHANGED <<mainVars, queue>>, aud'.taken = aud.taken
  PROVE  /\ Kept' /\ Counted'
         /\ refs' \in [Slot -> Nat] /\ voices' \in [Voice -> Triggers \cup {Quiet}]
         /\ holdVoice' \in {0} \cup Voice
  <1>1. /\ refs' = Released(refs, gone)
        /\ voices' = [v \in Voice |-> IF v \in gone THEN Quiet ELSE voices[v]]
        /\ holdVoice' = IF holdVoice \in gone THEN 0 ELSE holdVoice
    BY DEF Stop
  <1>2. Playing' = Playing \ gone /\ \A v \in Playing' : voices'[v] = voices[v]
    BY <1>1 DEF Playing
  <1>3. \A k : Voices(k)' = Voices(k) \ gone
    BY <1>2 DEF Voices
  <1>4. Waiting' = Waiting /\ \A k : Queued(k)' = Queued(k)
    BY DEF Waiting, Queued
  <1>5. \A k : Reserved(k)' = Reserved(k) /\ Reserved(k) \in Nat
    BY DEF Reserved, mainVars
  <1>6. \A k \in Slot : Cardinality(Voices(k)) \in Nat /\ Cardinality(Queued(k)) \in Nat
    BY UsersAreFinite DEF ClipInv
  <1>7. refs' \in [Slot -> Nat]
    <2>1. \A k \in Slot : refs'[k] \in Nat
      BY <1>1, StopCounts
    <2> QED BY <1>1, <2>1 DEF Released
  <1>8. Counted'
    <2> SUFFICES ASSUME NEW k \in Slot
                 PROVE  refs'[k] = Cardinality(Voices(k)') + Cardinality(Queued(k)') + Reserved(k)'
      BY DEF Counted
    <2> DEFINE n == Cardinality({v \in gone : voices[v].slot = k})
    <2>1. n \in Nat /\ refs'[k] = refs[k] - n /\ Cardinality(Voices(k)') = Cardinality(Voices(k)) - n
      BY <1>1, <1>3, StopCounts
    <2> HIDE DEF n
    <2> QED BY <1>4, <1>5, <1>6, <2>1 DEF ClipInv, Counted
  <1>9. Kept'
    BY <1>2, <1>4 DEF ClipInv, Kept, mainVars
  <1>10. voices' \in [Voice -> Triggers \cup {Quiet}] /\ holdVoice' \in {0} \cup Voice
    BY <1>1 DEF ClipInv, ClipTypes
  <1> QED BY <1>7, <1>8, <1>9, <1>10

(* What the audio thread only looks at, or takes note of.                  *)
LEMMA LookingKeeps ==
  ASSUME ClipInv, UNCHANGED <<mainVars, refs, queue, voices, holdVoice>>,
         aud' \in [at : Places, taken : Nat, upTo : Nat], aud'.taken = aud.taken,
         aud'.taken <= aud'.upTo, aud'.upTo <= Len(queue),
         aud'.at # "take" => aud'.taken = 0 /\ aud'.upTo = 0
  PROVE  ClipInv'
  <1>1. Kept' /\ Counted'
    BY UsersStay DEF ClipInv, Kept, Counted, Reserved, mainVars
  <1>2. ClipTypes'
    BY DEF ClipInv, ClipTypes, mainVars
  <1> QED BY <1>1, <1>2 DEF ClipInv

(* Going on to the next place takes nothing of the queue.                  *)
LEMMA GoGoes ==
  ASSUME ClipTypes, NEW at \in Places \ {"take"},
         Go(at), aud.at # "take"
  PROVE  /\ aud' \in [at : Places, taken : Nat, upTo : Nat] /\ aud'.at = at
         /\ aud'.taken = 0 /\ aud'.upTo = 0 /\ aud.taken = 0 /\ aud.upTo = 0
  <1>1. /\ aud \in [at : Places, taken : Nat, upTo : Nat] /\ aud' = [aud EXCEPT !.at = at]
        /\ aud.taken = 0 /\ aud.upTo = 0
    BY DEF ClipTypes, Go
  <1> QED BY <1>1

(* What the audio thread reads before a block.                             *)
LEMMA RestsKeep ==
  ASSUME ClipInv, TakeStopAll \/ ForgetReleases \/ Window
  PROVE  ClipInv'
  <1>0. Len(queue) \in Nat /\ aud.upTo <= Len(queue)
    BY DEF ClipInv, ClipTypes
  <1>1. CASE TakeStopAll \/ ForgetReleases
    <2>1. PICK at \in {"stopall", "release", "stopping"} : Go(at) /\ aud.at # "take"
      BY <1>1 DEF TakeStopAll, ForgetReleases
    <2>2. UNCHANGED <<mainVars, refs, queue, voices, holdVoice>>
      BY <1>1 DEF TakeStopAll, ForgetReleases
    <2> QED BY <1>0, <2>1, <2>2, GoGoes, LookingKeeps DEF Places, ClipInv
  <1>2. CASE Window
    <2>1. aud' = [at |-> "take", taken |-> 0, upTo |-> Len(queue)] /\ aud.taken = 0
      BY <1>2 DEF Window, ClipInv, ClipTypes
    <2>2. UNCHANGED <<mainVars, refs, queue, voices, holdVoice>>
      BY <1>2 DEF Window
    <2>3. /\ aud' \in [at : Places, taken : Nat, upTo : Nat] /\ aud'.at = "take"
          /\ aud'.taken = aud.taken /\ aud'.taken <= aud'.upTo /\ aud'.upTo <= Len(queue)
      BY <1>0, <2>1 DEF Places
    <2> QED BY <2>2, <2>3, LookingKeeps
  <1> QED BY <1>1, <1>2

(* Voices that stop while the thread goes on, or stays where it is.        *)
LEMMA StoppingKeeps ==
  ASSUME ClipInv, NEW gone \in SUBSET Voice, Stop(gone),
         UNCHANGED <<mainVars, queue>>, aud.at # "take",
         aud' = aud \/ \E at \in {"idle", "window"} : Go(at)
  PROVE  ClipInv'
  <1>1. /\ aud' \in [at : Places, taken : Nat, upTo : Nat]
        /\ aud'.at # "take"
        /\ aud'.taken = 0 /\ aud'.upTo = 0 /\ aud.taken = 0
    BY GoGoes DEF Places, ClipInv, ClipTypes
  <1>2. /\ Kept' /\ Counted'
        /\ refs' \in [Slot -> Nat] /\ voices' \in [Voice -> Triggers \cup {Quiet}]
        /\ holdVoice' \in {0} \cup Voice
    BY <1>1, StopKeeps
  <1>3. ClipTypes'
    BY <1>1, <1>2 DEF ClipInv, ClipTypes, mainVars
  <1> QED BY <1>2, <1>3 DEF ClipInv

(* The steps that only end voices.                                         *)
LEMMA StopsKeep ==
  ASSUME ClipInv, StopOne \/ TakeReleases \/ Render
  PROVE  ClipInv'
  <1>0. Len(queue) \in Nat /\ holdVoice \in {0} \cup Voice
    BY DEF ClipInv, ClipTypes
  <1>1. CASE StopOne
    <2>1. CASE \E v \in Voice : Stop({v}) /\ UNCHANGED aud
      BY <1>1, <2>1, StoppingKeeps DEF StopOne
    <2>2. CASE Go("drain") /\ UNCHANGED <<refs, voices, holdVoice>>
      BY <1>0, <1>1, <2>2, GoGoes, LookingKeeps DEF Places, StopOne, ClipInv
    <2> QED BY <1>1, <2>1, <2>2 DEF StopOne
  <1>2. CASE TakeReleases
    <2>1. CASE holdStops /\ holdVoice # 0
      <3>1. {holdVoice} \in SUBSET Voice /\ Stop({holdVoice})
        BY <1>0, <1>2, <2>1 DEF TakeReleases
      <3> QED BY <1>2, <3>1, StoppingKeeps DEF TakeReleases
    <2>2. CASE ~(holdStops /\ holdVoice # 0)
      <3>1. UNCHANGED <<refs, voices, holdVoice>>
        BY <1>2, <2>2 DEF TakeReleases
      <3> QED BY <1>0, <1>2, <3>1, GoGoes, LookingKeeps DEF Places, TakeReleases, ClipInv
    <2> QED BY <2>1, <2>2
  <1>3. CASE Render
    <2>1. PICK gone \in SUBSET Voice : Stop(gone)
      BY <1>3 DEF Render
    <2> QED BY <1>3, <2>1, StoppingKeeps DEF Render
  <1> QED BY <1>1, <1>2, <1>3

(* Stop All takes what is queued by then, and its references.              *)
LEMMA DrainKeeps ==
  ASSUME ClipInv, Drain
  PROVE  ClipInv'
  <1>1. /\ refs' = [k \in Slot |-> refs[k] - Cardinality({j \in DOMAIN queue : queue[j].slot = k})]
        /\ queue' = <<>> /\ Go("render") /\ aud.at = "drain"
        /\ UNCHANGED <<mainVars, voices, holdVoice>>
    BY DEF Drain
  <1>2. /\ aud' \in [at : Places, taken : Nat, upTo : Nat] /\ aud'.at = "render"
        /\ aud'.taken = 0 /\ aud'.upTo = 0 /\ aud.taken = 0
    BY <1>1, GoGoes DEF Places, ClipInv
  <1>3. Waiting' = {} /\ Waiting = DOMAIN queue
    <2>1. DOMAIN queue = 1..Len(queue) /\ DOMAIN queue' = {}
      BY <1>1 DEF ClipInv, ClipTypes
    <2> QED BY <1>2, <2>1 DEF Waiting
  <1>4. Playing' = Playing /\ \A k : Voices(k)' = Voices(k) /\ Queued(k)' = {}
                                     /\ Queued(k) = {j \in DOMAIN queue : queue[j].slot = k}
    BY <1>1, <1>3 DEF Playing, Voices, Queued
  <1>5. \A k \in Slot : Cardinality(Voices(k)) \in Nat /\ Cardinality(Queued(k)) \in Nat
    BY UsersAreFinite DEF ClipInv
  <1>6. \A k : Reserved(k)' = Reserved(k) /\ Reserved(k) \in Nat
    BY <1>1 DEF Reserved, mainVars
  <1>7. \A k \in Slot : refs'[k] = refs[k] - Cardinality(Queued(k))
    BY <1>1, <1>4
  <1>8. Cardinality({}) = 0
    BY FS_EmptySet
  <1>9. Counted' /\ \A k \in Slot : refs'[k] \in Nat
    <2> SUFFICES ASSUME NEW k \in Slot
                 PROVE  /\ refs'[k] = Cardinality(Voices(k)') + Cardinality(Queued(k)') + Reserved(k)'
                        /\ refs'[k] \in Nat
      BY DEF Counted
    <2>1. Cardinality(Voices(k)') = Cardinality(Voices(k)) /\ Cardinality(Queued(k)') = 0
      BY <1>4, <1>8
    <2>2. refs[k] = Cardinality(Voices(k)) + Cardinality(Queued(k)) + Reserved(k)
      BY DEF ClipInv, Counted
    <2> QED BY <1>5, <1>6, <1>7, <2>1, <2>2
  <1>10. Kept'
    BY <1>1, <1>3, <1>4 DEF ClipInv, Kept, mainVars
  <1>11. refs' \in [Slot -> Nat] /\ queue' \in Seq(Triggers) /\ Len(queue') = 0
    BY <1>1, <1>9
  <1>12. ClipTypes'
    BY <1>1, <1>2, <1>11 DEF ClipInv, ClipTypes, mainVars
  <1> QED BY <1>9, <1>10, <1>12 DEF ClipInv

(* The triggers that were taken leave the queue; the others move up.       *)
LEMMA TakenKeeps ==
  ASSUME ClipInv, Taken
  PROVE  ClipInv'
  <1> DEFINE u == aud.upTo
  <1>1. /\ queue' = SubSeq(queue, u + 1, Len(queue))
        /\ aud' = [at |-> "render", taken |-> 0, upTo |-> 0] /\ aud.taken = u
        /\ UNCHANGED <<mainVars, refs, voices, holdVoice>>
    BY DEF Taken
  <1>2. queue \in Seq(Triggers) /\ Len(queue) \in Nat /\ u \in Nat /\ u <= Len(queue)
    BY DEF ClipInv, ClipTypes
  <1> HIDE DEF u
  <1>3. /\ queue' \in Seq(Triggers) /\ Len(queue') = Len(queue) - u
        /\ \A j \in 1..Len(queue') : queue'[j] = queue[j + u]
    BY <1>1, <1>2
  <1>4. Waiting' = 1..Len(queue') /\ Waiting = (u + 1)..Len(queue)
    <2>1. DOMAIN queue' = 1..Len(queue') /\ DOMAIN queue = 1..Len(queue) /\ Len(queue') \in Nat
      BY <1>2, <1>3
    <2>2. Waiting' = {j \in 1..Len(queue') : j > 0}
      BY <1>1, <2>1 DEF Waiting
    <2>3. Waiting = {j \in 1..Len(queue) : j > u}
      BY <1>1, <2>1 DEF Waiting
    <2> QED BY <1>2, <2>1, <2>2, <2>3
  <1>5. \A k : Cardinality(Queued(k)') = Cardinality(Queued(k))
    <2> TAKE k
    <2> DEFINE up == [j \in Queued(k) |-> j - u]
    <2>1. \A j : j \in Queued(k) <=> j \in (u + 1)..Len(queue) /\ queue[j].slot = k
      BY <1>4 DEF Queued
    <2>2. \A j : j \in Queued(k)' <=> j \in 1..Len(queue') /\ queue'[j].slot = k
      BY <1>4 DEF Queued
    <2>3. ASSUME NEW j \in Queued(k) PROVE j - u \in Queued(k)'
      <3>1. j - u \in 1..Len(queue') /\ (j - u) + u = j /\ queue[j].slot = k
        BY <1>2, <1>3, <2>1
      <3>2. queue'[j - u] = queue[j]
        BY <1>3, <3>1
      <3> QED BY <2>2, <3>1, <3>2
    <2>4. ASSUME NEW j \in Queued(k)' PROVE j + u \in Queued(k) /\ up[j + u] = j
      BY <1>2, <1>3, <2>1, <2>2, <2>4
    <2>5. \A i, j \in Queued(k) : up[i] = up[j] => i = j
      BY <1>2, <2>1
    <2>6. up \in [Queued(k) -> Queued(k)']
      BY <2>3
    <2>7. up \in Bijection(Queued(k), Queued(k)')
      BY <2>4, <2>5, <2>6 DEF Bijection, Injection, Surjection, IsInjective
    <2>8. ExistsBijection(Queued(k), Queued(k)')
      BY <2>7 DEF ExistsBijection
    <2> QED BY <2>8, UsersAreFinite, FS_Bijection DEF ClipInv
  <1>6. Playing' = Playing /\ \A k : Voices(k)' = Voices(k) /\ Reserved(k)' = Reserved(k)
    BY <1>1 DEF Playing, Voices, Reserved, mainVars
  <1>7. Counted'
    BY <1>1, <1>5, <1>6 DEF ClipInv, Counted
  <1>8. Kept'
    <2>1. ASSUME NEW j \in Waiting' PROVE slots'[queue'[j].slot] = queue'[j].clip
      <3>1. j + u \in Waiting /\ queue'[j] = queue[j + u]
        BY <1>2, <1>3, <1>4, <2>1
      <3> QED BY <1>1, <3>1 DEF ClipInv, Kept, mainVars
    <2> QED BY <1>1, <1>6, <2>1 DEF ClipInv, Kept, mainVars
  <1>9. /\ aud' \in [at : Places, taken : Nat, upTo : Nat] /\ aud'.taken = 0 /\ aud'.upTo = 0
        /\ 0 <= Len(queue')
    BY <1>1, <1>2, <1>3 DEF Places
  <1>10. ClipTypes'
    BY <1>1, <1>3, <1>9 DEF ClipInv, ClipTypes, mainVars
  <1> QED BY <1>7, <1>8, <1>10 DEF ClipInv


(* The trigger that is taken leaves those who wait.                        *)
LEMMA OneLessWaits ==
  ASSUME ClipTypes, aud.taken < aud.upTo,
         aud' = [aud EXCEPT !.taken = @ + 1], UNCHANGED queue
  PROVE  /\ aud' = [at |-> aud.at, taken |-> aud.taken + 1, upTo |-> aud.upTo]
         /\ aud.taken + 1 \in Waiting /\ Waiting' = Waiting \ {aud.taken + 1}
  <1>1. /\ aud \in [at : Places, taken : Nat, upTo : Nat]
        /\ aud.upTo <= Len(queue) /\ DOMAIN queue = 1..Len(queue) /\ Len(queue) \in Nat
    BY DEF ClipTypes
  <1>2. aud' = [at |-> aud.at, taken |-> aud.taken + 1, upTo |-> aud.upTo]
    BY <1>1
  <1>3. aud'.taken = aud.taken + 1 /\ DOMAIN queue' = DOMAIN queue
    BY <1>2
  <1>4. Waiting = {j \in 1..Len(queue) : j > aud.taken}
    BY <1>1 DEF Waiting
  <1>5. Waiting' = {j \in 1..Len(queue) : j > aud.taken + 1}
    BY <1>1, <1>3 DEF Waiting
  <1> QED BY <1>1, <1>2, <1>4, <1>5

(* The voices of a slot once a trigger has been given the voice v.         *)
LEMMA GivenVoice ==
  ASSUME ClipTypes, NEW e \in Triggers, NEW gone \in SUBSET Voice, NEW v \in gone,
         \A w \in Voice : voices'[w] = IF w = v THEN e ELSE IF w \in gone THEN Quiet ELSE voices[w]
  PROVE  /\ Playing' = (Playing \ gone) \cup {v}
         /\ \A k \in Slot : Voices(k)' = (Voices(k) \ gone) \cup (IF e.slot = k THEN {v} ELSE {})
  <1>1. e # Quiet /\ voices'[v] = e /\ e.slot \in Slot
    BY ClipsAssumption DEF Triggers, Quiet
  <1>2. Playing' = (Playing \ gone) \cup {v}
    BY <1>1 DEF Playing
  <1>3. \A w \in Playing \ gone : voices'[w] = voices[w]
    BY DEF Playing
  <1> QED BY <1>1, <1>2, <1>3 DEF Voices

(* A trigger is taken: its reference goes over from the queue to the       *)
(* voice, those of the voices that end are given back.                     *)
LEMMA TakeKeeps ==
  ASSUME ClipInv, Take
  PROVE  ClipInv'
  <1> DEFINE next == aud.taken + 1
             taken == queue[next]
             ends == IF taken.hold /\ holdVoice # 0 THEN {holdVoice} ELSE {}
             rest == [w \in Voice |-> IF w \in ends THEN Quiet ELSE voices[w]]
  <1>1. /\ aud.at = "take" /\ aud.taken < aud.upTo /\ aud' = [aud EXCEPT !.taken = @ + 1]
        /\ UNCHANGED <<files, slots, ctl, left, released, queue, holdStops, stopAll>>
    BY DEF Take, mainVars
  <1>2. /\ aud' = [at |-> aud.at, taken |-> next, upTo |-> aud.upTo]
        /\ next \in Waiting /\ Waiting' = Waiting \ {next}
    BY <1>1, OneLessWaits DEF ClipInv
  <1>3. taken \in Triggers
    BY <1>2, WaitingAreTriggers DEF ClipInv
  <1>4. slots[taken.slot] = taken.clip /\ slots[taken.slot] # Empty
    <2>1. slots[taken.slot] = taken.clip
      BY <1>2 DEF ClipInv, Kept
    <2>2. taken.clip \in Clips /\ Empty \notin Clips
      BY <1>3, ClipsAssumption DEF Triggers, Clips, Empty
    <2> QED BY <2>1, <2>2
  <1>5. ends \in SUBSET Voice
    BY DEF ClipInv, ClipTypes
  <1>6. rest \in [Voice -> Triggers \cup {Quiet}]
    BY DEF ClipInv, ClipTypes
  <1>7. Pick(rest, taken.hold) \in Voice
    <2>1. taken.hold \in BOOLEAN
      BY <1>3 DEF Triggers
    <2> HIDE DEF rest, taken
    <2> QED BY <1>6, <2>1, PickIsAVoice DEF ClipInv
  <1>8. LET x == Pick(rest, taken.hold)
        IN  /\ refs' = Released(refs, ends \cup {x})
            /\ voices' = [rest EXCEPT ![x] = taken]
            /\ holdVoice' = IF taken.hold THEN x ELSE IF holdVoice = x THEN 0 ELSE holdVoice
    BY <1>4 DEF Take
  <1>9. PICK v \in Voice : /\ refs' = Released(refs, ends \cup {v})
                           /\ voices' = [rest EXCEPT ![v] = taken]
                           /\ holdVoice' = IF taken.hold THEN v ELSE IF holdVoice = v THEN 0 ELSE holdVoice
    BY <1>7, <1>8
  <1>10. PICK gone \in SUBSET Voice : gone = ends \cup {v}
    BY <1>5
  <1>11. PICK e \in Triggers : e = taken
    BY <1>3
  <1>12. /\ refs' = Released(refs, gone)
         /\ voices' = [w \in Voice |-> IF w = v THEN e ELSE IF w \in gone THEN Quiet ELSE voices[w]]
         /\ holdVoice' \in {0} \cup Voice
    BY <1>9, <1>10, <1>11 DEF ClipInv, ClipTypes
  <1>13. PICK j \in Waiting : j = next
    BY <1>2
  <1>14. /\ queue[j] = e /\ Waiting' = Waiting \ {j} /\ v \in gone
         /\ slots[e.slot] = e.clip
    BY <1>2, <1>4, <1>10, <1>11, <1>13
  <1> HIDE DEF next, taken, ends, rest
  <1>15. /\ Playing' = (Playing \ gone) \cup {v}
         /\ \A k \in Slot : Voices(k)' = (Voices(k) \ gone) \cup (IF e.slot = k THEN {v} ELSE {})
    <2>1. ClipTypes
      BY DEF ClipInv
    <2>2. \A w \in Voice :
            voices'[w] = IF w = v THEN e ELSE IF w \in gone THEN Quiet ELSE voices[w]
      BY <1>12
    <2>3. v \in gone
      BY <1>14
    <2> QED BY <2>1, <2>2, <2>3, GivenVoice, SMTT(60)
  <1>16. \A k : Queued(k)' = Queued(k) \ {j}
    BY <1>1, <1>14 DEF Queued
  <1>17. Counted' /\ refs' \in [Slot -> Nat]
    <2>1. ASSUME NEW k \in Slot
          PROVE  /\ refs'[k] \in Nat
                 /\ refs'[k] = Cardinality(Voices(k)') + Cardinality(Queued(k)') + Reserved(k)'
      <3> DEFINE n == Cardinality({w \in gone : voices[w].slot = k})
                 kept == Voices(k) \ gone
      <3>1. /\ n \in Nat /\ refs'[k] = refs[k] - n /\ refs'[k] \in Nat
            /\ Cardinality(kept) = Cardinality(Voices(k)) - n
        BY <1>12, StopCounts
      <3>2. /\ IsFiniteSet(Voices(k)) /\ Cardinality(Voices(k)) \in Nat
            /\ IsFiniteSet(Queued(k)) /\ Cardinality(Queued(k)) \in Nat
        BY UsersAreFinite DEF ClipInv
      <3>3. IsFiniteSet(kept) /\ v \notin kept /\ Cardinality(kept) \in Nat
        <4>1. kept \in SUBSET Voices(k) /\ v \notin kept
          BY <1>14
        <4> HIDE DEF kept
        <4> QED BY <4>1, <3>2, FS_Subset, FS_CardinalityType
      <3>4. Reserved(k)' = Reserved(k) /\ Reserved(k) \in Nat
        BY <1>1 DEF Reserved
      <3>5. refs[k] = Cardinality(Voices(k)) + Cardinality(Queued(k)) + Reserved(k)
        BY DEF ClipInv, Counted
      <3> HIDE DEF n
      <3>6. CASE e.slot = k
        <4>1. Voices(k)' = kept \cup {v}
          BY <1>15, <3>6
        <4>2. Cardinality(Voices(k)') = Cardinality(kept) + 1
          <5> HIDE DEF kept
          <5> QED BY <3>3, <4>1, FS_AddElement
        <4>3. j \in Queued(k)
          BY <1>14, <3>6 DEF Queued
        <4>4. Cardinality(Queued(k)') = Cardinality(Queued(k)) - 1
          BY <1>16, <3>2, <4>3, FS_RemoveElement
        <4> QED BY <3>1, <3>2, <3>3, <3>4, <3>5, <4>2, <4>4
      <3>7. CASE e.slot # k
        <4>1. Voices(k)' = kept
          BY <1>15, <3>7
        <4>2. Queued(k)' = Queued(k)
          BY <1>14, <1>16, <3>7 DEF Queued
        <4> QED BY <3>1, <3>2, <3>3, <3>4, <3>5, <4>1, <4>2
      <3> QED BY <3>6, <3>7
    <2>2. refs' = [k \in Slot |-> refs'[k]]
      BY <1>12 DEF Released
    <2> QED BY <2>1, <2>2 DEF Counted
  <1>18. Kept'
    <2>1. ASSUME NEW w \in Playing' PROVE slots'[voices'[w].slot] = voices'[w].clip
      <3>1. CASE w = v
        BY <1>1, <1>12, <1>14, <3>1
      <3>2. CASE w # v
        <4>1. w \in Playing /\ voices'[w] = voices[w]
          BY <1>12, <1>15, <3>2 DEF Playing
        <4> QED BY <1>1, <4>1 DEF ClipInv, Kept
      <3> QED BY <3>1, <3>2
    <2> QED BY <1>1, <1>14, <2>1 DEF ClipInv, Kept
  <1>19. voices' \in [Voice -> Triggers \cup {Quiet}]
    BY <1>12 DEF ClipInv, ClipTypes
  <1>20. /\ aud' \in [at : Places, taken : Nat, upTo : Nat] /\ aud'.at = "take"
         /\ aud'.taken <= aud'.upTo /\ aud'.upTo <= Len(queue)
    <2>1. aud \in [at : Places, taken : Nat, upTo : Nat] /\ aud.upTo <= Len(queue)
      BY DEF ClipInv, ClipTypes
    <2>2. aud' = [at |-> aud.at, taken |-> aud.taken + 1, upTo |-> aud.upTo]
      BY <1>2 DEF next
    <2> QED BY <1>1, <2>1, <2>2
  <1>21. ClipTypes'
    BY <1>1, <1>12, <1>17, <1>19, <1>20 DEF ClipInv, ClipTypes
  <1> QED BY <1>17, <1>18, <1>21 DEF ClipInv

-----------------------------------------------------------------------------
(* All steps.                                                              *)

(* Nothing is loaded and nothing plays when the program starts.            *)
LEMMA ClipsStart ==
  ASSUME ClipsInit
  PROVE  ClipInv
  <1>1. Playing = {} /\ Waiting = {}
    BY DEF ClipsInit, Playing, Waiting
  <1>2. \A k \in Slot : Voices(k) = {} /\ Queued(k) = {} /\ Reserved(k) = 0 /\ refs[k] = 0
    BY <1>1 DEF ClipsInit, Voices, Queued, Reserved, Main
  <1>3. Cardinality({}) = 0
    BY FS_EmptySet
  <1>4. Kept /\ Counted
    <2>1. ctl.at # "queue"
      BY DEF ClipsInit, Main
    <2>2. Counted
      BY <1>2, <1>3 DEF Counted
    <2> QED BY <1>1, <2>1, <2>2 DEF Kept
  <1>5. ClipTypes
    BY ClipsAssumption DEF ClipTypes, ClipsInit, Main, Places, Triggers, Seekers
  <1> QED BY <1>4, <1>5 DEF ClipInv

(* Every step of either thread keeps the invariant.                        *)
LEMMA ClipStep ==
  ASSUME ClipInv, [ClipsNext]_clipsVars
  PROVE  ClipInv'
  <1>1. CASE MainLoop
    <2>1. ASSUME NEW f \in File
          PROVE  Change(f, files[f] + 1, TRUE) \/ Change(f, 0, FALSE) => ClipInv'
      <3>1. files[f] + 1 \in Nat /\ 0 \in Nat
        BY DEF ClipInv, ClipTypes
      <3> QED BY <3>1, ChangeKeeps
    <2> QED BY <1>1, <2>1, TriggerKeeps, ReloadKeeps, EnqueueKeeps, SweepKeeps, StopsAreAsked
            DEF MainLoop
  <1>2. CASE AudioThread
    BY <1>2, RestsKeep, StopsKeep, DrainKeeps, TakeKeeps, TakenKeeps DEF AudioThread
  <1>3. CASE UNCHANGED clipsVars
    BY <1>3, LookingKeeps DEF clipsVars, mainVars, ClipInv, ClipTypes
  <1> QED BY <1>1, <1>2, <1>3 DEF ClipsNext

(* setup.cpp:216-295, 396-482, processing.cpp:1242-1421: every voice and   *)
(* every queued trigger has its clip, whatever is uploaded, deleted,       *)
(* reloaded or stopped meanwhile, and sfxSlotRefs counts them exactly.     *)
THEOREM ClipsStayForUsers == ClipsSpec => []ClipsAreKept
<1>1. ClipsInit => ClipInv
  BY ClipsStart
<1>2. ClipInv /\ [ClipsNext]_clipsVars => ClipInv'
  BY ClipStep
<1>3. ClipInv => ClipsAreKept
  BY DEF ClipInv, Kept, Counted, ClipsAreKept, Voices, Queued
<1> QED
  BY <1>1, <1>2, <1>3, PTL DEF ClipsSpec

-----------------------------------------------------------------------------
(* The supervisor of the processes.                                        *)

(* A runtime that has not ended, and the supervisor while it has one.      *)
Alive == rt.state \in {"starting", "up", "stuck"}

(* waitForRuntime() and what follows it when it returns.                   *)
AtTurn == {"poll", "service", "reap", "clock"}
Watching == pc \in AtTurn \cup {"clean"}

(* The types; a back-off is a delay of 1..MaxDelay.                        *)
Services == [state : {"up", "exited", "none"}, started : Nat, next : Nat,
             delay : 1..MaxDelay, ended : Nat, rest : Nat]

Types ==
  /\ now \in Nat /\ now <= MaxTime
  /\ rt \in [state : {"none", "starting", "up", "stuck", "exited"}, workers : BOOLEAN,
             beat : Nat, worst : Nat]
  /\ pipe \in BOOLEAN /\ looked \in BOOLEAN /\ received \in BOOLEAN
  /\ pc \in AtTurn \cup {"launch", "clean", "sleep"}
  /\ launched \in Nat /\ progress \in Nat /\ until \in Nat
  /\ delay \in 1..MaxDelay
  /\ svc \in Services
  /\ faults \in Nat

(* Nothing is left of a runtime before another is started.                 *)
Alone ==
  /\ pc \in {"launch", "sleep"} => rt.state = "none" /\ ~rt.workers /\ ~pipe
  /\ Watching => rt.state # "none"

(* What is in the pipe is a report of this unit, or of the one before as   *)
(* long as nobody has looked; progress is the last report that was read,   *)
(* or a unit later.                                                        *)
Beats ==
  Watching =>
    /\ launched <= rt.beat /\ rt.beat <= now
    /\ launched <= progress /\ progress <= now
    /\ pipe => \/ rt.beat = now
               \/ rt.beat = now - 1 /\ pc = "poll" /\ ~looked
    /\ ~pipe /\ received => rt.beat <= progress /\ progress <= rt.beat + 1
    /\ ~pipe /\ ~received => rt.beat = launched

(* How long the supervisor waits for a report.                             *)
Silent == now - (IF received THEN progress ELSE launched)
Limit == IF received THEN HeartbeatTimeout ELSE StartupTimeout

(* A unit does not end before the clock has been looked at.                *)
Clocked ==
  Watching => /\ Silent <= Limit + 1
              /\ looked /\ pc \in AtTurn => Silent <= Limit

(* A runtime that seems silent was so.                                     *)
Judged ==
  /\ Alive /\ Watching /\ (pc # "poll" \/ ~pipe) => rt.worst >= Silent
  /\ pc = "clean" /\ rt.state # "exited" => Silent > Limit

(* The rest after a runtime is a delay at most.                            *)
Rests == pc = "sleep" => until - now <= MaxDelay

(* The service has been looked after in this unit.                         *)
Supervising == looked \/ pc \in {"reap", "clock"}
Service ==
  /\ svc.ended <= now
  /\ svc.state = "up" => svc.started >= svc.ended + svc.rest
  /\ svc.state = "exited" => /\ now <= svc.ended + 1
                             /\ Supervising => now = svc.ended
  /\ svc.state = "none" => /\ now <= svc.next
                           /\ Supervising => now < svc.next
                           /\ svc.ended + svc.rest <= svc.next
                           /\ svc.next <= svc.ended + 1 + MaxDelay

(* What every step keeps.                                                  *)
SupInv == Types /\ Alone /\ Beats /\ Clocked /\ Judged /\ Rests /\ Service

-----------------------------------------------------------------------------
(* A delay of one unit doubles up to the longest.                          *)
LEMMA BackoffIsDelay ==
  ASSUME NEW d \in 1..MaxDelay
  PROVE  NextBackoff(d) \in 1..MaxDelay /\ 1 \in 1..MaxDelay
  BY SupervisorAssumption DEF NextBackoff

(* handleServiceExit() lets the service rest for a delay from now on.      *)
LEMMA EndedRests ==
  ASSUME now \in Nat, svc \in Services
  PROVE  \E d \in 1..MaxDelay :
           /\ NextBackoff(d) \in 1..MaxDelay
           /\ ServiceEnded = [state |-> "none", started |-> svc.started, next |-> now + d,
                              delay |-> NextBackoff(d), ended |-> svc.ended, rest |-> d]
  <1> DEFINE d == IF now - svc.started >= Stable THEN 1 ELSE svc.delay
  <1>1. d \in 1..MaxDelay
    BY BackoffIsDelay DEF Services
  <1>2. ServiceEnded = [svc EXCEPT !.state = "none", !.next = now + d,
                                   !.delay = NextBackoff(d), !.rest = d]
    BY DEF ServiceEnded
  <1> HIDE DEF d
  <1>3. ServiceEnded = [state |-> "none", started |-> svc.started, next |-> now + d,
                        delay |-> NextBackoff(d), ended |-> svc.ended, rest |-> d]
    BY <1>2 DEF Services
  <1> QED BY <1>1, <1>3, BackoffIsDelay

(* A service that was looked after just now: it runs and has rested, or is *)
(* to be started later, in time.                                           *)
Attended(s) ==
  /\ s \in Services /\ s.state # "exited" /\ s.ended <= now
  /\ s.state = "up" => s.started >= s.ended + s.rest
  /\ s.state = "none" => /\ now < s.next /\ s.ended + s.rest <= s.next
                         /\ s.next <= s.ended + 1 + MaxDelay

(* What superviseService() leaves of the service.                          *)
LEMMA ServiceIsAttended ==
  ASSUME Types, Service, Supervise
  PROVE  Attended(svc') /\ faults' \in Nat
  <1>1. faults' \in Nat
    BY DEF Supervise, Fault, Types
  <1>2. CASE svc.state = "exited" /\ svc' = ServiceEnded
    <2>1. PICK d \in 1..MaxDelay :
            /\ NextBackoff(d) \in 1..MaxDelay
            /\ svc' = [state |-> "none", started |-> svc.started, next |-> now + d,
                       delay |-> NextBackoff(d), ended |-> svc.ended, rest |-> d]
      BY <1>2, EndedRests DEF Types
    <2> QED BY <1>1, <1>2, <2>1, SupervisorAssumption DEF Attended, Services, Types, Service
  <1>3. CASE svc.state = "none" /\ now >= svc.next /\ svc' = ServiceStarted
    <2>1. svc' = [state |-> "up", started |-> now, next |-> svc.next, delay |-> svc.delay,
                  ended |-> svc.ended, rest |-> svc.rest]
      BY <1>3 DEF ServiceStarted, Services, Types
    <2> QED BY <1>1, <1>3, <2>1 DEF Attended, Services, Types, Service
  <1>4. CASE svc.state = "none" /\ svc' = ServiceNotStarted
    <2>1. svc' = [state |-> "none", started |-> svc.started, next |-> now + svc.delay,
                  delay |-> NextBackoff(svc.delay), ended |-> now, rest |-> svc.delay]
      BY <1>4 DEF ServiceNotStarted, Services, Types
    <2>2. svc.delay \in 1..MaxDelay /\ NextBackoff(svc.delay) \in 1..MaxDelay
      BY BackoffIsDelay DEF Services, Types
    <2> QED BY <1>1, <2>1, <2>2, SupervisorAssumption DEF Attended, Services, Types
  <1>5. CASE svc' = svc /\ (svc.state = "up" \/ (svc.state = "none" /\ now < svc.next))
    BY <1>1, <1>5 DEF Attended, Types, Service
  <1>6. \/ svc.state = "exited" /\ svc' = ServiceEnded
        \/ svc.state = "none" /\ now >= svc.next /\ svc' = ServiceStarted
        \/ svc.state = "none" /\ svc' = ServiceNotStarted
        \/ svc' = svc /\ (svc.state = "up" \/ (svc.state = "none" /\ now < svc.next))
    BY DEF Supervise
  <1> QED BY <1>2, <1>3, <1>4, <1>5, <1>6

(* Time passes only when the clock was looked at in this unit, and the     *)
(* service with it.                                                        *)
LEMMA TickKeeps ==
  ASSUME SupInv, Tick
  PROVE  SupInv'
  <1>1. PICK w \in Nat : rt' = [state |-> rt.state, workers |-> rt.workers,
                              beat |-> rt.beat, worst |-> w]
    <2>1. CASE rt' = rt
      <3>1. rt.worst \in Nat
        BY DEF SupInv, Types
      <3> QED BY <2>1, <3>1 DEF SupInv, Types
    <2>2. CASE rt' = [rt EXCEPT !.worst = Longer(@, Silence + 1)]
      <3> DEFINE v == Longer(rt.worst, Silence + 1)
      <3>1. v \in Nat
        BY DEF Longer, Silence, SupInv, Types
      <3>2. rt' = [rt EXCEPT !.worst = v]
        BY <2>2
      <3> HIDE DEF v
      <3> QED BY <3>1, <3>2 DEF SupInv, Types
    <2> QED BY <2>1, <2>2 DEF Tick
  <1>2. Types'
    <2>1. rt' \in [state : {"none", "starting", "up", "stuck", "exited"}, workers : BOOLEAN,
                  beat : Nat, worst : Nat]
      BY <1>1 DEF SupInv, Types
    <2>2. /\ now' = now + 1 /\ looked' = FALSE
          /\ UNCHANGED <<pipe, pc, launched, progress, received, delay, until, svc, faults>>
      BY DEF Tick, supVars
    <2>3. now' \in Nat /\ now' <= MaxTime
      BY SupervisorAssumption DEF Tick, SupInv, Types
    <2>4. pipe' \in BOOLEAN /\ looked' \in BOOLEAN /\ received' \in BOOLEAN
      BY <2>2 DEF SupInv, Types
    <2>5. /\ pc' \in AtTurn \cup {"launch", "clean", "sleep"}
          /\ launched' \in Nat /\ progress' \in Nat /\ until' \in Nat /\ faults' \in Nat
          /\ delay' \in 1..MaxDelay /\ svc' \in Services
      BY <2>2 DEF SupInv, Types
    <2> QED BY <2>1, <2>3, <2>4, <2>5 DEF Types, Services, AtTurn
  <1>3. Alone' /\ Rests'
    BY SupervisorAssumption DEF Tick, SupInv, Types, Alone, Rests, Watching, supVars
  <1>4. Beats'
    BY DEF Tick, SupInv, Types, Alone, Beats, Watching, supVars
  <1>5. Clocked'
    BY SupervisorAssumption DEF Tick, SupInv, Types, Clocked, Silent, Limit, Watching, supVars
  <1>6. Judged'
    BY DEF Tick, SupInv, Types, Alone, Beats, Clocked, Judged, Alive, Silent,
       Limit, Runs, Watching, supVars, Longer, Silence
  <1>7. Service'
    BY DEF Tick, SupInv, Types, Services, Service, Supervising, runVars,
       supVars
  <1> QED BY <1>2, <1>3, <1>4, <1>5, <1>6, <1>7 DEF SupInv

(* A report is of this unit; it restarts no clock before it is read.       *)
LEMMA ReportKeeps ==
  ASSUME SupInv, Report
  PROVE  SupInv'
  <1>1. Types'
    BY DEF Report, SupInv, Types, supVars
  <1>2. Alone' /\ Rests'
    BY DEF Report, SupInv, Alone, Rests, Runs, supVars
  <1>3. Beats'
    BY DEF Report, SupInv, Types, Beats, Watching, supVars
  <1>4. Clocked'
    BY DEF Report, SupInv, Clocked, Silent, Limit, Watching, supVars
  <1>5. Judged'
    BY DEF Report, SupInv, Judged, Alive, Silent, Limit, Watching, supVars
  <1>6. Service'
    BY DEF Report, SupInv, Service, Supervising, supVars
  <1> QED BY <1>1, <1>2, <1>3, <1>4, <1>5, <1>6 DEF SupInv

(* A start that ends says nothing.                                         *)
LEMMA FinishStartKeeps ==
  ASSUME SupInv, FinishStart
  PROVE  SupInv'
  <1>1. Types'
    BY DEF FinishStart, SupInv, Types, supVars
  <1>2. Alone' /\ Rests'
    BY DEF FinishStart, SupInv, Alone, Rests, supVars
  <1>3. Beats'
    BY DEF FinishStart, SupInv, Beats, Clocked, Runs, Watching, supVars
  <1>4. Clocked'
    BY DEF FinishStart, SupInv, Clocked, Silent, Limit, Watching, supVars
  <1>5. Judged'
    BY DEF FinishStart, SupInv, Judged, Alive, Silent, Limit, Watching, supVars
  <1>6. Service'
    BY DEF FinishStart, SupInv, Service, Supervising, supVars
  <1> QED BY <1>1, <1>2, <1>3, <1>4, <1>5, <1>6 DEF SupInv

(* A worker is started by a runtime that is there.                         *)
LEMMA StartWorkerKeeps ==
  ASSUME SupInv, StartWorker
  PROVE  SupInv'
  <1>1. Types'
    BY DEF StartWorker, SupInv, Types, supVars
  <1>2. Alone' /\ Rests'
    BY DEF StartWorker, SupInv, Alone, Rests, supVars
  <1>3. Beats'
    BY DEF StartWorker, SupInv, Beats, Clocked, Runs, Watching, supVars
  <1>4. Clocked'
    BY DEF StartWorker, SupInv, Clocked, Silent, Limit, Watching, supVars
  <1>5. Judged'
    BY DEF StartWorker, SupInv, Judged, Alive, Silent, Limit, Watching, supVars
  <1>6. Service'
    BY DEF StartWorker, SupInv, Service, Supervising, supVars
  <1> QED BY <1>1, <1>2, <1>3, <1>4, <1>5, <1>6 DEF SupInv

(* A runtime that hangs is silent from now on.                             *)
LEMMA HangKeeps ==
  ASSUME SupInv, Hang
  PROVE  SupInv'
  <1>1. Types'
    BY DEF Hang, SupInv, Types, Services, AtTurn, Fault, supVars
  <1>2. Alone' /\ Rests'
    BY DEF Hang, SupInv, Alone, Rests, Runs, supVars
  <1>3. Beats'
    BY DEF Hang, SupInv, Beats, Clocked, Runs, Watching, supVars
  <1>4. Clocked'
    BY DEF Hang, SupInv, Clocked, Silent, Limit, Watching, supVars
  <1>5. Judged'
    BY DEF Hang, SupInv, Judged, Alive, Silent, Limit, Runs, Watching, supVars
  <1>6. Service'
    BY DEF Hang, SupInv, Service, Supervising, supVars
  <1> QED BY <1>1, <1>2, <1>3, <1>4, <1>5, <1>6 DEF SupInv

(* A runtime that has ended is found by Reap().                            *)
LEMMA ExitKeeps ==
  ASSUME SupInv, Exit
  PROVE  SupInv'
  <1>1. Types'
    BY DEF Exit, SupInv, Types, Fault, supVars
  <1>2. Alone' /\ Rests'
    BY DEF Exit, SupInv, Alone, Rests, supVars
  <1>3. Beats'
    BY DEF Exit, SupInv, Beats, Clocked, Runs, Watching, supVars
  <1>4. Clocked'
    BY DEF Exit, SupInv, Clocked, Silent, Limit, Watching, supVars
  <1>5. Judged'
    BY DEF Exit, SupInv, Judged, Alive
  <1>6. Service'
    BY DEF Exit, SupInv, Service, Supervising, supVars
  <1> QED BY <1>1, <1>2, <1>3, <1>4, <1>5, <1>6 DEF SupInv

(* A service that ends is looked after in this unit.                       *)
LEMMA ServiceExitsKeeps ==
  ASSUME SupInv, ServiceExits
  PROVE  SupInv'
  <1>1. svc' = [state |-> "exited", started |-> svc.started, next |-> svc.next,
                delay |-> svc.delay, ended |-> now, rest |-> svc.rest]
    BY DEF ServiceExits, SupInv, Types, Services
  <1>2. Types'
    BY <1>1 DEF ServiceExits, SupInv, Types, Services, Fault, runVars, supVars
  <1>3. Alone' /\ Rests'
    BY DEF ServiceExits, SupInv, Alone, Rests, Watching, runVars, supVars
  <1>4. Beats'
    BY DEF ServiceExits, SupInv, Beats, Watching, runVars, supVars
  <1>5. Clocked'
    BY DEF ServiceExits, SupInv, Clocked, Silent, Limit, Watching, supVars
  <1>6. Judged'
    BY DEF ServiceExits, SupInv, Judged, Alive, Silent, Limit, Watching, runVars, supVars
  <1>7. Service'
    BY <1>1 DEF ServiceExits, SupInv, Types, Service
  <1> QED BY <1>2, <1>3, <1>4, <1>5, <1>6, <1>7 DEF SupInv

(* startRuntime() starts a runtime when none is left, and all the clocks.  *)
LEMMA LaunchKeeps ==
  ASSUME SupInv, Launch
  PROVE  SupInv'
  <1>1. Types'
    BY DEF Launch, SupInv, Types, AtTurn
  <1>2. Alone' /\ Rests'
    BY DEF Launch, Alone, Rests
  <1>3. Beats'
    BY DEF Launch, SupInv, Types, Beats
  <1>4. Clocked'
    BY SupervisorAssumption DEF Launch, SupInv, Types, Clocked, Silent, Limit
  <1>5. Judged'
    BY DEF Launch, SupInv, Types, Judged, Silent
  <1>6. Service'
    BY DEF Launch, SupInv, Service, Supervising
  <1> QED BY <1>1, <1>2, <1>3, <1>4, <1>5, <1>6 DEF SupInv

(* A start that fails is repeated after a rest.                            *)
LEMMA CannotLaunchKeeps ==
  ASSUME SupInv, CannotLaunch
  PROVE  SupInv'
  <1>1. Types'
    BY SupervisorAssumption, BackoffIsDelay DEF CannotLaunch, SupInv, Types, Fault, runVars
  <1>2. Alone' /\ Rests'
    BY DEF CannotLaunch, SupInv, Types, Alone, Rests,
       Watching, AtTurn, runVars
  <1>3. Beats'
    BY DEF CannotLaunch, SupInv, Beats, Watching, AtTurn
  <1>4. Clocked'
    BY DEF CannotLaunch, SupInv, Types, Beats, Clocked,
       Silent, Limit, Runs, Watching, AtTurn, runVars, supVars
  <1>5. Judged'
    BY DEF CannotLaunch, SupInv, Alone, Judged, Alive,
       runVars
  <1>6. Service'
    BY DEF CannotLaunch, SupInv, Service, Supervising
  <1> QED BY <1>1, <1>2, <1>3, <1>4, <1>5, <1>6 DEF SupInv

(* What is read from the pipe is a report of this unit or of the one       *)
(* before.                                                                 *)
LEMMA DrainHeartbeatsKeeps ==
  ASSUME SupInv, DrainHeartbeats
  PROVE  SupInv'
  <1>1. Types'
    BY DEF DrainHeartbeats, SupInv, Types, AtTurn
  <1>2. Alone' /\ Rests'
    BY DEF DrainHeartbeats, SupInv, Types, Alone, Rests, Fault, Runs, Watching, AtTurn
  <1>3. Beats'
    BY DEF DrainHeartbeats, SupInv, Types, Beats, Watching
  <1>4. Clocked'
    BY SupervisorAssumption DEF DrainHeartbeats, SupInv, Types, Clocked, Silent, Limit, Watching
  <1>5. Judged'
    BY DEF DrainHeartbeats, SupInv, Types, Judged, Alive, Silent, Watching
  <1>6. Service'
    BY DEF DrainHeartbeats, SupInv, Service, Supervising
  <1> QED BY <1>1, <1>2, <1>3, <1>4, <1>5, <1>6 DEF SupInv

(* The service is looked after before the clock is.                        *)
LEMMA WhileWaitingKeeps ==
  ASSUME SupInv, WhileWaiting
  PROVE  SupInv'
  <1>1. Attended(svc') /\ faults' \in Nat
    BY ServiceIsAttended DEF WhileWaiting, SupInv
  <1>2. Types'
    BY <1>1 DEF WhileWaiting, Attended, SupInv, Types, AtTurn, runVars
  <1>3. Alone' /\ Rests'
    BY DEF WhileWaiting, SupInv, Alone, Rests, Watching, AtTurn, runVars
  <1>4. Beats'
    BY DEF WhileWaiting, SupInv, Beats, Watching, AtTurn, runVars
  <1>5. Clocked'
    BY DEF WhileWaiting, SupInv, Types, Clocked, Silent, Limit, Watching
  <1>6. Judged'
    BY DEF WhileWaiting, SupInv, Judged, Alive, Silent, Watching, AtTurn, runVars
  <1>7. Service'
    BY <1>1 DEF WhileWaiting, Attended, Services, Service, SupInv, Types
  <1> QED BY <1>2, <1>3, <1>4, <1>5, <1>6, <1>7 DEF SupInv

(* waitForRuntime() returns when the runtime has ended.                    *)
LEMMA ReapKeeps ==
  ASSUME SupInv, Reap
  PROVE  SupInv'
  <1>1. Types'
    BY DEF Reap, SupInv, Types, AtTurn, runVars
  <1>2. Alone' /\ Rests'
    BY DEF Reap, SupInv, Alone, Rests, Watching, AtTurn, runVars
  <1>3. Beats'
    BY DEF Reap, SupInv, Beats, Watching, AtTurn, runVars
  <1>4. Clocked'
    BY DEF Reap, SupInv, Types, Clocked, Silent, Limit, Watching
  <1>5. Judged'
    BY DEF Reap, SupInv, Judged, Alive, Silent, Watching, AtTurn, runVars
  <1>6. Service'
    BY DEF Reap, SupInv, Service, Supervising
  <1> QED BY <1>1, <1>2, <1>3, <1>4, <1>5, <1>6 DEF SupInv

(* The clock ends the wait when the runtime has been silent for longer     *)
(* than the timeout; it had been for as long as that before.               *)
LEMMA CheckClockKeeps ==
  ASSUME SupInv, CheckClock
  PROVE  SupInv'
  <1>1. Types'
    BY DEF CheckClock, SupInv, Types, AtTurn, runVars
  <1>2. Alone' /\ Rests'
    BY DEF CheckClock, SupInv, Alone, Rests, Watching, AtTurn, runVars
  <1>3. Beats'
    BY DEF CheckClock, SupInv, Beats, Watching, AtTurn, runVars
  <1>4. Clocked'
    BY SupervisorAssumption DEF CheckClock, SupInv, Types, Clocked, Silent, Limit, Watching,
       AtTurn, TimedOut
  <1>5. Judged'
    BY DEF CheckClock, SupInv, Judged, Alive, Silent, Limit, Watching,
       AtTurn, runVars, TimedOut
  <1>6. Service'
    BY DEF CheckClock, SupInv, Service, Supervising
  <1> QED BY <1>1, <1>2, <1>3, <1>4, <1>5, <1>6 DEF SupInv

(* The process group is killed, and a service that ended is looked after.  *)
LEMMA CleanUpKeeps ==
  ASSUME SupInv, CleanUp
  PROVE  SupInv'
  <1>1. rt' = [state |-> "none", workers |-> FALSE, beat |-> rt.beat, worst |-> rt.worst]
    BY DEF CleanUp, Killed, SupInv, Types
  <1>2. \/ svc' = svc /\ svc.state # "exited"
        \/ svc.state = "exited" /\ \E d \in 1..MaxDelay :
             /\ NextBackoff(d) \in 1..MaxDelay
             /\ svc' = [state |-> "none", started |-> svc.started, next |-> now + d,
                        delay |-> NextBackoff(d), ended |-> svc.ended, rest |-> d]
    BY EndedRests DEF CleanUp, SupInv, Types
  <1>3. delay' \in 1..MaxDelay
    BY BackoffIsDelay DEF CleanUp, SupInv, Types
  <1>4. svc' \in Services
    BY <1>2 DEF SupInv, Types, Services
  <1>5. Types'
    <2>1. rt' \in [state : {"none", "starting", "up", "stuck", "exited"}, workers : BOOLEAN,
                  beat : Nat, worst : Nat]
      BY <1>1 DEF SupInv, Types
    <2>2. until' \in Nat
      BY <1>3 DEF CleanUp, SupInv, Types
    <2> QED BY <1>3, <1>4, <2>1, <2>2, SupervisorAssumption DEF CleanUp, SupInv, Types
  <1>6. Alone' /\ Rests'
    BY <1>3 DEF CleanUp, Killed, SupInv, Types, Alone, Rests, Watching,
       AtTurn
  <1>7. Beats'
    BY DEF CleanUp, SupInv, Beats, Watching, AtTurn
  <1>8. Clocked'
    BY DEF CleanUp, SupInv, Clocked, Silent, Watching, AtTurn
  <1>9. Judged'
    BY DEF CleanUp, SupInv, Judged, Alive, Killed
  <1>10. Service'
    <2>1. CASE svc' = svc /\ svc.state # "exited"
      BY <2>1 DEF CleanUp, SupInv, Service, Supervising
    <2>2. CASE svc' # svc
      <3>1. svc.state = "exited" /\ \E d \in 1..MaxDelay :
             svc' = [state |-> "none", started |-> svc.started, next |-> now + d,
                     delay |-> NextBackoff(d), ended |-> svc.ended, rest |-> d]
        BY <1>2, <2>2
      <3>2. PICK d \in 1..MaxDelay :
             svc' = [state |-> "none", started |-> svc.started, next |-> now + d,
                     delay |-> NextBackoff(d), ended |-> svc.ended, rest |-> d]
        BY <3>1
      <3> QED BY <3>1, <3>2, SupervisorAssumption DEF CleanUp, SupInv, Types, Services, Service
    <2> QED BY <1>2, <2>1, <2>2
  <1> QED BY <1>5, <1>6, <1>7, <1>8, <1>9, <1>10 DEF SupInv

(* The rest ends with another start; the service is looked after           *)
(* meanwhile.                                                              *)
LEMMA SleepKeeps ==
  ASSUME SupInv, Sleep
  PROVE  SupInv'
  <1>1. Attended(svc') /\ faults' \in Nat
    BY ServiceIsAttended DEF Sleep, SupInv
  <1>2. Types'
    BY <1>1 DEF Sleep, Attended, SupInv, Types, runVars
  <1>3. Alone' /\ Rests'
    BY DEF Sleep, SupInv, Alone, Rests, Watching, AtTurn, runVars
  <1>4. Beats'
    BY DEF Sleep, SupInv, Beats, Watching, AtTurn
  <1>5. Clocked'
    BY DEF Sleep, SupInv, Clocked, Silent, Watching, AtTurn
  <1>6. Judged'
    BY DEF Sleep, SupInv, Alone, Judged, Alive, runVars
  <1>7. Service'
    BY <1>1 DEF Sleep, Attended, Services, Service, SupInv, Types
  <1> QED BY <1>2, <1>3, <1>4, <1>5, <1>6, <1>7 DEF SupInv

-----------------------------------------------------------------------------
(* The supervisor starts with no runtime and a service that runs.          *)
LEMMA SupStarts == SupInit => SupInv
  <1> SUFFICES ASSUME SupInit PROVE SupInv
    OBVIOUS
  <1>1. 1 \in 1..MaxDelay
    BY SupervisorAssumption
  <1>2. Types
    <2>1. svc \in Services /\ delay \in 1..MaxDelay
      BY <1>1 DEF SupInit, Services
    <2>2. rt \in [state : {"none", "starting", "up", "stuck", "exited"}, workers : BOOLEAN,
                 beat : Nat, worst : Nat]
      BY DEF SupInit
    <2>3. now \in Nat /\ now <= MaxTime /\ faults \in Nat
      BY SupervisorAssumption DEF SupInit
    <2> QED BY <2>1, <2>2, <2>3 DEF SupInit, Types, AtTurn
  <1>3. Alone /\ Beats /\ Clocked /\ Judged /\ Rests
    BY DEF SupInit, Alone, Beats, Clocked, Judged, Rests, Watching, AtTurn
  <1>4. Service
    BY DEF SupInit, Service
  <1> QED BY <1>2, <1>3, <1>4 DEF SupInv

(* Every step keeps the invariant.                                         *)
LEMMA SupSteps == SupInv /\ [SupNext]_supervisorVars => SupInv'
  <1> SUFFICES ASSUME SupInv, [SupNext]_supervisorVars PROVE SupInv'
    OBVIOUS
  <1>1. CASE UNCHANGED supervisorVars
    BY <1>1 DEF supervisorVars, runVars, supVars, SupInv, Types, Alone, Beats, Clocked, Judged,
       Rests, Service, Supervising, Watching, Alive, Silent, Limit
  <1> QED BY <1>1, TickKeeps, ReportKeeps, FinishStartKeeps, StartWorkerKeeps, HangKeeps,
             ExitKeeps, ServiceExitsKeeps, LaunchKeeps, CannotLaunchKeeps, DrainHeartbeatsKeeps,
             WhileWaitingKeeps, ReapKeeps, CheckClockKeeps, CleanUpKeeps, SleepKeeps DEF SupNext

(* The invariant is what is promised, and more.                            *)
LEMMA InvSupervises == SupInv => Supervised
  <1> SUFFICES ASSUME SupInv PROVE Supervised
    OBVIOUS
  <1>1. OneRuntime
    BY DEF OneRuntime, SupInv, Alone
  <1>2. OnlySilentIsKilled
    BY SupervisorAssumption DEF OnlySilentIsKilled, SupInv, Types, Alone, Judged, Alive, Watching,
       Silent, Limit
  <1>3. SilentIsGone
    BY SupervisorAssumption DEF SilentIsGone, Silence, Longer, SupInv, Types, Alone, Beats,
       Clocked, Silent, Limit, Watching
  <1>4. RestIsShort
    BY DEF RestIsShort, SupInv, Rests
  <1>5. ServiceReturns /\ ServiceRests
    BY SupervisorAssumption DEF ServiceReturns, ServiceRests, SupInv, Types, Services, Service
  <1> QED BY <1>1, <1>2, <1>3, <1>4, <1>5 DEF Supervised

(* The clock stays within its bound, the supervisor at one of its steps,   *)
(* and no delay grows beyond kMaximumRestartDelaySeconds.                  *)
THEOREM SupervisorTyped == SupSpec => []SupTyped
  <1>1. SupInv => SupTyped
    BY DEF SupInv, Types, SupTyped, Services, AtTurn
  <1> QED BY <1>1, SupStarts, SupSteps, PTL DEF SupSpec

(* The supervisor keeps its promises: one runtime at a time, killed only   *)
(* when it is silent and soon when it is, a short rest between two, and a  *)
(* service that rests and returns, whatever the runtime is up to.          *)
THEOREM SupervisorKeepsWatch == SupSpec => []Supervised
  BY SupStarts, SupSteps, InvSupervises, PTL DEF SupSpec

-----------------------------------------------------------------------------
(* Usage telemetry.                                                        *)

(* What the telemetry files and the store may hold.                        *)
Point == Nat \X Nat
Files == [consent : {"none", "0", "1"}, legacy : {"none", "0", "1"}, id : Nat,
          queue : Seq(Point), torn : BOOLEAN]
Stores == [consent : {"unknown", "0", "1"}, error : BOOLEAN, id : Nat, points : Seq(Point)]
Relays == [pc : {"idle", "batch", "check", "sent", "acking"}, draining : BOOLEAN,
           remaining : Nat, batch : Seq(Point), since : Nat]
Results == [disk : Files, mem : Stores, how : {"ok", "failed", "died", "refused"}]
Bad == {"failed", "died"}

UsageTypes ==
  /\ disk \in Files /\ mem \in Stores /\ tab \in [Tab -> Relays]
  /\ acks \subseteq Point \X Point /\ collected \subseteq Point
  /\ hist \in [ids : Nat, stored : SUBSET Point, given : SUBSET Point, late : SUBSET Point,
               out : SUBSET Point, optIns : Nat, erased : BOOLEAN]
  /\ budget \in [points : Nat, decisions : Nat, faults : Nat]

(* Points are numbered downwards as they are collected.                    *)
Ordered(q) == \A i, j \in DOMAIN q : i < j => q[i][2] > q[j][2]
Within(t, p) == t[2][2] <= p[2] /\ p[2] <= t[1][2]

(* A store that works has the files' queue.                                *)
StoreInv ==
  /\ Works => disk.consent = "1" /\ mem.points = disk.queue
  /\ Ordered(disk.queue)
  /\ \A p \in ToSet(disk.queue) \cup hist.stored : p[2] > budget.points
  /\ hist.out \subseteq hist.stored

(* What was opted out of is not in the queue of a consent, nor in a batch  *)
(* of the same consent.                                                    *)
ConsentInv ==
  /\ disk.consent = "1" => ToSet(disk.queue) \cap hist.out = {}
  /\ hist.erased => disk.consent = "0" /\ disk.queue = <<>> /\ disk.id = 0
  /\ hist.late = {}
  /\ \A b \in Tab : tab[b].since <= hist.optIns
  /\ \A b \in Tab : tab[b].pc = "check" /\ tab[b].since = hist.optIns /\ disk.consent = "1" =>
         ToSet(tab[b].batch) \cap hist.out = {}

(* What lies in the queue between the first and the last point of a batch  *)
(* is of the batch, and with the collector once the batch is.              *)
Carries == {"check", "sent", "acking"}
BatchInv ==
  /\ \A b \in Tab : tab[b].pc \in Carries =>
       /\ tab[b].batch # <<>>
       /\ Token(tab[b].batch)[2][2] > budget.points
       /\ \A p \in ToSet(disk.queue) : Within(Token(tab[b].batch), p) => p \in ToSet(tab[b].batch)
       /\ tab[b].pc = "acking" => ToSet(tab[b].batch) \subseteq collected
  /\ \A t \in acks : /\ t[2][2] > budget.points
                     /\ \A p \in ToSet(disk.queue) : Within(t, p) => p \in collected

UsageInv == UsageTypes /\ StoreInv /\ ConsentInv /\ BatchInv /\ NothingIsLost

-----------------------------------------------------------------------------
(* A durable operation takes effect, or fails before or after it did.      *)
LEMMA OpGives ==
  ASSUME NEW t \in Results, NEW e \in Files, NEW r \in Op(t, e)
  PROVE  /\ r \in Results /\ r.mem = t.mem
         /\ (r.how = t.how /\ r.disk = e) \/ (r.how \in Bad /\ r.disk \in {t.disk, e})
  <1>1. CASE r = [t EXCEPT !.disk = e]
    BY <1>1 DEF Results
  <1>2. ASSUME NEW d \in {t.disk, e}, NEW h \in Bad, r = [t EXCEPT !.disk = d, !.how = h]
        PROVE  /\ r \in Results /\ r.mem = t.mem
               /\ r.how \in Bad /\ r.disk \in {t.disk, e}
    BY <1>2 DEF Results, Bad
  <1> QED
    BY <1>1, <1>2 DEF Op, Bad

(* A rewritten queue is the new one, or the old one if it failed.          *)
LEMMA RewriteGives ==
  ASSUME NEW t \in Results, NEW q \in Seq(Point), NEW r \in Rewrite(t, q)
  PROVE  /\ r \in Results /\ r.mem = t.mem
         /\ r.how = t.how \/ r.how \in Bad
         /\ r.disk.consent = t.disk.consent /\ r.disk.id = t.disk.id
         /\ r.disk.queue = q \/ (r.how \in Bad /\ r.disk.queue = t.disk.queue)
  <1> DEFINE e == [t.disk EXCEPT !.queue = q, !.torn = FALSE]
  <1>1. t.disk \in Files
    BY DEF Results
  <1>2. e \in Files /\ e.consent = t.disk.consent /\ e.id = t.disk.id /\ e.queue = q
    BY <1>1 DEF Files
  <1>3. r \in Op(t, e)
    BY DEF Rewrite
  <1> HIDE DEF e
  <1> QED
    BY <1>2, <1>3, OpGives

(* The store keeps what it could write.                                    *)
LEMMA KeepGives ==
  ASSUME NEW t \in Results, NEW q \in Seq(Point), NEW r \in Keep(t, q), t.how = "ok"
  PROVE  /\ r \in Results /\ r.mem.consent = t.mem.consent /\ r.mem.error = t.mem.error
         /\ r.mem.id = t.mem.id
         /\ r.how \in {"ok"} \cup Bad
         /\ r.disk.consent = t.disk.consent /\ r.disk.id = t.disk.id
         /\ r.disk.queue \in {q, t.disk.queue}
         /\ r.how = "ok" => r.disk.queue = q /\ r.mem.points = q
  <1>1. PICK u \in Rewrite(t, q) : \/ u.how = "ok" /\ r = [u EXCEPT !.mem.points = q]
                                   \/ u.how # "ok" /\ r = u
    BY DEF Keep, Then
  <1>2. /\ u \in Results /\ u.mem = t.mem /\ u.how \in {"ok"} \cup Bad
        /\ u.disk.consent = t.disk.consent /\ u.disk.id = t.disk.id
        /\ u.disk.queue = q \/ (u.how \in Bad /\ u.disk.queue = t.disk.queue)
    BY RewriteGives
  <1>3. CASE u.how = "ok" /\ r = [u EXCEPT !.mem.points = q]
    <2>1. r \in Results /\ r.disk = u.disk /\ r.how = u.how
      BY <1>2, <1>3 DEF Results, Stores
    <2>2. r.mem = [u.mem EXCEPT !.points = q]
      BY <1>2, <1>3 DEF Results
    <2>3. /\ r.mem.consent = u.mem.consent /\ r.mem.error = u.mem.error /\ r.mem.id = u.mem.id
          /\ r.mem.points = q
      BY <1>2, <2>2 DEF Results, Stores
    <2> QED
      BY <1>2, <1>3, <2>1, <2>3 DEF Bad
  <1>4. CASE u.how # "ok" /\ r = u
    BY <1>2, <1>4
  <1> QED
    BY <1>1, <1>3, <1>4

-----------------------------------------------------------------------------
(* setConsent(), operation by operation.                                   *)
Word(on) == IF on THEN "1" ELSE "0"
Anew(on) == on /\ mem.consent # "1"

(* On the way the queue is the old one or empty, and empty before a new    *)
(* consent is on the disk.                                                 *)
Course(t, on) ==
  /\ t \in Results /\ t.how \in {"ok"} \cup Bad
  /\ t.disk.queue \in {disk.queue, <<>>} /\ t.disk.consent \in {disk.consent, Word(on)}
  /\ Anew(on) /\ t.disk.consent # disk.consent => t.disk.queue = <<>>

Renewed(t, on) ==
  /\ t.disk.consent = disk.consent /\ t.mem.consent = mem.consent /\ t.mem.points = mem.points
  /\ IF Anew(on) THEN t.disk.queue = <<>> ELSE t.disk.queue = disk.queue
Decided(t, on) ==
  /\ t.disk.consent = Word(on) /\ t.mem.consent = Word(on)
  /\ t.mem.points = IF on /\ ~Anew(on) THEN mem.points ELSE <<>>
  /\ IF Anew(on) THEN t.disk.queue = <<>> ELSE t.disk.queue = disk.queue
Erased(t, on) == Decided(t, on) /\ (~on => t.disk.id = 0)
Settled(t, on) ==
  /\ t.disk.consent = Word(on) /\ t.mem.consent = Word(on) /\ (~on => t.disk.id = 0)
  /\ IF on /\ ~Anew(on) THEN t.disk.queue = disk.queue /\ t.mem.points = mem.points
     ELSE t.disk.queue = <<>> /\ t.mem.points = <<>>

(* A handler begins with what there is.                                    *)
LEMMA BeginIsAResult ==
  ASSUME UsageTypes
  PROVE  Begin \in Results /\ Begin.disk = disk /\ Begin.mem = mem /\ Begin.how = "ok"
  BY DEF UsageTypes, Begin, Results

(* A new consent begins with an empty queue.                               *)
LEMMA RenewGives ==
  ASSUME UsageTypes, NEW on \in BOOLEAN, NEW r \in Renew(Begin, on)
  PROVE  Course(r, on) /\ (r.how = "ok" => Renewed(r, on))
  <1>1. CASE ~Anew(on)
    <2>1. r = Begin
      BY <1>1, BeginIsAResult DEF Renew, Anew
    <2> QED
      BY <1>1, <2>1, BeginIsAResult DEF Course, Renewed, Word
  <1>2. CASE Anew(on)
    <2> DEFINE Ids(u) == {[u EXCEPT !.mem.id = hist.ids + 1], [u EXCEPT !.how = "failed"]}
               S1 == Rewrite(Begin, <<>>)
               S2 == Then(S1, LAMBDA u : Ids(u))
    <2>s. r \in Then(S2, LAMBDA u : Op(u, [u.disk EXCEPT !.id = u.mem.id]))
      <3>1. ~(~on \/ Begin.mem.consent = "1")
        BY <1>2, BeginIsAResult DEF Anew
      <3> QED
        BY <3>1, Zenon DEF Renew
    <2>r. PICK v \in S2 : IF v.how = "ok" THEN r \in Op(v, [v.disk EXCEPT !.id = v.mem.id]) ELSE r = v
      <3> HIDE DEF S2
      <3> QED BY <2>s, Zenon DEF Then
    <2>n. PICK u \in S1 : IF u.how = "ok" THEN v \in Ids(u) ELSE v = u
      <3> HIDE DEF S1, Ids
      <3> QED BY Zenon DEF Then
    <2>1. /\ IF u.how = "ok" THEN v \in Ids(u) ELSE v = u
          /\ IF v.how = "ok" THEN r \in Op(v, [v.disk EXCEPT !.id = v.mem.id]) ELSE r = v
      BY <2>r, <2>n
    <2> HIDE DEF S1, S2
    <2>2. <<>> \in Seq(Point)
      OBVIOUS
    <2>3. /\ u \in Results /\ u.mem = mem /\ u.how \in {"ok"} \cup Bad
          /\ u.disk.consent = disk.consent
          /\ u.disk.queue = <<>> \/ (u.how \in Bad /\ u.disk.queue = disk.queue)
      <3>1. u \in Rewrite(Begin, <<>>)
        BY DEF S1
      <3> QED
        BY <2>2, <3>1, BeginIsAResult, RewriteGives
    <2>4. /\ v \in Results /\ v.mem.consent = mem.consent /\ v.mem.points = mem.points
          /\ v.how \in {"ok"} \cup Bad /\ v.disk = u.disk
      <3>1. hist.ids + 1 \in Nat
        BY DEF UsageTypes
      <3>2. CASE v = [u EXCEPT !.mem.id = hist.ids + 1]
        <4>1. v \in Results /\ v.disk = u.disk /\ v.how = u.how
          BY <2>3, <3>1, <3>2 DEF Results, Stores
        <4>2. v.mem = [u.mem EXCEPT !.id = hist.ids + 1]
          BY <2>3, <3>2 DEF Results
        <4>3. v.mem.consent = u.mem.consent /\ v.mem.points = u.mem.points
          BY <2>3, <4>2 DEF Results, Stores
        <4> QED
          BY <2>3, <4>1, <4>3
      <3>3. CASE v = [u EXCEPT !.how = "failed"]
        BY <2>3, <3>3 DEF Results, Bad
      <3>4. CASE v = u
        BY <2>3, <3>4
      <3> QED
        BY <2>1, <3>2, <3>3, <3>4
    <2>5. v.how = "ok" => u.how = "ok"
      BY <2>1 DEF Bad
    <2>6. CASE v.how # "ok"
      BY <1>2, <2>1, <2>3, <2>4, <2>6 DEF Course
    <2>7. CASE v.how = "ok"
      <3> DEFINE e == [v.disk EXCEPT !.id = v.mem.id]
      <3>1. e \in Files /\ e.consent = v.disk.consent /\ e.queue = v.disk.queue
        BY <2>4 DEF Results, Files, Stores
      <3>2. r \in Op(v, e)
        BY <2>1, <2>7
      <3> HIDE DEF e
      <3>3. /\ r \in Results /\ r.mem = v.mem
            /\ (r.how = "ok" /\ r.disk = e) \/ (r.how \in Bad /\ r.disk \in {v.disk, e})
        BY <2>4, <2>7, <3>1, <3>2, OpGives
      <3>4. v.disk.queue = <<>>
        BY <2>3, <2>4, <2>5, <2>7 DEF Bad
      <3> QED
        BY <1>2, <2>3, <2>4, <2>7, <3>1, <3>3, <3>4 DEF Course, Renewed
    <2> QED
      BY <2>6, <2>7
  <1> QED
    BY <1>1, <1>2

(* The decision itself, on the disk and then in memory.                    *)
LEMMA DecideGives ==
  ASSUME UsageTypes, NEW on \in BOOLEAN, NEW t, Course(t, on), Renewed(t, on), t.how = "ok",
         NEW r \in Decide(t, on)
  PROVE  Course(r, on) /\ (r.how = "ok" => Decided(r, on))
  <1> DEFINE c == Word(on)
             e == [t.disk EXCEPT !.consent = c]
             done(u) == [u EXCEPT !.mem.consent = c, !.mem.error = FALSE,
                                  !.mem.points = IF on /\ u.mem.consent = "1" THEN @ ELSE <<>>]
  <1>1. PICK u \in Op(t, e) : IF u.how = "ok" THEN r = done(u) ELSE r = u
    BY DEF Decide, Then, Word
  <1>2. c \in {"0", "1"} /\ t \in Results
    BY DEF Word, Course
  <1>3. e \in Files /\ e.consent = c /\ e.queue = t.disk.queue
    BY <1>2 DEF Results, Files
  <1> HIDE DEF e, c
  <1>4. /\ u \in Results /\ u.mem = t.mem
        /\ (u.how = "ok" /\ u.disk = e) \/ (u.how \in Bad /\ u.disk \in {t.disk, e})
    BY <1>2, <1>3, OpGives
  <1>5. CASE u.how # "ok"
    BY <1>1, <1>3, <1>4, <1>5 DEF Course, Renewed, c
  <1>6. CASE u.how = "ok"
    <2>1. r = done(u)
      BY <1>1, <1>6
    <2>2. u.mem \in Stores
      BY <1>4 DEF Results
    <2> DEFINE points == IF on /\ u.mem.consent = "1" THEN u.mem.points ELSE <<>>
               m == [u.mem EXCEPT !.consent = c, !.error = FALSE, !.points = points]
    <2>3. m \in Stores /\ m.consent = c /\ m.points = points
      <3>1. points \in Seq(Point)
        BY <2>2 DEF Stores
      <3> HIDE DEF points
      <3> QED
        BY <1>2, <2>2, <3>1 DEF Stores
    <2>4. r = [u EXCEPT !.mem = m]
      BY <1>4, <2>1, <2>2 DEF Results, Stores
    <2> HIDE DEF m
    <2>5. r \in Results /\ r.disk = u.disk /\ r.how = "ok" /\ r.mem = m
      BY <1>4, <1>6, <2>3, <2>4 DEF Results
    <2> QED
      BY <1>3, <1>4, <1>6, <2>3, <2>5 DEF Course, Renewed, Decided, Anew, Bad, c
  <1> QED
    BY <1>5, <1>6

(* An opt-out takes the id.                                                *)
LEMMA EraseGives ==
  ASSUME UsageTypes, NEW on \in BOOLEAN, NEW t, Course(t, on), Decided(t, on), t.how = "ok",
         NEW r \in Erase(t, on)
  PROVE  Course(r, on) /\ (r.how = "ok" => Erased(r, on))
  <1>1. CASE on
    BY <1>1 DEF Erase, Erased
  <1>2. CASE ~on
    <2> DEFINE u == [t EXCEPT !.mem.id = 0]
               e == [t.disk EXCEPT !.id = 0]
    <2>1. t \in Results /\ r \in Op(u, e)
      BY <1>2 DEF Erase, Course
    <2>2. /\ u \in Results /\ u.disk = t.disk /\ u.how = "ok"
          /\ u.mem.consent = t.mem.consent /\ u.mem.points = t.mem.points
      <3>1. u \in Results /\ u.disk = t.disk /\ u.how = "ok" /\ u.mem = [t.mem EXCEPT !.id = 0]
        BY <2>1 DEF Results, Stores
      <3>2. t.mem \in Stores
        BY <2>1 DEF Results
      <3> QED
        BY <3>1, <3>2 DEF Stores
    <2>3. e \in Files /\ e.id = 0 /\ e.consent = t.disk.consent /\ e.queue = t.disk.queue
      BY <2>1 DEF Results, Files
    <2> HIDE DEF e, u
    <2>4. /\ r \in Results /\ r.mem = u.mem
          /\ (r.how = "ok" /\ r.disk = e) \/ (r.how \in Bad /\ r.disk \in {t.disk, e})
      BY <2>1, <2>2, <2>3, OpGives
    <2> QED
      BY <1>2, <2>2, <2>3, <2>4 DEF Course, Decided, Erased, Bad
  <1> QED
    BY <1>1, <1>2

(* The files of older versions go.                                         *)
LEMMA RetireGives ==
  ASSUME UsageTypes, NEW on \in BOOLEAN, NEW t, Course(t, on), Erased(t, on), t.how = "ok",
         NEW r \in Retire(t)
  PROVE  Course(r, on) /\ (r.how = "ok" => Erased(r, on))
  <1> DEFINE e == [t.disk EXCEPT !.legacy = "none"]
  <1>1. t \in Results /\ r \in Op(t, e)
    BY DEF Retire, Course
  <1>2. e \in Files /\ e.id = t.disk.id /\ e.consent = t.disk.consent /\ e.queue = t.disk.queue
    BY <1>1 DEF Results, Files
  <1> HIDE DEF e
  <1>3. /\ r \in Results /\ r.mem = t.mem
        /\ (r.how = "ok" /\ r.disk = e) \/ (r.how \in Bad /\ r.disk \in {t.disk, e})
    BY <1>1, <1>2, OpGives
  <1> QED
    BY <1>2, <1>3 DEF Course, Decided, Erased, Bad

(* The queue in memory, empty but for a repeated consent, is written.      *)
LEMMA SettleGives ==
  ASSUME UsageTypes, NEW on \in BOOLEAN, NEW t, Course(t, on), Erased(t, on), t.how = "ok",
         NEW r \in Settle(t, on)
  PROVE  Course(r, on) /\ (r.how = "ok" => Settled(r, on))
  <1>1. CASE on /\ ~Anew(on)
    BY <1>1 DEF Settle, Anew, Erased, Decided, Settled
  <1>2. CASE ~(on /\ ~Anew(on))
    <2>1. t \in Results /\ r \in Rewrite(t, t.mem.points) /\ t.mem.points = <<>>
      BY <1>2 DEF Settle, Anew, Course, Erased, Decided
    <2>2. <<>> \in Seq(Point)
      OBVIOUS
    <2>3. /\ r \in Results /\ r.mem = t.mem
          /\ r.how = t.how \/ r.how \in Bad
          /\ r.disk.consent = t.disk.consent /\ r.disk.id = t.disk.id
          /\ r.disk.queue = <<>> \/ (r.how \in Bad /\ r.disk.queue = t.disk.queue)
      BY <2>1, <2>2, RewriteGives
    <2> QED
      BY <1>2, <2>1, <2>3 DEF Course, Erased, Decided, Settled, Bad
  <1> QED
    BY <1>1, <1>2

(* A decision that is refused changes nothing.  One that consents again,   *)
(* where there is consent, leaves the queue.  Any other empties it if it   *)
(* succeeds.                                                               *)
LEMMA ConsentGives ==
  ASSUME UsageTypes, NEW on \in BOOLEAN, NEW r \in SetConsent(on)
  PROVE  \/ /\ r.how = "refused" /\ r \in Results /\ r.disk = disk /\ r.mem = mem
         \/ /\ Course(r, on) /\ (r.how = "ok" => Settled(r, on))
            /\ on => Works \/ mem.consent # "1"
  <1>1. CASE on /\ mem.error /\ mem.consent = "1"
    <2>1. r = [Begin EXCEPT !.how = "refused"]
      BY <1>1 DEF SetConsent
    <2> QED
      BY <2>1, BeginIsAResult DEF Results
  <1>2. CASE ~(on /\ mem.error /\ mem.consent = "1")
    <2> DEFINE S1 == Renew(Begin, on)
               S2 == Then(S1, LAMBDA t : Decide(t, on))
               S3 == Then(S2, LAMBDA t : Erase(t, on))
               S4 == Then(S3, Retire)
    <2>s. r \in Then(S4, LAMBDA t : Settle(t, on))
      BY <1>2 DEF SetConsent
    <2>r. PICK t4 \in S4 : IF t4.how = "ok" THEN r \in Settle(t4, on) ELSE r = t4
      <3> HIDE DEF S4
      <3> QED BY <2>s, Zenon DEF Then
    <2>e. PICK t3 \in S3 : IF t3.how = "ok" THEN t4 \in Retire(t3) ELSE t4 = t3
      <3> HIDE DEF S3
      <3> QED BY Zenon DEF Then
    <2>d. PICK t2 \in S2 : IF t2.how = "ok" THEN t3 \in Erase(t2, on) ELSE t3 = t2
      <3> HIDE DEF S2
      <3> QED BY Zenon DEF Then
    <2>n. PICK t1 \in S1 : IF t1.how = "ok" THEN t2 \in Decide(t1, on) ELSE t2 = t1
      <3> HIDE DEF S1
      <3> QED BY Zenon DEF Then
    <2>2. Course(t1, on) /\ (t1.how = "ok" => Renewed(t1, on))
      BY RenewGives
    <2>3. Course(t2, on) /\ (t2.how = "ok" => Decided(t2, on))
      BY <2>n, <2>2, DecideGives
    <2>4. Course(t3, on) /\ (t3.how = "ok" => Erased(t3, on))
      BY <2>d, <2>3, EraseGives
    <2>5. Course(t4, on) /\ (t4.how = "ok" => Erased(t4, on))
      BY <2>e, <2>4, RetireGives
    <2>6. Course(r, on) /\ (r.how = "ok" => Settled(r, on))
      BY <2>r, <2>5, SettleGives
    <2>7. on => Works \/ mem.consent # "1"
      BY <1>2 DEF Works
    <2> QED
      BY <2>6, <2>7
  <1> QED
    BY <1>1, <1>2

-----------------------------------------------------------------------------
(* append() and acknowledge().                                             *)

(* A part of a queue is in order and of the queue.                         *)
LEMMA PartOfQueue ==
  ASSUME NEW q \in Seq(Point), Ordered(q), NEW m \in Nat \ {0}, NEW n \in Nat, n <= Len(q)
  PROVE  /\ SubSeq(q, m, n) \in Seq(Point) /\ Ordered(SubSeq(q, m, n))
         /\ ToSet(SubSeq(q, m, n)) \subseteq ToSet(q)
         /\ Len(SubSeq(q, m, n)) = IF m <= n THEN n - m + 1 ELSE 0
         /\ \A i \in 1 .. n - m + 1 : SubSeq(q, m, n)[i] = q[m + i - 1]
  <1> DEFINE s == SubSeq(q, m, n)
  <1>1. DOMAIN q = 1..Len(q) /\ Len(q) \in Nat /\ \A i \in m..n : q[i] \in Point
    BY ElementOfSeq
  <1>2. /\ s \in Seq(Point) /\ Len(s) = IF m <= n THEN n - m + 1 ELSE 0
        /\ \A i \in 1 .. n - m + 1 : s[i] = q[m + i - 1]
    BY <1>1, SubSeqProperties
  <1> HIDE DEF s
  <1>3. DOMAIN s = 1..Len(s)
    BY <1>2
  <1>4. \A i \in DOMAIN s : i \in 1 .. n - m + 1 /\ m + i - 1 \in DOMAIN q /\ s[i] = q[m + i - 1]
    BY <1>1, <1>2, <1>3
  <1>5. ToSet(s) \subseteq ToSet(q)
    BY <1>4 DEF ToSet
  <1>6. Ordered(s)
    <2> SUFFICES ASSUME NEW i \in DOMAIN s, NEW j \in DOMAIN s, i < j PROVE s[i][2] > s[j][2]
      BY DEF Ordered
    <2>1. m + i - 1 < m + j - 1
      BY <1>4
    <2> QED
      BY <1>4, <2>1 DEF Ordered
  <1> QED
    BY <1>2, <1>5, <1>6 DEF s

(* A point with a lower number goes to the end.                            *)
LEMMA OneMorePoint ==
  ASSUME NEW q \in Seq(Point), Ordered(q), NEW p \in Point, \A x \in ToSet(q) : x[2] > p[2]
  PROVE  /\ Append(q, p) \in Seq(Point) /\ Ordered(Append(q, p))
         /\ ToSet(Append(q, p)) = ToSet(q) \cup {p}
  <1> DEFINE s == Append(q, p)
  <1>1. /\ s \in Seq(Point) /\ Len(s) = Len(q) + 1 /\ s[Len(q) + 1] = p
        /\ \A i \in 1..Len(q) : s[i] = q[i]
        /\ DOMAIN q = 1..Len(q) /\ Len(q) \in Nat
    BY AppendProperties
  <1> HIDE DEF s
  <1>2. DOMAIN s = 1..Len(q) + 1
    BY <1>1
  <1>3. ToSet(s) = ToSet(q) \cup {p}
    BY <1>1, <1>2 DEF ToSet
  <1>4. Ordered(s)
    <2> SUFFICES ASSUME NEW i \in DOMAIN s, NEW j \in DOMAIN s, i < j PROVE s[i][2] > s[j][2]
      BY DEF Ordered
    <2>1. i \in DOMAIN q /\ s[i] = q[i] /\ q[i] \in ToSet(q)
      BY <1>1, <1>2 DEF ToSet
    <2>2. CASE j \in DOMAIN q
      BY <1>1, <2>1, <2>2 DEF Ordered
    <2>3. CASE j \notin DOMAIN q
      <3>1. s[j] = p
        BY <1>1, <1>2, <2>3
      <3> QED
        BY <2>1, <3>1
    <2> QED
      BY <2>2, <2>3
  <1> QED
    BY <1>1, <1>3, <1>4 DEF s

(* What append() leaves is a part of the queue, with the new point or      *)
(* without.                                                                *)
LEMMA AppendGives ==
  ASSUME UsageTypes, StoreInv, Works, NEW p \in Point, \A x \in ToSet(disk.queue) : x[2] > p[2],
         NEW r \in Append1(Begin, p)
  PROVE  /\ r \in Results /\ r.how \in {"ok"} \cup Bad
         /\ r.disk.consent = disk.consent /\ r.disk.id = disk.id
         /\ Ordered(r.disk.queue) /\ ToSet(r.disk.queue) \subseteq ToSet(disk.queue) \cup {p}
         /\ r.how = "ok" => /\ p \in ToSet(r.disk.queue)
                            /\ r.mem.consent = mem.consent /\ r.mem.points = r.disk.queue
  <1> DEFINE sub == SubSeq(mem.points, Overflow + 1, Capacity)
             Part(q) == q \in Seq(Point) /\ Ordered(q) /\ ToSet(q) \subseteq ToSet(disk.queue)
  <1>1. /\ mem.points = disk.queue /\ disk.queue \in Seq(Point) /\ Part(disk.queue)
        /\ Len(disk.queue) \in Nat
    BY DEF StoreInv, UsageTypes, Files
  <1>2. Len(mem.points) >= Capacity => Part(sub)
    <2>1. Capacity \in Nat /\ Overflow + 1 \in Nat \ {0}
      BY UsageAssumption
    <2> QED
      BY <1>1, <2>1, PartOfQueue
  <1> HIDE DEF sub
  <1>3. PICK u : /\ IF Len(Begin.mem.points) < Capacity THEN u = Begin ELSE u \in Keep(Begin, sub)
                 /\ \/ u.how # "ok" /\ r = u
                    \/ /\ u.how = "ok"
                       /\ \/ \E v \in Op(u, [u.disk EXCEPT !.queue = Append(@, p)]) :
                                v.how = "ok" /\ r = [v EXCEPT !.mem.points = Append(@, p)]
                          \/ /\ r \in Op(u, [u.disk EXCEPT !.queue = Append(@, p)])
                             /\ r.how # "ok"
                          \/ r \in Op(u, [u.disk EXCEPT !.torn = TRUE]) /\ r.how # "ok"
    BY BeginIsAResult DEF Append1, Then, sub
  <1>4. /\ u \in Results /\ u.how \in {"ok"} \cup Bad /\ Part(u.disk.queue)
        /\ u.disk.consent = disk.consent /\ u.disk.id = disk.id
        /\ u.how = "ok" => u.mem.consent = mem.consent /\ u.mem.points = u.disk.queue
    <2>1. CASE u = Begin
      BY <1>1, <2>1, BeginIsAResult
    <2>2. CASE u \in Keep(Begin, sub) /\ Len(mem.points) >= Capacity
      BY <1>1, <1>2, <2>2, BeginIsAResult, KeepGives
    <2> QED
      BY <1>1, <1>3, <2>1, <2>2, BeginIsAResult, UsageAssumption
  <1> DEFINE e == [u.disk EXCEPT !.queue = Append(@, p)]
             f == [u.disk EXCEPT !.torn = TRUE]
             longer == Append(u.disk.queue, p)
  <1>5. /\ longer \in Seq(Point) /\ Ordered(longer) /\ p \in ToSet(longer)
        /\ ToSet(longer) \subseteq ToSet(disk.queue) \cup {p}
    BY <1>4, OneMorePoint
  <1>6. /\ e \in Files /\ e.queue = longer /\ e.consent = u.disk.consent /\ e.id = u.disk.id
        /\ f \in Files /\ f.queue = u.disk.queue /\ f.consent = u.disk.consent
        /\ f.id = u.disk.id
    <2> HIDE DEF longer
    <2>1. u.disk \in Files /\ e = [u.disk EXCEPT !.queue = longer]
      BY <1>4 DEF Results, longer
    <2> QED
      BY <1>5, <2>1 DEF Files
  <1> HIDE DEF longer, e, f
  <1>7. CASE u.how # "ok" /\ r = u
    BY <1>4, <1>7
  <1>8. ASSUME u.how = "ok", NEW v \in Op(u, e), v.how = "ok",
               r = [v EXCEPT !.mem.points = Append(@, p)]
        PROVE  /\ r \in Results /\ r.how = "ok" /\ r.disk = e
               /\ r.mem.consent = mem.consent /\ r.mem.points = longer
    <2>1. v \in Results /\ v.mem = u.mem /\ v.disk = e /\ v.mem \in Stores
      BY <1>4, <1>6, <1>8, OpGives DEF Results, Bad
    <2> DEFINE m == [v.mem EXCEPT !.points = longer]
    <2>2. r = [v EXCEPT !.mem = m]
      BY <1>4, <1>8, <2>1 DEF Results, longer
    <2>3. m \in Stores /\ m.points = longer /\ m.consent = v.mem.consent
      BY <1>5, <2>1 DEF Stores
    <2> HIDE DEF m
    <2> QED
      BY <1>4, <1>8, <2>1, <2>2, <2>3 DEF Results
  <1>9. ASSUME u.how = "ok", NEW d \in {e, f}, r \in Op(u, d), r.how # "ok"
        PROVE  r \in Results /\ r.how \in Bad /\ r.disk \in {u.disk, e, f}
    BY <1>4, <1>6, <1>9, OpGives
  <1>10. CASE u.how = "ok" /\ \E v \in Op(u, e) :
                v.how = "ok" /\ r = [v EXCEPT !.mem.points = Append(@, p)]
    BY <1>4, <1>5, <1>6, <1>8, <1>10
  <1>11. CASE u.how = "ok" /\ r.how # "ok" /\ (r \in Op(u, e) \/ r \in Op(u, f))
    <2>1. r \in Results /\ r.how \in Bad /\ r.disk \in {u.disk, e, f}
      BY <1>9, <1>11
    <2> QED
      BY <1>4, <1>5, <1>6, <2>1 DEF Bad
  <1> QED
    BY <1>3, <1>7, <1>10, <1>11 DEF e, f

(* An acknowledgement that is accepted removes what lies within its token. *)
LEMMA AcknowledgeGives ==
  ASSUME UsageTypes, StoreInv, NEW token, NEW r \in Acknowledge(token)
  PROVE  \/ r.how = "refused" /\ r \in Results /\ r.disk = disk /\ r.mem = mem
         \/ /\ Works /\ r \in Results /\ r.how \in {"ok"} \cup Bad
            /\ r.disk.consent = disk.consent /\ r.disk.id = disk.id
            /\ Ordered(r.disk.queue) /\ ToSet(r.disk.queue) \subseteq ToSet(disk.queue)
            /\ \A p \in ToSet(disk.queue) \ ToSet(r.disk.queue) : Within(token, p)
            /\ r.how = "ok" => r.mem.points = r.disk.queue
  <1>1. CASE r = [Begin EXCEPT !.how = "refused"]
    BY <1>1, BeginIsAResult DEF Results
  <1>2. CASE r # [Begin EXCEPT !.how = "refused"]
    <2>1. /\ Works /\ mem.points # <<>> /\ token[1] = Head(mem.points)
          /\ \E k \in {k \in DOMAIN Batch : Batch[k] = token[2]} :
                r \in Keep(Begin, SubSeq(mem.points, k + 1, Len(mem.points)))
      BY <1>2 DEF Acknowledge
    <2>2. PICK k \in DOMAIN Batch : Batch[k] = token[2]
                  /\ r \in Keep(Begin, SubSeq(mem.points, k + 1, Len(mem.points)))
      BY <2>1
    <2> DEFINE q == disk.queue
               n == Smaller(Len(mem.points), UploadSize)
               sub == SubSeq(q, k + 1, Len(q))
    <2>3. /\ mem.points = q /\ q \in Seq(Point) /\ Ordered(q) /\ Len(q) \in Nat
          /\ DOMAIN q = 1..Len(q) /\ Len(q) > 0
      BY <2>1, EmptySeq DEF StoreInv, UsageTypes, Files
    <2>4. n \in 1..Len(q)
      BY <2>3, UsageAssumption DEF Smaller
    <2> HIDE DEF q, n
    <2>5. k \in 1..n /\ Batch[k] = q[k]
      <3>1. Batch = SubSeq(q, 1, n) /\ 1 \in Nat \ {0} /\ n \in Nat
        BY <2>3, <2>4 DEF Batch, n
      <3>2. /\ SubSeq(q, 1, n) \in Seq(Point) /\ Len(SubSeq(q, 1, n)) = n
            /\ \A i \in 1..n : SubSeq(q, 1, n)[i] = q[i]
        <4>1. /\ SubSeq(q, 1, n) \in Seq(Point)
              /\ Len(SubSeq(q, 1, n)) = IF 1 <= n THEN n - 1 + 1 ELSE 0
              /\ \A i \in 1 .. n - 1 + 1 : SubSeq(q, 1, n)[i] = q[1 + i - 1]
          BY <2>3, <2>4, <3>1, PartOfQueue
        <4> QED
          BY <2>4, <4>1
      <3> QED
        BY <3>1, <3>2
    <2>6. token[1] = q[1] /\ token[2] = q[k]
      BY <2>1, <2>2, <2>3, <2>5
    <2>7. k + 1 \in Nat \ {0} /\ k \in DOMAIN q
      BY <2>3, <2>4, <2>5
    <2>8. /\ sub \in Seq(Point) /\ Ordered(sub) /\ ToSet(sub) \subseteq ToSet(q)
          /\ Len(sub) = IF k + 1 <= Len(q) THEN Len(q) - (k + 1) + 1 ELSE 0
          /\ \A i \in 1 .. Len(q) - (k + 1) + 1 : sub[i] = q[(k + 1) + i - 1]
      <3>1. q \in Seq(Point) /\ Ordered(q) /\ Len(q) \in Nat /\ Len(q) <= Len(q)
        BY <2>3
      <3> QED
        BY <2>7, <3>1, PartOfQueue, Zenon
    <2>9. ASSUME NEW p \in ToSet(q) \ ToSet(sub)
          PROVE  Within(token, p)
      <3>1. PICK j \in DOMAIN q : p = q[j]
        BY DEF ToSet
      <3>2. j <= k
        <4> SUFFICES ASSUME j > k PROVE FALSE
          BY <2>3, <2>7, <3>1
        <4>1. j - k \in 1 .. Len(q) - (k + 1) + 1 /\ (k + 1) + (j - k) - 1 = j
          BY <2>3, <2>7, <3>1
        <4>2. sub[j - k] = p /\ j - k \in DOMAIN sub
          <5> HIDE DEF sub
          <5>0. k + 1 <= Len(q)
            BY <2>3, <2>7, <3>1
          <5>1. DOMAIN sub = 1..Len(sub) /\ Len(sub) = Len(q) - (k + 1) + 1
            BY <2>8, <5>0
          <5> QED
            BY <2>8, <3>1, <4>1, <5>1
        <4> QED
          BY <4>2 DEF ToSet
      <3>3. 1 \in DOMAIN q /\ q[1] \in Point /\ q[j] \in Point /\ q[k] \in Point
        BY <2>3, <2>7, <3>1, ElementOfSeq
      <3>4. (1 = j \/ q[1][2] > q[j][2]) /\ (j = k \/ q[j][2] > q[k][2])
        BY <2>3, <2>7, <3>1, <3>2, <3>3 DEF Ordered
      <3>5. q[1][2] \in Nat /\ q[j][2] \in Nat /\ q[k][2] \in Nat
        BY <3>3 DEF Point
      <3> QED
        BY <2>6, <3>1, <3>4, <3>5 DEF Within
    <2>10. /\ r \in Results /\ r.how \in {"ok"} \cup Bad
           /\ r.disk.consent = disk.consent /\ r.disk.id = disk.id
           /\ r.disk.queue \in {sub, q}
           /\ r.how = "ok" => r.disk.queue = sub /\ r.mem.points = sub
      <3> HIDE DEF sub
      <3>1. r \in Keep(Begin, sub)
        BY <2>2, <2>3 DEF sub
      <3> QED
        BY <2>8, <3>1, BeginIsAResult, KeepGives DEF q
    <2> QED
      BY <2>1, <2>3, <2>8, <2>9, <2>10 DEF q
  <1> QED
    BY <1>1, <1>2

-----------------------------------------------------------------------------
(* The steps.                                                              *)

(* load() trusts the files of a consent, if they are whole.                *)
LEMMA LoadedGives ==
  ASSUME NEW d \in Files
  PROVE  /\ AsLoaded(d) \in Stores
         /\ AsLoaded(d).consent = "1" /\ ~AsLoaded(d).error =>
                d.consent = "1" /\ AsLoaded(d).points = d.queue
  <1> DEFINE consent == IF d.consent # "none" THEN d.consent
                        ELSE IF d.legacy = "0" THEN "0" ELSE "unknown"
             whole == /\ d.id # 0 /\ ~d.torn /\ Len(d.queue) <= Capacity
                      /\ \A p \in ToSet(d.queue) : p[1] = d.id
  <1>1. AsLoaded(d) = [consent |-> consent, error |-> consent = "1" /\ ~whole,
                       id |-> IF consent = "1" THEN d.id ELSE 0,
                       points |-> IF consent = "1" /\ whole THEN d.queue ELSE <<>>]
    BY DEF AsLoaded
  <1>2. consent \in {"unknown", "0", "1"} /\ (consent = "1" => d.consent = "1")
    BY DEF Files
  <1>3. d.id \in Nat /\ d.queue \in Seq(Point) /\ <<>> \in Seq(Point)
    BY DEF Files
  <1> HIDE DEF consent, whole
  <1>4. AsLoaded(d) \in Stores
    BY <1>1, <1>2, <1>3 DEF Stores
  <1>5. /\ AsLoaded(d).consent = consent /\ AsLoaded(d).error = (consent = "1" /\ ~whole)
        /\ AsLoaded(d).points = IF consent = "1" /\ whole THEN d.queue ELSE <<>>
    BY <1>1
  <1> QED
    BY <1>2, <1>4, <1>5

(* A store that works after a handler has the queue on the disk.           *)
LEMMA LeavesGives ==
  ASSUME NEW r \in Results, Leaves(r)
  PROVE  /\ disk' = r.disk /\ disk' \in Files /\ mem' \in Stores
         /\ Works' => \/ disk'.consent = "1" /\ mem'.points = disk'.queue
                      \/ /\ r.how \in {"ok", "refused"} /\ mem'.points = r.mem.points
                         /\ r.mem.consent = "1" /\ ~r.mem.error
  <1>1. disk' = r.disk /\ disk' \in Files /\ r.mem \in Stores
    BY DEF Leaves, Results
  <1>2. CASE r.how = "died"
    <2>1. mem' = AsLoaded(disk')
      BY <1>1, <1>2 DEF Leaves
    <2> QED
      BY <1>1, <2>1, LoadedGives DEF Works
  <1>3. CASE r.how # "died"
    <2>1. mem' = [r.mem EXCEPT !.error = @ \/ r.how = "failed"]
      BY <1>3 DEF Leaves
    <2>2. /\ mem' \in Stores /\ mem'.points = r.mem.points /\ mem'.consent = r.mem.consent
          /\ mem'.error = (r.mem.error \/ r.how = "failed")
      BY <1>1, <2>1 DEF Stores
    <2> QED
      BY <1>1, <1>3, <2>2 DEF Works, Results
  <1> QED
    BY <1>2, <1>3

(* A fault is spent.                                                       *)
LEMMA UseGives ==
  ASSUME UsageTypes, NEW n \in {0, 1}, Use("faults", n)
  PROVE  /\ budget' \in [points : Nat, decisions : Nat, faults : Nat]
         /\ budget'.points = budget.points
  BY DEF UsageTypes, Use

(* A handler fails once.                                                   *)
LEMMA CostIsSmall == \A r : Cost(r) \in {0, 1}
  BY DEF Cost

(* The token of a batch is of two of its points.                           *)
LEMMA TokenIsOfPoints ==
  ASSUME NEW b \in Seq(Point), b # <<>>
  PROVE  Token(b) \in Point \X Point /\ Token(b)[2][2] \in Nat /\ Token(b)[1][2] \in Nat
  <1>1. Head(b) \in Point
    BY HeadTailProperties
  <1>2. b[Len(b)] \in Point
    BY EmptySeq, ElementOfSeq
  <1> QED
    BY <1>1, <1>2 DEF Token, Point

(* What a step of the device and of the relays may do to the batches.      *)
LEMMA RelayKeeps ==
  ASSUME UsageInv, disk' \in Files, budget'.points \in Nat, budget'.points <= budget.points,
         \A p \in ToSet(disk'.queue) :
            p \in ToSet(disk.queue) \/ (p \in Point /\ p[2] = budget.points),
         collected \subseteq collected',
         \A b \in Tab : tab'[b].pc \in Carries =>
            /\ tab[b].pc \in Carries /\ tab'[b].batch = tab[b].batch
            /\ tab'[b].pc = "acking" => ToSet(tab[b].batch) \subseteq collected',
         \A t \in acks' : t \in acks \/ \E b \in Tab : tab[b].pc = "acking" /\ t = Token(tab[b].batch)
  PROVE  BatchInv'
  <1>1. budget.points \in Nat
    BY DEF UsageInv, UsageTypes
  <1>2. ASSUME NEW t \in Point \X Point, t[2][2] > budget.points, NEW p \in ToSet(disk'.queue),
               Within(t, p)
        PROVE  t[2][2] > budget'.points /\ p \in ToSet(disk.queue)
    <2>1. t[2][2] \in Nat
      BY DEF Point
    <2> QED
      BY <1>1, <1>2, <2>1 DEF Within, Point
  <1>3. ASSUME NEW t \in Point \X Point, t[2][2] > budget.points
        PROVE  t[2][2] > budget'.points
    <2>1. t[2][2] \in Nat
      BY DEF Point
    <2> QED
      BY <1>1, <1>3, <2>1
  <1>4. ASSUME NEW b \in Tab, tab'[b].pc \in Carries
        PROVE  /\ tab'[b].batch # <<>>
               /\ Token(tab'[b].batch)[2][2] > budget'.points
               /\ \A p \in ToSet(disk'.queue) :
                     Within(Token(tab'[b].batch), p) => p \in ToSet(tab'[b].batch)
               /\ tab'[b].pc = "acking" => ToSet(tab'[b].batch) \subseteq collected'
    <2>1. /\ tab'[b].batch = tab[b].batch /\ tab[b].batch # <<>>
          /\ Token(tab[b].batch)[2][2] > budget.points
          /\ \A p \in ToSet(disk.queue) :
                Within(Token(tab[b].batch), p) => p \in ToSet(tab[b].batch)
      BY <1>4 DEF UsageInv, BatchInv
    <2>2. Token(tab[b].batch) \in Point \X Point
      BY <2>1, TokenIsOfPoints DEF UsageInv, UsageTypes, Relays
    <2> QED
      BY <1>2, <1>3, <1>4, <2>1, <2>2
  <1>5. ASSUME NEW t \in acks'
        PROVE  /\ t[2][2] > budget'.points
               /\ \A p \in ToSet(disk'.queue) : Within(t, p) => p \in collected'
    <2>1. CASE t \in acks
      <3>1. t \in Point \X Point /\ t[2][2] > budget.points
            /\ \A p \in ToSet(disk.queue) : Within(t, p) => p \in collected
        BY <2>1 DEF UsageInv, UsageTypes, BatchInv
      <3> QED
        BY <1>2, <1>3, <3>1
    <2>2. ASSUME NEW b \in Tab, tab[b].pc = "acking", t = Token(tab[b].batch)
          PROVE  /\ t[2][2] > budget'.points
                 /\ \A p \in ToSet(disk'.queue) : Within(t, p) => p \in collected'
      <3>1. /\ tab[b].batch # <<>> /\ t[2][2] > budget.points
            /\ \A p \in ToSet(disk.queue) : Within(t, p) => p \in collected
        BY <2>2 DEF UsageInv, BatchInv, Carries
      <3>2. t \in Point \X Point
        BY <2>2, <3>1, TokenIsOfPoints DEF UsageInv, UsageTypes, Relays
      <3> QED
        BY <1>2, <1>3, <3>1, <3>2
    <2> QED
      BY <1>5, <2>1, <2>2
  <1> QED
    BY <1>4, <1>5, Zenon DEF BatchInv, Within, Token

(* poll() collects a point, of which nobody has heard.                     *)
LEMMA CollectKeeps ==
  ASSUME UsageInv, Collect
  PROVE  UsageInv'
  <1> DEFINE p == <<mem.id, budget.points>>
  <1>1. PICK r \in Append1(Begin, p) :
          /\ Leaves(r)
          /\ budget' = [budget EXCEPT !.points = @ - 1, !.faults = @ - Cost(r)]
          /\ budget.faults >= Cost(r)
          /\ hist' = [hist EXCEPT !.stored = IF r.how = "ok" THEN @ \cup {p} ELSE @,
                                  !.given = @ \cup (ToSet(disk.queue) \ ToSet(r.disk.queue))]
    BY DEF Collect
  <1>2. Works /\ budget.points > 0 /\ UNCHANGED <<tab, acks, collected>>
    BY DEF Collect
  <1>3. UsageTypes /\ StoreInv /\ ConsentInv /\ BatchInv /\ NothingIsLost
    BY DEF UsageInv
  <1>4. p \in Point /\ p[2] = budget.points /\ budget.points \in Nat /\ disk.queue \in Seq(Point)
    BY <1>3 DEF UsageTypes, Stores, Point, Files
  <1> HIDE DEF p
  <1>5. \A x \in ToSet(disk.queue) : x[2] > p[2]
    BY <1>3, <1>4 DEF StoreInv
  <1>6. /\ r \in Results /\ r.how \in {"ok"} \cup Bad
        /\ r.disk.consent = disk.consent /\ r.disk.id = disk.id
        /\ Ordered(r.disk.queue) /\ ToSet(r.disk.queue) \subseteq ToSet(disk.queue) \cup {p}
        /\ r.how = "ok" => /\ p \in ToSet(r.disk.queue)
                           /\ r.mem.consent = mem.consent /\ r.mem.points = r.disk.queue
    BY <1>2, <1>3, <1>4, <1>5, AppendGives
  <1>7. /\ disk' = r.disk /\ disk' \in Files /\ mem' \in Stores
        /\ Works' => \/ disk'.consent = "1" /\ mem'.points = disk'.queue
                     \/ /\ r.how \in {"ok", "refused"} /\ mem'.points = r.mem.points
                        /\ r.mem.consent = "1" /\ ~r.mem.error
    BY <1>1, <1>6, LeavesGives
  <1>8. /\ budget' \in [points : Nat, decisions : Nat, faults : Nat]
        /\ budget'.points = budget.points - 1
    <2> DEFINE n == Cost(r)
    <2>1. n \in {0, 1}
      BY CostIsSmall
    <2>2. /\ budget' = [budget EXCEPT !.points = @ - 1, !.faults = @ - n] /\ budget.faults >= n
          /\ budget \in [points : Nat, decisions : Nat, faults : Nat] /\ budget.points > 0
      BY <1>1, <1>2, <1>3 DEF UsageTypes
    <2>3. budget.points \in Nat /\ budget.decisions \in Nat /\ budget.faults \in Nat
      BY <2>2
    <2> HIDE DEF n
    <2>4. budget.points - 1 \in Nat /\ budget.faults - n \in Nat
      BY <2>1, <2>2, <2>3
    <2> QED
      BY <2>2, <2>3, <2>4
  <1>9. ToSet(disk.queue) \subseteq Point
    BY <1>4, ElementOfSeq DEF ToSet
  <1>10. /\ hist' \in [ids : Nat, stored : SUBSET Point, given : SUBSET Point, late : SUBSET Point,
                       out : SUBSET Point, optIns : Nat, erased : BOOLEAN]
         /\ hist'.stored \subseteq hist.stored \cup {p} /\ hist.stored \subseteq hist'.stored
         /\ p \in hist'.stored \ hist.stored => r.how = "ok"
         /\ hist'.given = hist.given \cup (ToSet(disk.queue) \ ToSet(disk'.queue))
         /\ hist'.late = hist.late /\ hist'.out = hist.out /\ hist'.optIns = hist.optIns
         /\ hist'.erased = hist.erased
    BY <1>1, <1>3, <1>4, <1>7, <1>9 DEF UsageTypes
  <1>11. UsageTypes'
    BY <1>2, <1>3, <1>7, <1>8, <1>10 DEF UsageTypes
  <1>12. StoreInv'
    <2>1. Works' => disk'.consent = "1" /\ mem'.points = disk'.queue
      BY <1>2, <1>3, <1>6, <1>7 DEF StoreInv, Bad
    <2>2. \A x \in ToSet(disk'.queue) \cup hist'.stored : x[2] > budget'.points
      <3>1. \A x \in ToSet(disk.queue) \cup hist.stored : x \in Point /\ x[2] > budget.points
        BY <1>3, <1>9 DEF StoreInv, UsageTypes
      <3>2. \A x \in ToSet(disk.queue) \cup hist.stored \cup {p} : x[2] > budget'.points
        BY <1>4, <1>8, <3>1 DEF Point
      <3> QED
        BY <1>6, <1>7, <1>10, <3>2
    <2>3. hist'.out \subseteq hist'.stored
      BY <1>3, <1>10 DEF StoreInv
    <2> QED
      BY <1>6, <1>7, <2>1, <2>2, <2>3 DEF StoreInv
  <1>13. ConsentInv'
    <2>1. disk'.consent = "1" /\ disk.consent = "1"
      BY <1>2, <1>3, <1>6, <1>7 DEF StoreInv
    <2>2. p \notin hist.out
      BY <1>3, <1>4 DEF StoreInv
    <2>3. ToSet(disk'.queue) \cap hist'.out = {}
      BY <1>3, <1>6, <1>7, <1>10, <2>1, <2>2 DEF ConsentInv
    <2>4. ~hist'.erased
      BY <1>3, <1>10, <2>1 DEF ConsentInv
    <2> QED
      BY <1>2, <1>3, <1>10, <2>1, <2>3, <2>4 DEF ConsentInv
  <1>14. BatchInv'
    BY <1>2, <1>3, <1>4, <1>6, <1>7, <1>8, RelayKeeps DEF BatchInv
  <1>15. NothingIsLost'
    BY <1>2, <1>3, <1>6, <1>7, <1>10 DEF NothingIsLost
  <1> QED
    BY <1>11, <1>12, <1>13, <1>14, <1>15 DEF UsageInv

(* A relay at rest has nothing.                                            *)
LEMMA RestGives ==
  ASSUME NEW t \in Relays
  PROVE  /\ AtRest(t) \in Relays /\ AtRest(t).pc = "idle" /\ AtRest(t).since = 0
         /\ AtRest(t).draining = t.draining
  <1>1. <<>> \in Seq(Point)
    OBVIOUS
  <1> QED
    BY <1>1 DEF AtRest, Relays

(* A relay that is given up may have been heard.                           *)
LEMMA AbandonGives ==
  ASSUME UsageTypes, BatchInv, NEW b \in Tab, Abandon(b)
  PROVE  /\ tab' \in [Tab -> Relays] /\ acks' \subseteq Point \X Point
         /\ tab'[b].pc = "idle" /\ tab'[b].since = 0
         /\ \A c \in Tab : c # b => tab'[c] = tab[c]
         /\ collected \subseteq collected' /\ collected' \subseteq Point
         /\ \A t \in acks' : t \in acks \/ (tab[b].pc = "acking" /\ t = Token(tab[b].batch))
  <1>1. tab' = [tab EXCEPT ![b] = AtRest(tab[b])] /\ tab[b] \in Relays
    BY DEF UsageTypes, Abandon, StopRelay
  <1>2. AtRest(tab[b]) \in Relays /\ AtRest(tab[b]).pc = "idle" /\ AtRest(tab[b]).since = 0
    BY <1>1, RestGives
  <1>3. tab' \in [Tab -> Relays] /\ tab'[b] = AtRest(tab[b]) /\ \A c \in Tab : c # b => tab'[c] = tab[c]
    BY <1>1, <1>2 DEF UsageTypes
  <1>4. tab[b].batch \in Seq(Point) /\ ToSet(tab[b].batch) \subseteq Point
    <2>1. tab[b].batch \in Seq(Point)
      BY <1>1 DEF Relays
    <2> QED
      BY <2>1, ElementOfSeq DEF ToSet
  <1>5. collected \subseteq collected' /\ collected' \subseteq Point
    BY <1>4 DEF Abandon, UsageTypes
  <1>6. \A t \in acks' : t \in acks \/ (tab[b].pc = "acking" /\ t = Token(tab[b].batch))
    BY DEF Abandon
  <1>7. acks' \subseteq Point \X Point
    BY <1>4, <1>6, TokenIsOfPoints DEF BatchInv, Carries, UsageTypes
  <1> QED
    BY <1>2, <1>3, <1>5, <1>6, <1>7

(* The decisions of the user.                                              *)
LEMMA ConsentKeeps ==
  ASSUME UsageInv, NEW b \in Tab, NEW on \in BOOLEAN, Consent(b, on)
  PROVE  UsageInv'
  <1>1. PICK r \in SetConsent(on) :
          /\ Leaves(r) /\ Abandon(b)
          /\ budget.decisions > 0 /\ budget.faults >= Cost(r)
          /\ budget' = [budget EXCEPT !.decisions = @ - 1, !.faults = @ - Cost(r)]
          /\ hist' = [hist EXCEPT !.ids = IF r.mem.id > @ THEN r.mem.id ELSE @,
                                  !.given = @ \cup (ToSet(disk.queue) \ ToSet(r.disk.queue)),
                                  !.out = IF ~on /\ r.disk.consent = "0" THEN @ \cup hist.stored ELSE @,
                                  !.erased = IF r.how = "refused" THEN @ ELSE r.how = "ok" /\ ~on,
                                  !.optIns = IF on THEN @ + 1 ELSE @]
    BY DEF Consent
  <1>2. UsageTypes /\ StoreInv /\ ConsentInv /\ BatchInv /\ NothingIsLost
    BY DEF UsageInv
  <1>3. \/ /\ r.how = "refused" /\ r \in Results /\ r.disk = disk /\ r.mem = mem
        \/ /\ Course(r, on) /\ (r.how = "ok" => Settled(r, on))
           /\ on => Works \/ mem.consent # "1"
    BY <1>2, ConsentGives
  <1>4. r \in Results
    BY <1>3 DEF Course
  <1>5. /\ disk' = r.disk /\ disk' \in Files /\ mem' \in Stores
        /\ Works' => \/ disk'.consent = "1" /\ mem'.points = disk'.queue
                     \/ /\ r.how \in {"ok", "refused"} /\ mem'.points = r.mem.points
                        /\ r.mem.consent = "1" /\ ~r.mem.error
    BY <1>1, <1>4, LeavesGives
  <1>6. /\ budget' \in [points : Nat, decisions : Nat, faults : Nat]
        /\ budget'.points = budget.points /\ budget.points \in Nat
    <2> DEFINE n == Cost(r)
    <2>1. n \in {0, 1}
      BY CostIsSmall
    <2>2. /\ budget' = [budget EXCEPT !.decisions = @ - 1, !.faults = @ - n] /\ budget.faults >= n
          /\ budget \in [points : Nat, decisions : Nat, faults : Nat] /\ budget.decisions > 0
      BY <1>1, <1>2 DEF UsageTypes
    <2>3. budget.points \in Nat /\ budget.decisions \in Nat /\ budget.faults \in Nat
      BY <2>2
    <2> HIDE DEF n
    <2>4. budget.decisions - 1 \in Nat /\ budget.faults - n \in Nat
      BY <2>1, <2>2, <2>3
    <2> QED
      BY <2>2, <2>3, <2>4
  <1>7. /\ tab' \in [Tab -> Relays] /\ acks' \subseteq Point \X Point
        /\ tab'[b].pc = "idle" /\ tab'[b].since = 0
        /\ \A c \in Tab : c # b => tab'[c] = tab[c]
        /\ collected \subseteq collected' /\ collected' \subseteq Point
        /\ \A t \in acks' : t \in acks \/ (tab[b].pc = "acking" /\ t = Token(tab[b].batch))
    BY <1>1, <1>2, AbandonGives
  <1>8. disk'.queue \in {disk.queue, <<>>} /\ disk.queue \in Seq(Point)
    BY <1>2, <1>3, <1>5 DEF Course, UsageTypes, Files
  <1>9. ToSet(disk'.queue) \subseteq ToSet(disk.queue) /\ ToSet(disk.queue) \subseteq Point
    BY <1>8, ElementOfSeq DEF ToSet
  <1>10. /\ hist' \in [ids : Nat, stored : SUBSET Point, given : SUBSET Point, late : SUBSET Point,
                       out : SUBSET Point, optIns : Nat, erased : BOOLEAN]
         /\ hist'.stored = hist.stored /\ hist'.late = hist.late
         /\ hist'.given = hist.given \cup (ToSet(disk.queue) \ ToSet(disk'.queue))
         /\ hist'.out = IF ~on /\ disk'.consent = "0" THEN hist.out \cup hist.stored ELSE hist.out
         /\ hist'.erased = IF r.how = "refused" THEN hist.erased ELSE r.how = "ok" /\ ~on
         /\ hist'.optIns = IF on THEN hist.optIns + 1 ELSE hist.optIns
         /\ hist.optIns \in Nat
    <2> DEFINE i == IF r.mem.id > hist.ids THEN r.mem.id ELSE hist.ids
               g == hist.given \cup (ToSet(disk.queue) \ ToSet(disk'.queue))
               o == IF ~on /\ disk'.consent = "0" THEN hist.out \cup hist.stored ELSE hist.out
               e == IF r.how = "refused" THEN hist.erased ELSE r.how = "ok" /\ ~on
               n == IF on THEN hist.optIns + 1 ELSE hist.optIns
               H == [ids : Nat, stored : SUBSET Point, given : SUBSET Point, late : SUBSET Point,
                     out : SUBSET Point, optIns : Nat, erased : BOOLEAN]
    <2>1. hist \in H
      BY <1>2 DEF UsageTypes
    <2>2. r.mem.id \in Nat
      BY <1>4 DEF Results, Stores
    <2>3. i \in Nat /\ n \in Nat /\ hist.optIns \in Nat
      BY <2>1, <2>2
    <2>4. g \in SUBSET Point /\ o \in SUBSET Point
      BY <1>9, <2>1
    <2>5. hist.erased \in BOOLEAN
      BY <2>1
    <2>6. e \in BOOLEAN
      BY <2>5, Zenon
    <2>7. hist' = [hist EXCEPT !.ids = i, !.given = g, !.out = o, !.erased = e, !.optIns = n]
      BY <1>1, <1>5, Zenon
    <2> HIDE DEF i, g, o, e, n
    <2>8. /\ hist' \in H /\ hist'.stored = hist.stored /\ hist'.late = hist.late
          /\ hist'.given = g /\ hist'.out = o /\ hist'.erased = e /\ hist'.optIns = n
      BY <2>1, <2>3, <2>4, <2>6, <2>7
    <2> QED
      BY <2>3, <2>8 DEF i, g, o, e, n
  <1>11. UsageTypes'
    BY <1>5, <1>6, <1>7, <1>10 DEF UsageTypes
  <1>12. StoreInv'
    <2>1. Works' => disk'.consent = "1" /\ mem'.points = disk'.queue
      BY <1>2, <1>3, <1>5 DEF StoreInv, Settled, Course, Works, Word, Bad, Anew
    <2>2. Ordered(disk'.queue)
      BY <1>2, <1>8 DEF StoreInv, Ordered
    <2> QED
      BY <1>2, <1>6, <1>9, <1>10, <2>1, <2>2 DEF StoreInv
  <1>13. ConsentInv'
    <2>1. disk'.consent = "1" => ToSet(disk'.queue) \cap hist'.out = {}
      <3> SUFFICES ASSUME disk'.consent = "1" PROVE ToSet(disk'.queue) \cap hist.out = {}
        BY <1>10
      <3>1. CASE disk.consent = "1"
        BY <1>2, <1>9, <3>1 DEF ConsentInv
      <3>2. CASE disk.consent # "1"
        <4>1. on /\ ~Works /\ Course(r, on)
          BY <1>2, <1>3, <1>5, <3>2 DEF Course, Word, StoreInv
        <4>2. disk'.queue = <<>>
          BY <1>3, <1>5, <3>2, <4>1 DEF Course, Anew
        <4> QED
          BY <4>2 DEF ToSet
      <3> QED
        BY <3>1, <3>2
    <2>2. hist'.erased => disk'.consent = "0" /\ disk'.queue = <<>> /\ disk'.id = 0
      <3>1. CASE r.how = "refused"
        BY <1>2, <1>3, <1>5, <1>10, <3>1 DEF ConsentInv, Course, Bad
      <3>2. CASE r.how # "refused"
        BY <1>3, <1>5, <1>10, <3>2 DEF Settled, Word
      <3> QED
        BY <3>1, <3>2
    <2>3. \A c \in Tab : tab'[c].since \in Nat /\ tab'[c].since <= hist.optIns
      <3> SUFFICES ASSUME NEW c \in Tab PROVE tab'[c].since \in Nat /\ tab'[c].since <= hist.optIns
        OBVIOUS
      <3>1. CASE c = b
        <4>1. tab'[c].since = 0
          BY <1>7, <3>1
        <4> QED BY <1>10, <4>1
      <3>2. CASE c # b
        <4>1. tab'[c] = tab[c]
          BY <1>7, <3>2
        <4>2. tab'[c].since \in Nat
          BY <1>7 DEF Relays
        <4>3. tab[c].since <= hist.optIns
          BY <1>2 DEF ConsentInv
        <4> QED BY <4>1, <4>2, <4>3
      <3> QED BY <3>1, <3>2
    <2>4. \A c \in Tab : tab'[c].since <= hist'.optIns
      BY <1>10, <2>3
    <2>5. ASSUME NEW c \in Tab, tab'[c].pc = "check", tab'[c].since = hist'.optIns, disk'.consent = "1"
          PROVE  ToSet(tab'[c].batch) \cap hist'.out = {}
      <3>1. ~on
        BY <1>10, <2>3, <2>5
      <3>2. disk.consent = "1" /\ hist'.out = hist.out /\ hist'.optIns = hist.optIns
        BY <1>3, <1>5, <1>10, <2>5, <3>1 DEF Course, Word
      <3>3. c # b
        BY <1>7, <2>5
      <3> QED
        BY <1>2, <1>7, <2>5, <3>2, <3>3 DEF ConsentInv
    <2> QED
      BY <1>2, <1>10, <2>1, <2>2, <2>4, <2>5 DEF ConsentInv
  <1>14. BatchInv'
    <2>1. \A c \in Tab : tab'[c].pc \in Carries =>
            /\ tab[c].pc \in Carries /\ tab'[c].batch = tab[c].batch
            /\ tab'[c].pc = "acking" => ToSet(tab[c].batch) \subseteq collected'
      BY <1>2, <1>7 DEF BatchInv, Carries
    <2> QED
      BY <1>5, <1>6, <1>7, <1>9, <2>1, RelayKeeps
  <1>15. NothingIsLost'
    BY <1>2, <1>7, <1>10 DEF NothingIsLost
  <1> QED
    BY <1>11, <1>12, <1>13, <1>14, <1>15 DEF UsageInv

(* An acknowledgement takes from the queue what the collector has.         *)
LEMMA AckKeeps ==
  ASSUME UsageInv, NEW token, \A p \in ToSet(disk.queue) : Within(token, p) => p \in collected,
         NEW r \in Acknowledge(token), Leaves(r), Use("faults", Cost(r)),
         collected' = collected, hist' = hist, acks' \subseteq acks, tab' \in [Tab -> Relays],
         \A b \in Tab : tab'[b] = tab[b] \/ (tab'[b].pc \notin Carries /\ tab'[b].since = 0)
  PROVE  UsageInv'
  <1>1. UsageTypes /\ StoreInv /\ ConsentInv /\ BatchInv /\ NothingIsLost
    BY DEF UsageInv
  <1>2. \/ r.how = "refused" /\ r \in Results /\ r.disk = disk /\ r.mem = mem
        \/ /\ Works /\ r \in Results /\ r.how \in {"ok"} \cup Bad
           /\ r.disk.consent = disk.consent /\ r.disk.id = disk.id
           /\ Ordered(r.disk.queue) /\ ToSet(r.disk.queue) \subseteq ToSet(disk.queue)
           /\ \A p \in ToSet(disk.queue) \ ToSet(r.disk.queue) : Within(token, p)
           /\ r.how = "ok" => r.mem.points = r.disk.queue
    BY <1>1, AcknowledgeGives
  <1>3. /\ disk' = r.disk /\ disk' \in Files /\ mem' \in Stores
        /\ Works' => \/ disk'.consent = "1" /\ mem'.points = disk'.queue
                     \/ /\ r.how \in {"ok", "refused"} /\ mem'.points = r.mem.points
                        /\ r.mem.consent = "1" /\ ~r.mem.error
    BY <1>2, LeavesGives
  <1>4. /\ budget' \in [points : Nat, decisions : Nat, faults : Nat]
        /\ budget'.points = budget.points /\ budget.points \in Nat
    BY <1>1, CostIsSmall, UseGives DEF UsageTypes
  <1>5. /\ ToSet(disk'.queue) \subseteq ToSet(disk.queue) /\ disk'.consent = disk.consent
        /\ \A p \in ToSet(disk.queue) \ ToSet(disk'.queue) : p \in collected
    BY <1>2, <1>3
  <1>6. UsageTypes'
    BY <1>1, <1>3, <1>4 DEF UsageTypes
  <1>7. StoreInv'
    <2>1. Works' => disk'.consent = "1" /\ mem'.points = disk'.queue
      <3>1. r.mem = mem /\ r.mem.consent = "1" /\ ~r.mem.error => Works
        BY DEF Works
      <3>2. CASE r.how = "refused"
        BY <1>1, <1>2, <1>3, <3>1, <3>2 DEF StoreInv, Bad
      <3>3. CASE r.how # "refused"
        BY <1>1, <1>2, <1>3, <3>3 DEF StoreInv, Bad
      <3> QED
        BY <3>2, <3>3
    <2>2. Ordered(disk'.queue)
      BY <1>1, <1>2, <1>3 DEF StoreInv
    <2> QED
      BY <1>1, <1>4, <1>5, <2>1, <2>2 DEF StoreInv
  <1>8. ConsentInv'
    <2>1. hist.erased => disk' = disk
      BY <1>1, <1>2, <1>3 DEF ConsentInv, StoreInv
    <2>2. \A b \in Tab : tab'[b].since <= hist.optIns
      BY <1>1 DEF ConsentInv, UsageTypes
    <2>3. \A b \in Tab : tab'[b].pc = "check" => tab'[b] = tab[b]
      BY DEF Carries
    <2> QED
      BY <1>1, <1>5, <2>1, <2>2, <2>3 DEF ConsentInv
  <1>9. BatchInv'
    <2>1. \A b \in Tab : tab'[b].pc \in Carries =>
            /\ tab[b].pc \in Carries /\ tab'[b].batch = tab[b].batch
            /\ tab'[b].pc = "acking" => ToSet(tab[b].batch) \subseteq collected'
      BY <1>1 DEF BatchInv
    <2> QED
      BY <1>3, <1>4, <1>5, <2>1, RelayKeeps
  <1>10. NothingIsLost'
    BY <1>1, <1>5 DEF NothingIsLost
  <1> QED
    BY <1>6, <1>7, <1>8, <1>9, <1>10 DEF UsageInv

(* The acknowledgement a relay waits for: the collector has its batch.     *)
LEMMA AckOfARelayKeeps ==
  ASSUME UsageInv, NEW b \in Tab, Ack(b)
  PROVE  UsageInv'
  <1> DEFINE token == Token(tab[b].batch)
  <1>1. PICK r \in Acknowledge(token) :
          /\ Leaves(r) /\ Use("faults", Cost(r))
          /\ LET rest == Smaller(Len(r.mem.points), tab[b].remaining - Len(tab[b].batch))
                 t    == AtRest(tab[b])
             IN  tab' = [tab EXCEPT ![b] =
                    IF r.how = "ok" /\ rest > 0 THEN [t EXCEPT !.pc = "batch", !.remaining = rest]
                    ELSE [t EXCEPT !.draining = r.how # "ok"]]
    BY DEF Ack
  <1>2. tab[b].pc = "acking" /\ UNCHANGED <<acks, collected, hist>>
    BY DEF Ack
  <1>3. UsageTypes /\ StoreInv /\ BatchInv
    BY DEF UsageInv
  <1>4. \A p \in ToSet(disk.queue) : Within(token, p) => p \in collected
    BY <1>2, <1>3 DEF BatchInv, Carries
  <1> DEFINE rest == Smaller(Len(r.mem.points), tab[b].remaining - Len(tab[b].batch))
             t    == AtRest(tab[b])
             full == [t EXCEPT !.pc = "batch", !.remaining = rest]
             done == [t EXCEPT !.draining = r.how # "ok"]
             new  == IF r.how = "ok" /\ rest > 0 THEN full ELSE done
  <1>5. tab[b] \in Relays
    BY <1>3 DEF UsageTypes
  <1>6. t \in Relays /\ t.pc = "idle" /\ t.since = 0
    BY <1>5, RestGives
  <1>7. rest > 0 => rest \in Nat
    <2>1. tab[b].remaining \in Nat /\ Len(tab[b].batch) \in Nat
      BY <1>5 DEF Relays
    <2>2. r.mem.points \in Seq(Point)
      <3>1. r \in Results
        BY <1>3, AcknowledgeGives
      <3> QED
        BY <3>1 DEF Results, Stores
    <2>3. Len(r.mem.points) \in Nat
      BY <2>2
    <2> QED
      BY <2>1, <2>3 DEF Smaller
  <1>8. tab' = [tab EXCEPT ![b] = new]
    BY <1>1
  <1>9. new \in Relays /\ new.pc \notin Carries /\ new.since = 0
    <2> HIDE DEF t, rest
    <2>1. rest > 0 => full \in Relays /\ full.pc = "batch" /\ full.since = 0
      BY <1>6, <1>7 DEF Relays
    <2>2. (r.how # "ok") \in BOOLEAN
      OBVIOUS
    <2>3. done \in Relays /\ done.pc = "idle" /\ done.since = 0
      BY <1>6, <2>2 DEF Relays
    <2> HIDE DEF full, done
    <2> QED
      BY <2>1, <2>3 DEF Carries
  <1> HIDE DEF new
  <1>10. tab' \in [Tab -> Relays] /\ tab'[b] = new /\ \A c \in Tab : c # b => tab'[c] = tab[c]
    BY <1>3, <1>8, <1>9 DEF UsageTypes
  <1>11. \A c \in Tab : tab'[c] = tab[c] \/ (tab'[c].pc \notin Carries /\ tab'[c].since = 0)
    BY <1>9, <1>10
  <1> HIDE DEF token
  <1> QED
    BY <1>1, <1>2, <1>4, <1>10, <1>11, AckKeeps

(* An acknowledgement nobody waits for.                                    *)
LEMMA LateAckKeeps ==
  ASSUME UsageInv, NEW token \in acks, LateAck(token)
  PROVE  UsageInv'
  <1>1. PICK r \in Acknowledge(token) : Leaves(r) /\ Use("faults", Cost(r))
    BY DEF LateAck
  <1>2. acks' \subseteq acks /\ tab' = tab /\ collected' = collected /\ hist' = hist
    BY DEF LateAck
  <1>3. \A p \in ToSet(disk.queue) : Within(token, p) => p \in collected
    BY DEF UsageInv, BatchInv
  <1>4. tab' \in [Tab -> Relays]
    BY <1>2 DEF UsageInv, UsageTypes
  <1> QED
    BY <1>1, <1>2, <1>3, <1>4, AckKeeps

(* A relay takes a step of its own.                                        *)
LEMMA RelayStepKeeps ==
  ASSUME UsageInv, NEW b \in Tab, NEW t \in Relays, tab' = [tab EXCEPT ![b] = t],
         UNCHANGED <<disk, mem, acks, budget>>, collected' \subseteq Point, collected \subseteq collected',
         hist' = hist, t.since <= hist.optIns,
         t.pc = "check" /\ t.since = hist.optIns /\ disk.consent = "1" =>
            ToSet(t.batch) \cap hist.out = {},
         t.pc \in Carries =>
            /\ t.batch # <<>> /\ Token(t.batch)[2][2] > budget.points
            /\ \A p \in ToSet(disk.queue) : Within(Token(t.batch), p) => p \in ToSet(t.batch)
            /\ t.pc = "acking" => ToSet(t.batch) \subseteq collected'
  PROVE  UsageInv'
  <1>1. UsageTypes /\ StoreInv /\ ConsentInv /\ BatchInv /\ NothingIsLost
    BY DEF UsageInv
  <1>2. tab' \in [Tab -> Relays] /\ tab'[b] = t /\ \A c \in Tab : c # b => tab'[c] = tab[c]
    BY <1>1 DEF UsageTypes
  <1>3. UsageTypes'
    BY <1>1, <1>2 DEF UsageTypes
  <1>4. StoreInv'
    BY <1>1 DEF StoreInv, Works
  <1>5. ConsentInv'
    <2>1. \A c \in Tab : tab'[c].since <= hist.optIns
      BY <1>1, <1>2 DEF ConsentInv
    <2>2. \A c \in Tab : tab'[c].pc = "check" /\ tab'[c].since = hist.optIns /\ disk.consent = "1" =>
             ToSet(tab'[c].batch) \cap hist.out = {}
      BY <1>1, <1>2 DEF ConsentInv
    <2> QED
      BY <1>1, <2>1, <2>2 DEF ConsentInv
  <1>6. BatchInv'
    <2>1. ASSUME NEW c \in Tab, tab'[c].pc \in Carries
          PROVE  /\ tab'[c].batch # <<>>
                 /\ Token(tab'[c].batch)[2][2] > budget.points
                 /\ \A p \in ToSet(disk.queue) :
                       Within(Token(tab'[c].batch), p) => p \in ToSet(tab'[c].batch)
                 /\ tab'[c].pc = "acking" => ToSet(tab'[c].batch) \subseteq collected'
      <3>1. CASE c = b
        BY <1>2, <2>1, <3>1
      <3>2. CASE c # b
        BY <1>1, <1>2, <2>1, <3>2 DEF BatchInv
      <3> QED
        BY <3>1, <3>2
    <2>2. ASSUME NEW u \in acks
          PROVE  u[2][2] > budget.points /\ \A p \in ToSet(disk.queue) : Within(u, p) => p \in collected'
      BY <1>1 DEF BatchInv
    <2>3. acks' = acks /\ budget' = budget /\ disk' = disk
      OBVIOUS
    <2> QED
      BY <2>1, <2>2, <2>3, Zenon DEF BatchInv, Within, Token
  <1>7. NothingIsLost'
    BY <1>1 DEF NothingIsLost
  <1> QED
    BY <1>3, <1>4, <1>5, <1>6, <1>7 DEF UsageInv

(* A cycle begins.                                                         *)
LEMMA TelemetryTickKeeps ==
  ASSUME UsageInv, NEW b \in Tab, TelemetryTick(b)
  PROVE  UsageInv'
  <1>1. UsageTypes /\ ConsentInv
    BY DEF UsageInv
  <1> DEFINE d == mem.consent = "1" /\ Len(mem.points) > 0
                     /\ (tab[b].draining \/ Len(mem.points) >= Threshold)
             w == IF d THEN "batch" ELSE "idle"
             n == IF d THEN Len(mem.points) ELSE 0
             t == [tab[b] EXCEPT !.draining = d, !.pc = w, !.remaining = n]
  <1>2. /\ tab' = [tab EXCEPT ![b].draining = d, ![b].pc = w, ![b].remaining = n]
        /\ UNCHANGED <<disk, mem, acks, collected, budget, hist>>
    BY DEF TelemetryTick, Rest
  <1>3. tab[b] \in Relays /\ tab \in [Tab -> Relays] /\ Len(mem.points) \in Nat
    BY <1>1 DEF UsageTypes, Stores
  <1>4. w \in {"batch", "idle"} /\ n \in Nat
    BY <1>3
  <1>5. d \in BOOLEAN
    OBVIOUS
  <1> HIDE DEF d, w, n
  <1>6. tab' = [tab EXCEPT ![b] = t]
    BY <1>2, <1>3 DEF Relays
  <1>7. t \in Relays /\ t.pc = w /\ t.since = tab[b].since
    BY <1>3, <1>4, <1>5 DEF Relays
  <1> HIDE DEF t
  <1>8. collected \subseteq Point /\ t.since <= hist.optIns
    BY <1>1, <1>7 DEF UsageTypes, ConsentInv
  <1>9. t.pc \notin Carries /\ t.pc # "check"
    BY <1>4, <1>7 DEF Carries
  <1> QED
    BY <1>2, <1>6, <1>7, <1>8, <1>9, RelayStepKeeps

(* A batch is the front of the queue.                                      *)
LEMMA BatchGives ==
  ASSUME UsageTypes, StoreInv, Works, mem.points # <<>>
  PROVE  /\ Batch \in Seq(Point) /\ Batch # <<>> /\ ToSet(Batch) \subseteq ToSet(disk.queue)
         /\ Token(Batch)[2][2] > budget.points
         /\ \A p \in ToSet(disk.queue) : Within(Token(Batch), p) => p \in ToSet(Batch)
  <1> DEFINE q == disk.queue
             n == Smaller(Len(mem.points), UploadSize)
             s == SubSeq(q, 1, n)
  <1>1. /\ mem.points = q /\ q \in Seq(Point) /\ Ordered(q) /\ Len(q) \in Nat
        /\ DOMAIN q = 1..Len(q) /\ Len(q) > 0
    BY EmptySeq DEF StoreInv, UsageTypes, Files
  <1>2. n \in 1..Len(q) /\ n \in Nat /\ 1 \in Nat \ {0}
    BY <1>1, UsageAssumption DEF Smaller
  <1>3. Batch = s
    BY <1>1 DEF Batch
  <1>4. \A x \in ToSet(q) : x[2] > budget.points
    BY DEF StoreInv
  <1> HIDE DEF q, n
  <1>5. /\ s \in Seq(Point) /\ ToSet(s) \subseteq ToSet(q)
        /\ Len(s) = IF 1 <= n THEN n - 1 + 1 ELSE 0
        /\ \A i \in 1 .. n - 1 + 1 : s[i] = q[1 + i - 1]
    BY <1>1, <1>2, PartOfQueue
  <1> HIDE DEF s
  <1>6. Len(s) = n /\ DOMAIN s = 1..n /\ \A i \in 1..n : s[i] = q[i]
    BY <1>2, <1>5
  <1>7. s # <<>> /\ Head(s) = q[1] /\ s[Len(s)] = q[n]
    BY <1>2, <1>5, <1>6
  <1>8. n \in DOMAIN q /\ q[n] \in ToSet(q)
    BY <1>1, <1>2 DEF ToSet
  <1>9. ASSUME NEW p \in ToSet(q), Within(Token(s), p)
        PROVE  p \in ToSet(s)
    <2>1. PICK j \in DOMAIN q : p = q[j]
      BY DEF ToSet
    <2>2. q[n][2] <= q[j][2]
      BY <1>7, <1>9, <2>1 DEF Within, Token
    <2>3. q[n][2] \in Nat /\ q[j][2] \in Nat
      BY <1>1, <1>8, <2>1, ElementOfSeq DEF Point
    <2>4. ~(n < j)
      BY <1>1, <1>8, <2>1, <2>2, <2>3 DEF Ordered
    <2>5. j \in 1..n
      BY <1>1, <1>2, <2>1, <2>4
    <2> QED
      BY <1>6, <2>1, <2>5 DEF ToSet
  <1>10. Token(s)[2][2] > budget.points
    BY <1>4, <1>7, <1>8 DEF Token
  <1> QED
    BY <1>3, <1>5, <1>7, <1>9, <1>10 DEF q

(* A relay reads its batch.                                                *)
LEMMA GetBatchKeeps ==
  ASSUME UsageInv, NEW b \in Tab, GetBatch(b)
  PROVE  UsageInv'
  <1>1. UsageTypes /\ StoreInv /\ ConsentInv
    BY DEF UsageInv
  <1>2. UNCHANGED <<disk, mem, acks, collected, budget, hist>>
    BY DEF GetBatch, Rest
  <1>3. tab[b] \in Relays /\ tab \in [Tab -> Relays] /\ collected \subseteq Point /\ hist.optIns \in Nat
    BY <1>1 DEF UsageTypes
  <1>4. CASE Works /\ mem.points # <<>>
    <2> DEFINE t == [tab[b] EXCEPT !.pc = "check", !.batch = Batch, !.since = hist.optIns]
    <2>1. /\ Batch \in Seq(Point) /\ Batch # <<>> /\ ToSet(Batch) \subseteq ToSet(disk.queue)
          /\ Token(Batch)[2][2] > budget.points
          /\ \A p \in ToSet(disk.queue) : Within(Token(Batch), p) => p \in ToSet(Batch)
      BY <1>1, <1>4, BatchGives
    <2>2. tab' = [tab EXCEPT ![b] = t]
      BY <1>3, <1>4 DEF GetBatch, Relays
    <2>3. t \in Relays /\ t.pc = "check" /\ t.batch = Batch /\ t.since = hist.optIns
      BY <1>3, <2>1 DEF Relays
    <2> HIDE DEF t
    <2>4. t.since <= hist.optIns
      BY <1>3, <2>3
    <2>5. disk.consent = "1" => ToSet(t.batch) \cap hist.out = {}
      BY <1>1, <2>1, <2>3 DEF ConsentInv
    <2> QED
      BY <1>2, <1>3, <2>1, <2>2, <2>3, <2>4, <2>5, RelayStepKeeps
  <1>5. CASE ~(Works /\ mem.points # <<>>)
    <2> DEFINE t == AtRest(tab[b])
    <2>1. tab' = [tab EXCEPT ![b] = t]
      BY <1>5 DEF GetBatch, StopRelay
    <2>2. t \in Relays /\ t.pc = "idle" /\ t.since = 0
      BY <1>3, RestGives
    <2> HIDE DEF t
    <2>3. t.since <= hist.optIns /\ t.pc \notin Carries /\ t.pc # "check"
      BY <1>3, <2>2 DEF Carries
    <2> QED
      BY <1>2, <1>3, <2>1, <2>2, <2>3, RelayStepKeeps
  <1> QED
    BY <1>4, <1>5

(* While the store works, what a relay sends was not opted out of, unless  *)
(* the user has opted in since it was read.                                *)
LEMMA CheckKeeps ==
  ASSUME UsageInv, NEW b \in Tab, Check(b)
  PROVE  UsageInv'
  <1>1. UsageTypes /\ StoreInv /\ ConsentInv /\ BatchInv
    BY DEF UsageInv
  <1>2. tab[b].pc = "check" /\ UNCHANGED <<disk, mem, acks, collected, budget>>
    BY DEF Check, Rest
  <1>3. tab[b] \in Relays /\ tab \in [Tab -> Relays] /\ collected \subseteq Point /\ hist.optIns \in Nat
    BY <1>1 DEF UsageTypes
  <1>4. CASE Works
    <2> DEFINE t == [tab[b] EXCEPT !.pc = "sent"]
               L == {p \in ToSet(tab[b].batch) \cap hist.out : tab[b].since = hist.optIns}
    <2>1. /\ tab' = [tab EXCEPT ![b].pc = "sent"]
          /\ hist' = [hist EXCEPT !.late = @ \cup L]
      BY <1>4 DEF Check, Send
    <2>2. L = {}
      BY <1>1, <1>2, <1>4 DEF StoreInv, ConsentInv
    <2>3. hist' = hist
      <3> HIDE DEF L
      <3>1. hist.late \cup L = hist.late
        BY <2>2
      <3>2. hist' = [hist EXCEPT !.late = hist.late]
        BY <2>1, <3>1
      <3> QED
        BY <1>1, <3>2 DEF UsageTypes
    <2>4. tab' = [tab EXCEPT ![b] = t]
      BY <1>3, <2>1 DEF Relays
    <2>5. t \in Relays /\ t.pc = "sent" /\ t.since = tab[b].since /\ t.batch = tab[b].batch
      BY <1>3 DEF Relays
    <2> HIDE DEF t, L
    <2>6. t.since <= hist.optIns
      BY <1>1, <2>5 DEF ConsentInv
    <2>7. /\ tab[b].batch # <<>> /\ Token(tab[b].batch)[2][2] > budget.points
          /\ \A p \in ToSet(disk.queue) : Within(Token(tab[b].batch), p) => p \in ToSet(tab[b].batch)
      BY <1>1, <1>2 DEF BatchInv, Carries
    <2> QED
      BY <1>2, <1>3, <2>3, <2>4, <2>5, <2>6, <2>7, RelayStepKeeps
  <1>5. CASE ~Works
    <2> DEFINE d == tab[b].draining /\ mem.error
               t == [AtRest(tab[b]) EXCEPT !.draining = d]
    <2>1. AtRest(tab[b]) \in Relays /\ AtRest(tab[b]).pc = "idle" /\ AtRest(tab[b]).since = 0
          /\ AtRest(tab[b]).draining = tab[b].draining
      BY <1>3, RestGives
    <2>2. /\ tab' = [tab EXCEPT ![b] = [AtRest(tab[b]) EXCEPT !.draining = @ /\ mem.error]]
          /\ hist' = hist
      BY <1>5, Zenon DEF Check
    <2>3. [AtRest(tab[b]) EXCEPT !.draining = @ /\ mem.error] = t
      BY <2>1
    <2>4. d \in BOOLEAN
      OBVIOUS
    <2> HIDE DEF d
    <2>5. t \in Relays /\ t.pc = "idle" /\ t.since = 0
      BY <2>1, <2>4 DEF Relays
    <2>6. tab' = [tab EXCEPT ![b] = t]
      BY <2>2, <2>3
    <2> HIDE DEF t
    <2>7. t.since <= hist.optIns /\ t.pc \notin Carries /\ t.pc # "check"
      BY <1>3, <2>5 DEF Carries
    <2> QED
      BY <1>2, <1>3, <2>2, <2>5, <2>6, <2>7, RelayStepKeeps
  <1> QED
    BY <1>4, <1>5

(* The collector has the batch.                                            *)
LEMMA ReceiveKeeps ==
  ASSUME UsageInv, NEW b \in Tab, Receive(b)
  PROVE  UsageInv'
  <1>1. UsageTypes /\ ConsentInv /\ BatchInv
    BY DEF UsageInv
  <1>2. /\ tab[b].pc = "sent" /\ UNCHANGED <<disk, mem, acks, budget, hist>>
        /\ collected' = collected \cup ToSet(tab[b].batch)
        /\ tab' = [tab EXCEPT ![b].pc = "acking"]
    BY DEF Receive
  <1>3. tab[b] \in Relays /\ tab \in [Tab -> Relays] /\ tab[b].batch \in Seq(Point)
    BY <1>1 DEF UsageTypes, Relays
  <1> DEFINE t == [tab[b] EXCEPT !.pc = "acking"]
  <1>4. tab' = [tab EXCEPT ![b] = t]
    BY <1>2, <1>3 DEF Relays
  <1>5. t \in Relays /\ t.pc = "acking" /\ t.since = tab[b].since /\ t.batch = tab[b].batch
    BY <1>3 DEF Relays
  <1> HIDE DEF t
  <1>6. collected \subseteq collected' /\ collected' \subseteq Point
    BY <1>1, <1>2, <1>3, ElementOfSeq DEF UsageTypes, ToSet
  <1>7. t.since <= hist.optIns
    BY <1>1, <1>5 DEF ConsentInv
  <1>8. /\ tab[b].batch # <<>> /\ Token(tab[b].batch)[2][2] > budget.points
        /\ \A p \in ToSet(disk.queue) : Within(Token(tab[b].batch), p) => p \in ToSet(tab[b].batch)
    BY <1>1, <1>2 DEF BatchInv, Carries
  <1> QED
    BY <1>2, <1>4, <1>5, <1>6, <1>7, <1>8, RelayStepKeeps

(* A request that failed or took too long.                                 *)
LEMMA GiveUpKeeps ==
  ASSUME UsageInv, NEW b \in Tab, GiveUp(b)
  PROVE  UsageInv'
  <1>1. UsageTypes /\ StoreInv /\ ConsentInv /\ BatchInv /\ NothingIsLost
    BY DEF UsageInv
  <1>2. Abandon(b) /\ Use("faults", 1) /\ UNCHANGED <<disk, mem, hist>>
    BY DEF GiveUp
  <1>3. /\ budget' \in [points : Nat, decisions : Nat, faults : Nat]
        /\ budget'.points = budget.points /\ budget.points \in Nat
    BY <1>1, <1>2, UseGives DEF UsageTypes
  <1>4. /\ tab' \in [Tab -> Relays] /\ acks' \subseteq Point \X Point
        /\ tab'[b].pc = "idle" /\ tab'[b].since = 0
        /\ \A c \in Tab : c # b => tab'[c] = tab[c]
        /\ collected \subseteq collected' /\ collected' \subseteq Point
        /\ \A t \in acks' : t \in acks \/ (tab[b].pc = "acking" /\ t = Token(tab[b].batch))
    BY <1>1, <1>2, AbandonGives
  <1>5. UsageTypes'
    BY <1>1, <1>2, <1>3, <1>4 DEF UsageTypes
  <1>6. StoreInv'
    BY <1>1, <1>2, <1>3 DEF StoreInv, Works
  <1>7. ConsentInv'
    <2>1. \A c \in Tab : tab'[c].since <= hist.optIns
      BY <1>1, <1>4 DEF ConsentInv, UsageTypes
    <2>2. \A c \in Tab : tab'[c].pc = "check" => tab'[c] = tab[c]
      BY <1>4
    <2> QED
      BY <1>1, <1>2, <2>1, <2>2 DEF ConsentInv
  <1>8. BatchInv'
    <2>1. \A c \in Tab : tab'[c].pc \in Carries =>
            /\ tab[c].pc \in Carries /\ tab'[c].batch = tab[c].batch
            /\ tab'[c].pc = "acking" => ToSet(tab[c].batch) \subseteq collected'
      BY <1>1, <1>4 DEF BatchInv, Carries
    <2>2. disk' \in Files
      BY <1>1, <1>2 DEF UsageTypes
    <2> QED
      BY <1>2, <1>3, <1>4, <2>1, <2>2, RelayKeeps
  <1>9. NothingIsLost'
    BY <1>1, <1>2, <1>4 DEF NothingIsLost
  <1> QED
    BY <1>5, <1>6, <1>7, <1>8, <1>9 DEF UsageInv

(* The program starts anew, from the files.                                *)
LEMMA DeviceRestartsKeeps ==
  ASSUME UsageInv, DeviceRestarts
  PROVE  UsageInv'
  <1>1. UsageTypes /\ StoreInv /\ ConsentInv /\ BatchInv /\ NothingIsLost
    BY DEF UsageInv
  <1>2. /\ Use("faults", 1) /\ UNCHANGED <<disk, tab, acks, collected, hist>>
        /\ mem' \in {AsLoaded(disk), Unreadable}
    BY DEF DeviceRestarts
  <1>3. /\ budget' \in [points : Nat, decisions : Nat, faults : Nat]
        /\ budget'.points = budget.points /\ budget.points \in Nat
    BY <1>1, <1>2, UseGives DEF UsageTypes
  <1>4. disk \in Files
    BY <1>1 DEF UsageTypes
  <1>5. mem' \in Stores /\ (Works' => disk.consent = "1" /\ mem'.points = disk.queue)
    <2>1. CASE mem' = AsLoaded(disk)
      BY <1>4, <2>1, LoadedGives DEF Works
    <2>2. CASE mem' = Unreadable
      <3>1. <<>> \in Seq(Point)
        OBVIOUS
      <3> QED
        BY <2>2, <3>1 DEF Unreadable, Stores, Works
    <2> QED
      BY <1>2, <2>1, <2>2
  <1>6. UsageTypes'
    BY <1>1, <1>2, <1>3, <1>5 DEF UsageTypes
  <1>7. StoreInv'
    BY <1>1, <1>2, <1>3, <1>5 DEF StoreInv
  <1>8. ConsentInv'
    BY <1>1, <1>2 DEF ConsentInv
  <1>9. BatchInv'
    <2>1. \A c \in Tab : tab'[c].pc \in Carries =>
            /\ tab[c].pc \in Carries /\ tab'[c].batch = tab[c].batch
            /\ tab'[c].pc = "acking" => ToSet(tab[c].batch) \subseteq collected'
      BY <1>1, <1>2 DEF BatchInv
    <2> QED
      BY <1>2, <1>3, <1>4, <2>1, RelayKeeps
  <1>10. NothingIsLost'
    BY <1>1, <1>2 DEF NothingIsLost
  <1> QED
    BY <1>6, <1>7, <1>8, <1>9, <1>10 DEF UsageInv

-----------------------------------------------------------------------------
(* The files may be those of any earlier period.                           *)
LEMMA UsageStarts ==
  ASSUME UsageInit
  PROVE  UsageInv
  <1> DEFINE q == <<<<1, MaxPoints + 1>>>>
  <1>1. /\ disk \in {Asked, [Asked EXCEPT !.legacy = "0"], [Asked EXCEPT !.legacy = "1"],
                     [Asked EXCEPT !.consent = "1", !.id = 1, !.queue = q],
                     [Asked EXCEPT !.consent = "0", !.id = 1, !.queue = q]}
        /\ mem = AsLoaded(disk)
        /\ tab = [b \in Tab |-> [pc |-> "idle", draining |-> FALSE, remaining |-> 0,
                                 batch |-> <<>>, since |-> 0]]
        /\ acks = {} /\ collected = {}
        /\ hist = [ids |-> disk.id, stored |-> ToSet(disk.queue), given |-> {}, late |-> {},
                   out |-> IF disk.consent = "0" THEN ToSet(disk.queue) ELSE {}, optIns |-> 0,
                   erased |-> FALSE]
        /\ budget = [points |-> MaxPoints, decisions |-> MaxDecisions, faults |-> MaxFailures]
    BY DEF UsageInit
  <1>2. MaxPoints \in Nat /\ MaxDecisions \in Nat /\ MaxFailures \in Nat
    BY UsageAssumption
  <1>3. /\ q \in Seq(Point) /\ <<>> \in Seq(Point) /\ ToSet(q) = {<<1, MaxPoints + 1>>}
        /\ Ordered(q) /\ Ordered(<<>>)
    BY <1>2 DEF Point, ToSet, Ordered
  <1> HIDE DEF q
  <1>4. disk \in Files /\ disk.queue \in {q, <<>>}
    <2>1. Asked \in Files /\ Asked.queue = <<>>
      BY <1>3 DEF Asked, Files
    <2>2. ASSUME NEW l \in {"0", "1"}
          PROVE  [Asked EXCEPT !.legacy = l] \in Files /\ [Asked EXCEPT !.legacy = l].queue = <<>>
      BY <2>1 DEF Files
    <2>3. ASSUME NEW c \in {"0", "1"}
          PROVE  /\ [Asked EXCEPT !.consent = c, !.id = 1, !.queue = q] \in Files
                 /\ [Asked EXCEPT !.consent = c, !.id = 1, !.queue = q].queue = q
      BY <1>3, <2>1 DEF Files
    <2> QED
      BY <1>1, <2>1, <2>2, <2>3
  <1>5. ToSet(<<>>) = {}
    BY DEF ToSet
  <1>6. ToSet(disk.queue) \subseteq {<<1, MaxPoints + 1>>} /\ ToSet(disk.queue) \subseteq Point
    BY <1>2, <1>3, <1>4, <1>5 DEF Point
  <1>7. mem \in Stores /\ (Works => disk.consent = "1" /\ mem.points = disk.queue)
    BY <1>1, <1>4, LoadedGives DEF Works
  <1>8. UsageTypes
    <2>1. tab \in [Tab -> Relays]
      BY <1>1, <1>3 DEF Relays
    <2>2. hist \in [ids : Nat, stored : SUBSET Point, given : SUBSET Point, late : SUBSET Point,
                    out : SUBSET Point, optIns : Nat, erased : BOOLEAN]
      BY <1>1, <1>4, <1>6 DEF Files
    <2> QED
      BY <1>1, <1>2, <1>4, <1>7, <2>1, <2>2 DEF UsageTypes
  <1>9. StoreInv
    BY <1>1, <1>2, <1>3, <1>4, <1>6, <1>7 DEF StoreInv
  <1>10. ConsentInv
    BY <1>1 DEF ConsentInv
  <1>11. BatchInv
    BY <1>1 DEF BatchInv, Carries
  <1>12. NothingIsLost
    BY <1>1 DEF NothingIsLost
  <1> QED
    BY <1>8, <1>9, <1>10, <1>11, <1>12 DEF UsageInv

(* Every step keeps the invariant.                                         *)
LEMMA UsageSteps ==
  ASSUME UsageInv, [UsageNext]_usageVars
  PROVE  UsageInv'
  <1>1. CASE UNCHANGED usageVars
    BY <1>1, Zenon DEF UsageInv, UsageTypes, StoreInv, ConsentInv, BatchInv, NothingIsLost,
                       Works, Ordered, Within, Token, usageVars
  <1>2. CASE UsageNext
    BY <1>2, CollectKeeps, ConsentKeeps, AckOfARelayKeeps, LateAckKeeps, TelemetryTickKeeps, GetBatchKeeps,
       CheckKeeps, ReceiveKeeps, GiveUpKeeps, DeviceRestartsKeeps DEF UsageNext
  <1> QED
    BY <1>1, <1>2

(* The invariant is what was to be shown.                                  *)
LEMMA UsageInvImplies ==
  ASSUME UsageInv
  PROVE  PointsAreKept
  <1>1. NothingIsLost
    BY DEF UsageInv
  <1>2. Works => ToSet(mem.points) \cap hist.out = {}
    BY DEF UsageInv, StoreInv, ConsentInv
  <1>3. (hist.erased => disk.queue = <<>> /\ disk.id = 0) /\ hist.late = {}
    BY DEF UsageInv, ConsentInv
  <1> QED
    BY <1>1, <1>2, <1>3 DEF PointsAreKept, ForgottenIsGone

(* No point that append() stored leaves the file before the collector has  *)
(* it, unless the queue gave it up or the user decided anew; and what was  *)
(* opted out of is neither kept nor sent, whatever failed.                 *)
THEOREM PointsStay == UsageSpec => []PointsAreKept
  <1>1. UsageInit => UsageInv
    BY UsageStarts
  <1>2. UsageInv /\ [UsageNext]_usageVars => UsageInv'
    BY UsageSteps
  <1>3. UsageInv => PointsAreKept
    BY UsageInvImplies
  <1> QED
    BY <1>1, <1>2, <1>3, PTL DEF UsageSpec

-----------------------------------------------------------------------------
(* The effects and what is kept of them.                                   *)

(* A table of some of the effects, and a file of all the tables.           *)
Of(T) == UNION {[S -> T] : S \in SUBSET Id}
Line == [type : Type, on : BOOLEAN, gain : Value]
Param == [type : Type, value : Value]
Controlled == SUBSET [control : Control, effect : Id]
MapForm == {m \in [states : Of(Line), cc : Controlled, toggles : Controlled, lights : SUBSET Id] :
              Cardinality(DOMAIN m.states) <= MaxStates}
Writes == [map : MapForm, params : Of(Param)]

EffectForm ==
  /\ live \in Of(EffectType) /\ acked \in Of(EffectType)
  /\ nextId \in Nat \ {0} /\ deleted \subseteq Id
  /\ map \in MapForm /\ cached \in MapForm /\ params \in Of(Param)

EffectInv == EffectForm /\ EffectsAreKept

(* The files say of an effect what they said, and nothing of it is left.   *)
SameAt(m, p, n, q, e) ==
  /\ e \in DOMAIN n.states /\ n.states[e] = m.states[e]
  /\ e \in DOMAIN q <=> e \in DOMAIN p
  /\ e \in DOMAIN p => q[e] = p[e]
Without(m, e) == e \notin DOMAIN m.states \cup m.lights \cup {c.effect : c \in m.cc \cup m.toggles}

(* What a table of some effects is.                                        *)
LEMMA OfIsPartial ==
  ASSUME NEW T, NEW f
  PROVE  f \in Of(T) <=> f \in [DOMAIN f -> T] /\ DOMAIN f \subseteq Id
  BY Zenon DEF Of

(* No effects are a table of effects, of any kind.                         *)
LEMMA NoneIsOf ==
  ASSUME NEW T
  PROVE  <<>> \in Of(T) /\ DOMAIN <<>> = {}
  <1>1. DOMAIN <<>> = {} /\ <<>> \in [{} -> T]
    OBVIOUS
  <1> QED BY <1>1, OfIsPartial

(* A table with one more effect, or another value of one.                  *)
LEMMA SetIsOf ==
  ASSUME NEW T, NEW f \in Of(T), NEW e \in Id, NEW v \in T
  PROVE  Set(f, e, v) \in Of(T)
  <1>1. f \in [DOMAIN f -> T] /\ DOMAIN f \subseteq Id
    BY OfIsPartial
  <1>2. Set(f, e, v) \in [DOMAIN f \cup {e} -> T]
    BY <1>1 DEF Set
  <1> QED BY <1>1, <1>2, OfIsPartial DEF Set

(* A table with one effect less.                                           *)
LEMMA DropIsOf ==
  ASSUME NEW T, NEW f \in Of(T), NEW e
  PROVE  Drop(f, e) \in Of(T)
  <1>1. f \in [DOMAIN f -> T] /\ DOMAIN f \subseteq Id
    BY OfIsPartial
  <1>2. Drop(f, e) \in [DOMAIN f \ {e} -> T]
    BY <1>1 DEF Drop
  <1> QED BY <1>1, <1>2, OfIsPartial DEF Drop

(* The ids in a table are finitely many.                                   *)
LEMMA TablesAreFinite ==
  ASSUME NEW T, NEW f \in Of(T)
  PROVE  IsFiniteSet(DOMAIN f) /\ Cardinality(DOMAIN f) \in Nat
  <1>1. DOMAIN f \subseteq 1..MaxId
    BY OfIsPartial DEF Id
  <1>2. IsFiniteSet(1..MaxId)
    BY FS_Interval, EffectsAssumption
  <1> QED BY <1>1, <1>2, FS_Subset, FS_CardinalityType

(* A file that was truncated is an empty file.                             *)
LEMMA NoMapIsMap ==
  /\ NoMap \in MapForm
  /\ DOMAIN NoMap.states = {} /\ NoMap.lights = {} /\ NoMap.cc = {} /\ NoMap.toggles = {}
  <1>1. <<>> \in Of(Line) /\ DOMAIN <<>> = {} /\ Cardinality({}) = 0
    BY NoneIsOf, FS_EmptySet
  <1>2. NoMap.states = <<>> /\ NoMap.lights = {} /\ NoMap.cc = {} /\ NoMap.toggles = {}
    BY DEF NoMap
  <1>3. NoMap \in [states : Of(Line), cc : Controlled, toggles : Controlled, lights : SUBSET Id]
    BY <1>1 DEF NoMap, Controlled
  <1>4. Cardinality(DOMAIN NoMap.states) <= MaxStates
    BY <1>1, <1>2, EffectsAssumption
  <1> QED BY <1>1, <1>2, <1>3, <1>4 DEF MapForm

(* What the files say of an effect is what is loaded.                      *)
LEMMA LoadedAtOne ==
  ASSUME NEW m, NEW p, NEW e \in DOMAIN m.states
  PROVE  LoadedEffects(m, p)[e] =
           [type |-> m.states[e].type, on |-> m.states[e].on,
            value |-> IF e \in DOMAIN p /\ p[e].type = m.states[e].type THEN p[e].value
                      ELSE IF m.states[e].type = "gain" THEN m.states[e].gain ELSE 1]
  BY DEF LoadedEffects

(* The effects that are loaded are those of the file.                      *)
LEMMA LoadedIsOf ==
  ASSUME NEW m \in MapForm, NEW p \in Of(Param)
  PROVE  /\ LoadedEffects(m, p) \in Of(EffectType)
         /\ DOMAIN LoadedEffects(m, p) = DOMAIN m.states
  <1> DEFINE f == LoadedEffects(m, p)
  <1>1. m.states \in [DOMAIN m.states -> Line] /\ DOMAIN m.states \subseteq Id
    <2>1. m.states \in Of(Line)
      BY DEF MapForm
    <2> QED BY <2>1, OfIsPartial
  <1>2. p \in [DOMAIN p -> Param]
    BY OfIsPartial
  <1>3. DOMAIN f = DOMAIN m.states /\ f = [e \in DOMAIN f |-> f[e]]
    BY DEF LoadedEffects
  <1>4. ASSUME NEW e \in DOMAIN m.states PROVE f[e] \in EffectType
    <2>1. /\ m.states[e].type \in Type /\ m.states[e].on \in BOOLEAN
          /\ m.states[e].gain \in Value
      BY <1>1 DEF Line
    <2>2. e \in DOMAIN p => p[e].value \in Value
      BY <1>2 DEF Param
    <2> DEFINE v == IF e \in DOMAIN p /\ p[e].type = m.states[e].type THEN p[e].value
                    ELSE IF m.states[e].type = "gain" THEN m.states[e].gain ELSE 1
    <2>3. v \in Value
      BY <2>1, <2>2, EffectsAssumption
    <2>4. f[e] = [type |-> m.states[e].type, on |-> m.states[e].on, value |-> v]
      BY LoadedAtOne
    <2> HIDE DEF v, f
    <2> QED BY <2>1, <2>3, <2>4 DEF EffectType
  <1>5. f \in [DOMAIN f -> EffectType]
    BY <1>3, <1>4
  <1> QED BY <1>1, <1>3, <1>5, OfIsPartial

(* As long as the files say the same of an effect, so does what is loaded. *)
LEMMA LoadedTheSame ==
  ASSUME NEW m, NEW p, NEW n, NEW q, NEW e \in DOMAIN m.states, SameAt(m, p, n, q, e)
  PROVE  e \in DOMAIN n.states /\ LoadedEffects(n, q)[e] = LoadedEffects(m, p)[e]
  <1>1. e \in DOMAIN n.states /\ n.states[e] = m.states[e]
    BY DEF SameAt
  <1> DEFINE ValueOf(r) == IF e \in DOMAIN r /\ r[e].type = m.states[e].type THEN r[e].value
                           ELSE IF m.states[e].type = "gain" THEN m.states[e].gain ELSE 1
             Is(r) == [type |-> m.states[e].type, on |-> m.states[e].on, value |-> ValueOf(r)]
  <1>2. LoadedEffects(m, p)[e] = Is(p)
    BY LoadedAtOne
  <1>3. LoadedEffects(n, q)[e] = Is(q)
    BY <1>1, LoadedAtOne
  <1>4. ValueOf(p) = ValueOf(q)
    BY DEF SameAt
  <1> HIDE DEF ValueOf
  <1> QED BY <1>1, <1>2, <1>3, <1>4

-----------------------------------------------------------------------------
(* Writing, whatever it is that is written.                                *)

(* What is written is on the disk: what is said to be saved must be what   *)
(* it says, or what the files said before and still do.                    *)
LEMMA SavesKeep ==
  ASSUME EffectInv, NEW w \in Writes, NEW ok \in Of(EffectType),
         map' = w.map, params' = w.params, acked' = ok,
         cached' \in MapForm, live' \in Of(EffectType), nextId' \in Nat \ {0}, deleted' \subseteq Id,
         \A x \in DOMAIN ok :
           \/ x \in DOMAIN acked /\ ok[x] = acked[x] /\ SameAt(map, params, w.map, w.params, x)
           \/ x \in DOMAIN w.map.states /\ LoadedEffects(w.map, w.params)[x] = ok[x],
         \A x \in deleted' : /\ x \notin DOMAIN live' \cup DOMAIN w.params
                             /\ Without(w.map, x) /\ Without(cached', x)
  PROVE  EffectInv'
  <1>1. w.map \in MapForm /\ w.params \in Of(Param)
    BY DEF Writes
  <1>2. EffectForm'
    BY <1>1 DEF EffectForm
  <1>3. ASSUME NEW x \in DOMAIN acked'
        PROVE  x \in DOMAIN map'.states /\ LoadedEffects(map', params')[x] = acked'[x]
    <2>1. CASE x \in DOMAIN acked /\ ok[x] = acked[x] /\ SameAt(map, params, w.map, w.params, x)
      <3>1. x \in DOMAIN map.states /\ LoadedEffects(map, params)[x] = acked[x]
        BY <2>1 DEF EffectInv, EffectsAreKept, SavedComesBack
      <3>2. x \in DOMAIN w.map.states /\ LoadedEffects(w.map, w.params)[x] = LoadedEffects(map, params)[x]
        BY <2>1, <3>1, LoadedTheSame
      <3> QED BY <2>1, <3>1, <3>2
    <2>2. CASE x \in DOMAIN w.map.states /\ LoadedEffects(w.map, w.params)[x] = ok[x]
      BY <2>2
    <2> QED BY <1>3, <2>1, <2>2
  <1>4. SavedComesBack'
    BY <1>3 DEF SavedComesBack
  <1>5. DeletedLeavesNothing'
    BY DEF DeletedLeavesNothing, Without
  <1> QED BY <1>2, <1>4, <1>5 DEF EffectInv, EffectsAreKept

(* A write that fails leaves each file as it was, as it was to be, or      *)
(* empty; what is then said to be saved is what either says.               *)
LEMMA FailsKeep ==
  ASSUME EffectInv, NEW w \in Writes, NEW bad \in Of(EffectType), WriteFails(w, bad),
         live' \in Of(EffectType), nextId' \in Nat \ {0}, deleted' \subseteq deleted,
         \A x \in DOMAIN bad : x \in DOMAIN acked /\ bad[x] = acked[x]
                               /\ SameAt(map, params, w.map, w.params, x),
         \A x \in deleted' : x \notin DOMAIN live' \cup DOMAIN w.params /\ Without(w.map, x)
  PROVE  EffectInv'
  <1>1. /\ w.map \in MapForm /\ w.params \in Of(Param)
        /\ NoMap \in MapForm /\ <<>> \in Of(Param) /\ <<>> \in Of(EffectType) /\ DOMAIN <<>> = {}
    BY NoMapIsMap, NoneIsOf DEF Writes
  <1>2. /\ map' \in {map, NoMap, w.map} /\ params' \in {params, <<>>, w.params} /\ cached' = cached
        /\ acked' = <<>> \/ /\ acked' = bad
                            /\ map' \in {map, w.map} /\ params' \in {params, w.params}
    BY Zenon DEF WriteFails
  <1>3. EffectForm'
    BY <1>1, <1>2 DEF EffectForm, EffectInv
  <1>4. ASSUME NEW x \in DOMAIN acked'
        PROVE  x \in DOMAIN map'.states /\ LoadedEffects(map', params')[x] = acked'[x]
    <2>1. /\ acked' = bad /\ x \in DOMAIN acked /\ bad[x] = acked[x]
          /\ map' \in {map, w.map} /\ params' \in {params, w.params}
          /\ SameAt(map, params, w.map, w.params, x)
      BY <1>1, <1>2, <1>4
    <2>2. x \in DOMAIN map.states /\ LoadedEffects(map, params)[x] = acked[x]
      BY <2>1 DEF EffectInv, EffectsAreKept, SavedComesBack
    <2>3. SameAt(map, params, map', params', x)
      BY <2>1, <2>2 DEF SameAt
    <2>4. x \in DOMAIN map'.states /\ LoadedEffects(map', params')[x] = LoadedEffects(map, params)[x]
      BY <2>2, <2>3, LoadedTheSame
    <2> QED BY <2>1, <2>2, <2>4
  <1>5. SavedComesBack'
    BY <1>4 DEF SavedComesBack
  <1>6. ASSUME NEW x \in deleted'
        PROVE  /\ x \notin DOMAIN live' \cup DOMAIN params'
               /\ Without(map', x) /\ Without(cached', x)
    <2>1. x \notin DOMAIN params /\ Without(map, x) /\ Without(cached, x)
      BY <1>6 DEF EffectInv, EffectsAreKept, DeletedLeavesNothing, Without
    <2>2. Without(NoMap, x)
      BY NoMapIsMap DEF Without
    <2> QED BY <1>1, <1>2, <1>6, <2>1, <2>2
  <1>7. DeletedLeavesNothing'
    BY <1>6 DEF DeletedLeavesNothing, Without
  <1> QED BY <1>3, <1>5, <1>7 DEF EffectInv, EffectsAreKept

(* A request that is answered, one way or the other.                       *)
LEMMA AnswerKeeps ==
  ASSUME EffectInv, NEW w \in Writes, NEW ok \in Of(EffectType), NEW bad \in Of(EffectType),
         Answer(w, ok, bad),
         live' \in Of(EffectType), nextId' \in Nat \ {0}, deleted' \subseteq deleted,
         \A x \in DOMAIN ok :
           \/ x \in DOMAIN acked /\ ok[x] = acked[x] /\ SameAt(map, params, w.map, w.params, x)
           \/ x \in DOMAIN w.map.states /\ LoadedEffects(w.map, w.params)[x] = ok[x],
         \A x \in DOMAIN bad : x \in DOMAIN acked /\ bad[x] = acked[x]
                               /\ SameAt(map, params, w.map, w.params, x),
         \A x \in deleted' : x \notin DOMAIN live' \cup DOMAIN w.params /\ Without(w.map, x)
  PROVE  EffectInv'
  <1>1. CASE WriteFails(w, bad)
    BY <1>1, FailsKeep
  <1>2. CASE Saves(w, ok)
    <2>1. map' = w.map /\ params' = w.params /\ cached' = w.map /\ acked' = ok
      BY <1>2 DEF Saves
    <2>2. w.map \in MapForm /\ deleted' \subseteq Id
      BY DEF Writes, EffectInv, EffectForm
    <2> QED BY <2>1, <2>2, SavesKeep
  <1> QED BY <1>1, <1>2 DEF Answer

-----------------------------------------------------------------------------
(* The parts of what the requests write.                                   *)

(* A file with another table of states.                                    *)
LEMMA StatesReplaced ==
  ASSUME NEW m \in MapForm, NEW f \in Of(Line), Cardinality(DOMAIN f) <= MaxStates
  PROVE  LET n == [m EXCEPT !.states = f]
         IN  n \in MapForm /\ n.states = f /\ n.cc = m.cc /\ n.toggles = m.toggles /\ n.lights = m.lights
  BY DEF MapForm

(* The table is within its limit with an effect it had, or had room for.   *)
LEMMA RoomForOne ==
  ASSUME NEW f \in Of(Line), NEW e \in Id, NEW v \in Line, Cardinality(DOMAIN f) <= MaxStates,
         e \in DOMAIN f \/ Cardinality(DOMAIN f) < MaxStates
  PROVE  Cardinality(DOMAIN Set(f, e, v)) <= MaxStates
  <1>1. IsFiniteSet(DOMAIN f) /\ Cardinality(DOMAIN f) \in Nat /\ MaxStates \in Nat
    BY TablesAreFinite, EffectsAssumption
  <1>2. DOMAIN Set(f, e, v) = DOMAIN f \cup {e}
    BY DEF Set
  <1>3. Cardinality(DOMAIN f \cup {e}) = IF e \in DOMAIN f THEN Cardinality(DOMAIN f)
                                          ELSE Cardinality(DOMAIN f) + 1
    BY <1>1, FS_AddElement
  <1> QED BY <1>1, <1>2, <1>3

(* upsertEffectStateFromRuntime: the effect as it runs, or nothing of it.  *)
LEMMA UpsertIsRight ==
  ASSUME EffectForm, NEW e \in Id, NEW x \in EffectType, NEW w, w = Upsert(e, x)
  PROVE  /\ w \in Writes
         /\ e \in DOMAIN w.map.states => LoadedEffects(w.map, w.params)[e] = x
         /\ \A y : y # e /\ y \in DOMAIN map.states => SameAt(map, params, w.map, w.params, y)
         /\ \A y : y # e /\ Without(map, y) => Without(w.map, y)
         /\ \A y : y # e /\ y \notin DOMAIN params => y \notin DOMAIN w.params
  <1>1. map \in MapForm /\ params \in Of(Param) /\ map.states \in Of(Line)
        /\ Cardinality(DOMAIN map.states) <= MaxStates
    BY DEF EffectForm, MapForm
  <1>2. CASE e \notin DOMAIN map.states /\ Cardinality(DOMAIN map.states) >= MaxStates
    <2>1. w = [map |-> map, params |-> params]
      BY <1>2 DEF Upsert
    <2> QED BY <1>1, <1>2, <2>1 DEF Writes, SameAt
  <1>3. CASE ~(e \notin DOMAIN map.states /\ Cardinality(DOMAIN map.states) >= MaxStates)
    <2> DEFINE S == Set(map.states, e, StateLine(x))
               P == Set(params, e, [type |-> x.type, value |-> x.value])
               N == [map EXCEPT !.states = S]
    <2>1. w = [map |-> N, params |-> P]
      BY <1>3 DEF Upsert
    <2>2. x.type \in Type /\ x.on \in BOOLEAN /\ x.value \in Value
          /\ x = [type |-> x.type, on |-> x.on, value |-> x.value]
      BY DEF EffectType
    <2>3. StateLine(x) \in Line /\ StateLine(x).type = x.type /\ StateLine(x).on = x.on
      BY <2>2, EffectsAssumption DEF StateLine, Line
    <2>4. [type |-> x.type, value |-> x.value] \in Param
      BY <2>2 DEF Param
    <2>5. /\ S \in Of(Line) /\ DOMAIN S = DOMAIN map.states \cup {e} /\ S[e] = StateLine(x)
          /\ \A y \in DOMAIN map.states : y # e => S[y] = map.states[y]
      <3>1. S \in Of(Line)
        BY <1>1, <2>3, SetIsOf
      <3> QED BY <3>1 DEF Set
    <2>6. /\ P \in Of(Param) /\ DOMAIN P = DOMAIN params \cup {e}
          /\ P[e] = [type |-> x.type, value |-> x.value]
          /\ \A y \in DOMAIN params : y # e => P[y] = params[y]
      <3>1. P \in Of(Param)
        BY <1>1, <2>4, SetIsOf
      <3> QED BY <3>1 DEF Set
    <2>7. Cardinality(DOMAIN S) <= MaxStates
      <3>1. Cardinality(DOMAIN map.states) \in Nat /\ MaxStates \in Nat
        BY <1>1, TablesAreFinite, EffectsAssumption
      <3>2. e \in DOMAIN map.states \/ Cardinality(DOMAIN map.states) < MaxStates
        BY <1>3, <3>1
      <3> QED BY <1>1, <2>3, <3>2, RoomForOne
    <2>8. N \in MapForm /\ N.states = S /\ N.cc = map.cc /\ N.toggles = map.toggles
          /\ N.lights = map.lights
      <3> HIDE DEF S
      <3> QED BY <1>1, <2>5, <2>7, StatesReplaced
    <2> HIDE DEF S, P, N
    <2>9. w.map = N /\ w.params = P /\ w \in Writes
      BY <2>1, <2>6, <2>8 DEF Writes
    <2>10. LoadedEffects(N, P)[e] = x
      <3>1. e \in DOMAIN N.states /\ e \in DOMAIN P /\ N.states[e] = StateLine(x)
            /\ P[e].type = x.type /\ P[e].value = x.value
        BY <2>5, <2>6, <2>8
      <3>2. LoadedEffects(N, P)[e] = [type |-> x.type, on |-> x.on, value |-> x.value]
        BY <2>3, <3>1, LoadedAtOne
      <3> QED BY <2>2, <3>2
    <2>11. ASSUME NEW y, y # e, y \in DOMAIN map.states PROVE SameAt(map, params, N, P, y)
      BY <2>5, <2>6, <2>8, <2>11 DEF SameAt
    <2>12. ASSUME NEW y, y # e, Without(map, y) PROVE Without(N, y)
      BY <2>5, <2>8, <2>12 DEF Without
    <2>13. ASSUME NEW y, y # e, y \notin DOMAIN params PROVE y \notin DOMAIN P
      BY <2>6, <2>13
    <2> QED BY <2>9, <2>10, <2>11, <2>12, <2>13
  <1> QED BY <1>2, <1>3

(* A request that saves an effect as it runs from now on.                  *)
LEMMA UpsertKeeps ==
  ASSUME EffectInv, NEW e \in Id, NEW x \in EffectType, NEW w, w = Upsert(e, x),
         Answer(w, Told(w, e), Drop(acked, e)),
         live' \in Of(EffectType), live'[e] = x, DOMAIN live' \subseteq DOMAIN live \cup {e},
         nextId' \in Nat \ {0}, deleted' \subseteq deleted \ {e}
  PROVE  EffectInv'
  <1>1. EffectForm /\ acked \in Of(EffectType)
    BY DEF EffectInv, EffectForm
  <1> DEFINE bad == Drop(acked, e)
             all == Set(acked, e, x)
             ok == Told(w, e)
  <1>2. /\ w \in Writes
        /\ e \in DOMAIN w.map.states => LoadedEffects(w.map, w.params)[e] = x
        /\ \A y : y # e /\ y \in DOMAIN map.states => SameAt(map, params, w.map, w.params, y)
        /\ \A y : y # e /\ Without(map, y) => Without(w.map, y)
        /\ \A y : y # e /\ y \notin DOMAIN params => y \notin DOMAIN w.params
    BY <1>1, UpsertIsRight
  <1>3. bad \in Of(EffectType) /\ \A y \in DOMAIN bad : y # e /\ y \in DOMAIN acked /\ bad[y] = acked[y]
    <2>1. bad \in Of(EffectType)
      BY <1>1, DropIsOf
    <2> QED BY <2>1 DEF Drop
  <1>4. /\ all \in Of(EffectType) /\ all[e] = x
        /\ \A y \in DOMAIN all : y # e => y \in DOMAIN acked /\ all[y] = acked[y]
    <2>1. all \in Of(EffectType)
      BY <1>1, SetIsOf
    <2> QED BY <2>1 DEF Set
  <1>5. ok = IF e \in DOMAIN w.map.states THEN all ELSE bad
    BY DEF Told
  <1>6. \A y \in DOMAIN acked : y \in DOMAIN map.states
    BY DEF EffectInv, EffectsAreKept, SavedComesBack
  <1> HIDE DEF all, bad, ok
  <1>7. ok \in Of(EffectType)
    BY <1>3, <1>4, <1>5
  <1>8. ASSUME NEW y \in DOMAIN ok
        PROVE  \/ y \in DOMAIN acked /\ ok[y] = acked[y] /\ SameAt(map, params, w.map, w.params, y)
               \/ y \in DOMAIN w.map.states /\ LoadedEffects(w.map, w.params)[y] = ok[y]
    <2>1. CASE y = e
      BY <1>2, <1>3, <1>4, <1>5, <1>8, <2>1
    <2>2. CASE y # e
      <3>1. y \in DOMAIN acked /\ ok[y] = acked[y]
        BY <1>3, <1>4, <1>5, <1>8, <2>2
      <3> QED BY <1>2, <1>6, <2>2, <3>1
    <2> QED BY <2>1, <2>2
  <1>9. \A y \in DOMAIN bad : y \in DOMAIN acked /\ bad[y] = acked[y]
                              /\ SameAt(map, params, w.map, w.params, y)
    BY <1>2, <1>3, <1>6
  <1>10. ASSUME NEW y \in deleted'
         PROVE  y \notin DOMAIN live' \cup DOMAIN w.params /\ Without(w.map, y)
    <2>1. y # e /\ y \notin DOMAIN live \cup DOMAIN params /\ Without(map, y)
      BY <1>10 DEF EffectInv, EffectsAreKept, DeletedLeavesNothing, Without
    <2> QED BY <1>2, <2>1
  <1>11. Answer(w, ok, bad) /\ deleted' \subseteq deleted
    BY DEF ok, bad
  <1> QED BY <1>2, <1>3, <1>7, <1>8, <1>9, <1>10, <1>11, AnswerKeeps

-----------------------------------------------------------------------------
(* The requests on effects.                                                *)

(* createEffect: the next id, the defaults of the type.                    *)
LEMMA CreateKeeps ==
  ASSUME EffectInv, NEW type \in Type, Create(type)
  PROVE  EffectInv'
  <1> DEFINE e == nextId
             x == Default(type)
             w == Upsert(e, x)
  <1>1. /\ live \in Of(EffectType) /\ nextId \in Nat \ {0} /\ deleted \subseteq Id
        /\ nextId <= MaxId /\ MaxId \in Nat
    BY EffectsAssumption DEF EffectInv, EffectForm, Create
  <1>2. /\ live' = Set(live, e, x) /\ nextId' = nextId + 1 /\ deleted' = deleted \ {e}
        /\ Answer(w, Told(w, e), Drop(acked, e))
    BY DEF Create
  <1>3. e \in Id
    BY <1>1 DEF Id
  <1>4. x \in EffectType
    BY EffectsAssumption DEF Default, EffectType
  <1>5. w = Upsert(e, x) /\ nextId' \in Nat \ {0} /\ deleted' \subseteq deleted \ {e}
    BY <1>1, <1>2
  <1> HIDE DEF e, x, w
  <1>6. live' \in Of(EffectType)
    BY <1>1, <1>2, <1>3, <1>4, SetIsOf
  <1>7. live'[e] = x /\ DOMAIN live' \subseteq DOMAIN live \cup {e}
    BY <1>2 DEF Set
  <1> QED BY <1>2, <1>3, <1>4, <1>5, <1>6, <1>7, UpsertKeeps

(* An effect that has been changed is an effect.                           *)
LEMMA ChangedIsEffect ==
  ASSUME NEW x \in EffectType, NEW type \in Type \cup {"keep"}, NEW on \in {"keep", "0", "1"},
         NEW value \in Value \cup {0}
  PROVE  Changed(x, type, on, value) \in EffectType
  <1> DEFINE t == IF type = "keep" THEN x ELSE [Default(type) EXCEPT !.on = x.on]
             b == IF on = "keep" THEN t ELSE [t EXCEPT !.on = (on = "1")]
  <1>1. t \in EffectType
    BY EffectsAssumption DEF Default, EffectType
  <1>2. b \in EffectType
    <2> HIDE DEF t
    <2> QED BY <1>1 DEF EffectType
  <1>3. value # 0 => [b EXCEPT !.value = value] \in EffectType
    <2> HIDE DEF b
    <2> QED BY <1>2 DEF EffectType
  <1>4. Changed(x, type, on, value) = IF value = 0 THEN b ELSE [b EXCEPT !.value = value]
    BY DEF Changed
  <1> HIDE DEF b
  <1> QED BY <1>2, <1>3, <1>4

(* setEffectType, setEffectEnabled, setEffectParam.                        *)
LEMMA EffectSetKeeps ==
  ASSUME EffectInv, NEW e \in DOMAIN live, EffectSet(e)
  PROVE  EffectInv'
  <1>1. /\ live \in [DOMAIN live -> EffectType] /\ DOMAIN live \subseteq Id /\ e \in Id
        /\ nextId \in Nat \ {0} /\ e \notin deleted
    <2>1. live \in Of(EffectType) /\ nextId \in Nat \ {0}
      BY DEF EffectInv, EffectForm
    <2>2. e \notin deleted
      BY DEF EffectInv, EffectsAreKept, DeletedLeavesNothing
    <2> QED BY <2>1, <2>2, OfIsPartial
  <1>2. PICK type \in Type \cup {"keep"}, on \in {"keep", "0", "1"}, value \in Value \cup {0} :
          /\ live' = [live EXCEPT ![e] = Changed(live[e], type, on, value)]
          /\ LET w == Upsert(e, live'[e]) IN Answer(w, Told(w, e), Drop(acked, e))
          /\ UNCHANGED <<nextId, deleted>>
    BY DEF EffectSet
  <1> DEFINE x == Changed(live[e], type, on, value)
             w == Upsert(e, x)
  <1>3. x \in EffectType
    BY <1>1, ChangedIsEffect
  <1>4. live' = [live EXCEPT ![e] = x] /\ nextId' = nextId /\ deleted' = deleted
    BY <1>2
  <1>5. live'[e] = x /\ DOMAIN live' = DOMAIN live /\ live' \in [DOMAIN live' -> EffectType]
    <2> HIDE DEF x
    <2> QED BY <1>1, <1>3, <1>4
  <1>6. Answer(w, Told(w, e), Drop(acked, e))
    BY <1>2, <1>5
  <1>7. live' \in Of(EffectType)
    BY <1>1, <1>5, OfIsPartial
  <1>8. w = Upsert(e, x)
    OBVIOUS
  <1>9. nextId' \in Nat \ {0} /\ deleted' \subseteq deleted \ {e}
    BY <1>1, <1>4
  <1>10. live'[e] = x /\ DOMAIN live' \subseteq DOMAIN live \cup {e}
    BY <1>5
  <1> HIDE DEF x, w
  <1> QED BY <1>1, <1>3, <1>6, <1>7, <1>8, <1>9, <1>10, UpsertKeeps

(* handleEffectName: an effect that was not saved is saved now.            *)
LEMMA EffectNameKeeps ==
  ASSUME EffectInv, NEW e \in DOMAIN live, EffectName(e)
  PROVE  EffectInv'
  <1>1. /\ EffectForm /\ live \in Of(EffectType) /\ acked \in Of(EffectType)
        /\ map \in MapForm /\ params \in Of(Param) /\ nextId \in Nat \ {0} /\ e \notin deleted
    BY DEF EffectInv, EffectForm, EffectsAreKept, DeletedLeavesNothing
  <1>2. e \in Id /\ live[e] \in EffectType
    BY <1>1, OfIsPartial
  <1>3. live' = live /\ nextId' = nextId /\ deleted' = deleted
    BY DEF EffectName
  <1>4. \A y \in DOMAIN acked : y \in DOMAIN map.states
    BY DEF EffectInv, EffectsAreKept, SavedComesBack
  <1>5. \A y \in deleted : y # e /\ y \notin DOMAIN live \cup DOMAIN params /\ Without(map, y)
    BY <1>1 DEF EffectInv, EffectsAreKept, DeletedLeavesNothing, Without
  <1>6. CASE e \in DOMAIN map.states
    <2> DEFINE w == Tables(map)
    <2>1. Answer(w, acked, acked)
      BY <1>6 DEF EffectName
    <2>2. w.map = map /\ w.params = params /\ w \in Writes
      BY <1>1 DEF Tables, Writes
    <2>3. \A y \in DOMAIN acked : SameAt(map, params, w.map, w.params, y)
      BY <1>4, <2>2 DEF SameAt
    <2> HIDE DEF w
    <2> QED BY <1>1, <1>3, <1>5, <2>1, <2>2, <2>3, AnswerKeeps
  <1>7. CASE e \notin DOMAIN map.states
    <2> DEFINE x == live[e]
               w == Upsert(e, x)
               ok == Set(acked, e, x)
    <2>1. Answer(w, ok, acked) /\ e \in DOMAIN w.map.states
      BY <1>7 DEF EffectName
    <2>2. w = Upsert(e, x) /\ x \in EffectType
      BY <1>2
    <2>3. ok \in Of(EffectType)
      BY <1>1, <1>2, SetIsOf
    <2>4. ok[e] = x /\ \A y \in DOMAIN ok : y # e => y \in DOMAIN acked /\ ok[y] = acked[y]
      BY DEF Set
    <2> HIDE DEF x, w, ok
    <2>5. /\ w \in Writes
          /\ e \in DOMAIN w.map.states => LoadedEffects(w.map, w.params)[e] = x
          /\ \A y : y # e /\ y \in DOMAIN map.states => SameAt(map, params, w.map, w.params, y)
          /\ \A y : y # e /\ Without(map, y) => Without(w.map, y)
          /\ \A y : y # e /\ y \notin DOMAIN params => y \notin DOMAIN w.params
      BY <1>1, <1>2, <2>2, UpsertIsRight
    <2>6. \A y \in DOMAIN acked : SameAt(map, params, w.map, w.params, y)
      BY <1>4, <1>7, <2>5
    <2>7. ASSUME NEW y \in DOMAIN ok
          PROVE  \/ y \in DOMAIN acked /\ ok[y] = acked[y] /\ SameAt(map, params, w.map, w.params, y)
                 \/ y \in DOMAIN w.map.states /\ LoadedEffects(w.map, w.params)[y] = ok[y]
      <3>1. CASE y = e
        BY <2>1, <2>4, <2>5, <3>1
      <3>2. CASE y # e
        BY <2>4, <2>6, <2>7, <3>2
      <3> QED BY <3>1, <3>2
    <2>8. \A y \in deleted' : y \notin DOMAIN live' \cup DOMAIN w.params /\ Without(w.map, y)
      BY <1>3, <1>5, <2>5
    <2> QED BY <1>1, <1>3, <2>1, <2>3, <2>5, <2>6, <2>7, <2>8, AnswerKeeps
  <1> QED BY <1>6, <1>7

(* handleEffectDelete: nothing of it is left in what is written, and the   *)
(* others are as they were.                                                *)
LEMMA EffectDeleteKeeps ==
  ASSUME EffectInv, NEW e \in DOMAIN live, EffectDelete(e)
  PROVE  EffectInv'
  <1>1. /\ live \in Of(EffectType) /\ acked \in Of(EffectType) /\ cached \in MapForm
        /\ map \in MapForm /\ params \in Of(Param) /\ nextId \in Nat \ {0} /\ deleted \subseteq Id
    BY DEF EffectInv, EffectForm
  <1>2. map.states \in Of(Line) /\ Cardinality(DOMAIN map.states) <= MaxStates
        /\ map.cc \in Controlled /\ map.toggles \in Controlled /\ map.lights \subseteq Id
    BY <1>1 DEF MapForm
  <1> DEFINE S == Drop(map.states, e)
             N == Forget(map, e)
             P == Drop(params, e)
             w == [map |-> N, params |-> P]
             bad == Drop(acked, e)
  <1>3. S \in Of(Line) /\ P \in Of(Param) /\ bad \in Of(EffectType) /\ Drop(live, e) \in Of(EffectType)
    BY <1>1, <1>2, DropIsOf
  <1>4. /\ DOMAIN S = DOMAIN map.states \ {e} /\ \A y \in DOMAIN S : S[y] = map.states[y]
        /\ DOMAIN P = DOMAIN params \ {e} /\ \A y \in DOMAIN P : P[y] = params[y]
        /\ DOMAIN bad = DOMAIN acked \ {e} /\ \A y \in DOMAIN bad : bad[y] = acked[y]
        /\ DOMAIN Drop(live, e) = DOMAIN live \ {e}
    BY DEF Drop
  <1>5. /\ N.states = S /\ N.cc = {c \in map.cc : c.effect # e}
        /\ N.toggles = {t \in map.toggles : t.effect # e} /\ N.lights = map.lights \ {e}
        /\ N = [states |-> N.states, cc |-> N.cc, toggles |-> N.toggles, lights |-> N.lights]
    BY DEF Forget
  <1>6. w.map = N /\ w.params = P
    OBVIOUS
  <1>7. Drop(live, e) = live' /\ nextId' = nextId
        /\ \/ Saves(w, bad) /\ deleted' = deleted \cup {e}
           \/ WriteFails(w, bad) /\ deleted' = deleted
    BY DEF EffectDelete
  <1>8. w = [map |-> N, params |-> P]
    OBVIOUS
  <1>9. Cardinality(DOMAIN S) <= MaxStates
    <2>1. IsFiniteSet(DOMAIN map.states) /\ Cardinality(DOMAIN map.states) \in Nat
          /\ Cardinality(DOMAIN S) \in Nat
      BY <1>2, <1>3, TablesAreFinite
    <2>2. Cardinality(DOMAIN S) <= Cardinality(DOMAIN map.states)
      BY <1>4, <2>1, FS_Subset
    <2> QED BY <1>2, <2>1, <2>2, EffectsAssumption
  <1> HIDE DEF S, N, P, w, bad
  <1>10. N \in MapForm
    <2>1. N.states \in Of(Line) /\ N.cc \in Controlled /\ N.toggles \in Controlled /\ N.lights \in SUBSET Id
      BY <1>2, <1>3, <1>5 DEF Controlled
    <2>2. N \in [states : Of(Line), cc : Controlled, toggles : Controlled, lights : SUBSET Id]
      BY <1>5, <2>1
    <2> QED BY <1>5, <1>9, <2>2 DEF MapForm
  <1>11. w \in Writes
    BY <1>3, <1>8, <1>10 DEF Writes
  <1>12. ASSUME NEW y \in DOMAIN bad
         PROVE  y \in DOMAIN acked /\ bad[y] = acked[y] /\ SameAt(map, params, w.map, w.params, y)
    <2>1. y \in DOMAIN acked /\ y # e /\ y \in DOMAIN map.states
      BY <1>4, <1>12 DEF EffectInv, EffectsAreKept, SavedComesBack
    <2> QED BY <1>4, <1>5, <1>6, <1>12, <2>1 DEF SameAt
  <1>13. ASSUME NEW y \in deleted \cup {e}
         PROVE  y \notin DOMAIN live' \cup DOMAIN w.params /\ Without(w.map, y)
    <2>1. y = e \/ (y \notin DOMAIN live \cup DOMAIN params /\ Without(map, y))
      BY <1>13 DEF EffectInv, EffectsAreKept, DeletedLeavesNothing, Without
    <2> QED BY <1>4, <1>5, <1>6, <1>7, <2>1 DEF Without
  <1>14. CASE WriteFails(w, bad) /\ deleted' = deleted
    BY <1>1, <1>3, <1>7, <1>11, <1>12, <1>13, <1>14, FailsKeep
  <1>15. CASE Saves(w, bad) /\ deleted' = deleted \cup {e}
    <2>1. map' = w.map /\ params' = w.params /\ cached' = w.map /\ acked' = bad
      BY <1>15 DEF Saves
    <2>2. e \in Id
      BY <1>1, OfIsPartial
    <2> QED BY <1>1, <1>3, <1>6, <1>7, <1>10, <1>11, <1>12, <1>13, <1>15, <2>1, <2>2, SavesKeep
  <1> QED BY <1>7, <1>14, <1>15

-----------------------------------------------------------------------------
(* The requests on the controls.                                           *)

(* A request that edits one of the other tables: the states stay, and      *)
(* nothing of a deleted effect comes back.                                 *)
LEMMA ControlsKeep ==
  ASSUME EffectInv, NEW m \in MapForm, m.states = map.states, NEW g \in SUBSET deleted,
         Controls(m, g), \A y \in g : Without(m, y)
  PROVE  EffectInv'
  <1> DEFINE w == Tables(m)
  <1>1. /\ live \in Of(EffectType) /\ acked \in Of(EffectType) /\ params \in Of(Param)
        /\ nextId \in Nat \ {0}
    BY DEF EffectInv, EffectForm
  <1>2. Answer(w, acked, acked) /\ live' = live /\ nextId' = nextId /\ deleted' = g
    BY DEF Controls
  <1>3. w.map = m /\ w.params = params /\ w \in Writes
    BY <1>1 DEF Tables, Writes
  <1>4. \A y \in DOMAIN acked : SameAt(map, params, w.map, w.params, y)
    BY <1>3 DEF SameAt, EffectInv, EffectsAreKept, SavedComesBack
  <1>5. \A y \in deleted' : y \notin DOMAIN live' \cup DOMAIN w.params /\ Without(w.map, y)
    BY <1>2, <1>3 DEF EffectInv, EffectsAreKept, DeletedLeavesNothing
  <1> HIDE DEF w
  <1> QED BY <1>1, <1>2, <1>3, <1>4, <1>5, AnswerKeeps

(* The file, and that no deleted effect is in it.                          *)
LEMMA MapIsClean ==
  ASSUME EffectInv
  PROVE  /\ map \in MapForm
         /\ map.cc \in Controlled /\ map.toggles \in Controlled /\ map.lights \subseteq Id
         /\ \A y \in deleted : Without(map, y)
  BY DEF EffectInv, EffectForm, MapForm, EffectsAreKept, DeletedLeavesNothing, Without

(* A control that is given to an effect, where there is room for it.       *)
LEMMA BoundIsControlled ==
  ASSUME NEW table \in Controlled, NEW control \in Control, NEW e \in Id
  PROVE  /\ Bound(table, control, e) \in Controlled
         /\ \A c \in Bound(table, control, e) : c \in table \/ c.effect = e
  BY DEF Bound, Controlled

(* A control that is taken from what it was given to.                      *)
LEMMA UnboundIsControlled ==
  ASSUME NEW table \in Controlled, NEW control
  PROVE  Unbound(table, control) \in Controlled /\ Unbound(table, control) \subseteq table
  BY DEF Unbound, Controlled

(* The file with another table of each kind.                               *)
LEMMA TableReplaced ==
  ASSUME NEW m \in MapForm, NEW table \in Controlled, NEW lights \in SUBSET Id
  PROVE  /\ LET n == [m EXCEPT !.cc = table]
            IN  n \in MapForm /\ n.states = m.states /\ n.cc = table /\ n.toggles = m.toggles
                /\ n.lights = m.lights
         /\ LET n == [m EXCEPT !.toggles = table]
            IN  n \in MapForm /\ n.states = m.states /\ n.cc = m.cc /\ n.toggles = table
                /\ n.lights = m.lights
         /\ LET n == [m EXCEPT !.lights = lights]
            IN  n \in MapForm /\ n.states = m.states /\ n.cc = m.cc /\ n.toggles = m.toggles
                /\ n.lights = lights
  BY DEF MapForm

(* handleEffectMidiCcSet: it asks for an effect that runs, so that it is   *)
(* none that was deleted.                                                  *)
LEMMA CcSetKeeps ==
  ASSUME EffectInv, NEW control \in Control, NEW e \in Id, CcSet(control, e)
  PROVE  EffectInv'
  <1> DEFINE table == Bound(map.cc, control, e)
             m == [map EXCEPT !.cc = table]
  <1>1. e \notin deleted
    BY DEF CcSet, EffectInv, EffectsAreKept, DeletedLeavesNothing
  <1>2. table \in Controlled /\ \A c \in table : c \in map.cc \/ c.effect = e
    BY MapIsClean, BoundIsControlled
  <1>3. Controls(m, deleted)
    BY DEF CcSet
  <1> HIDE DEF table
  <1>4. /\ m \in MapForm /\ m.states = map.states /\ m.cc = table /\ m.toggles = map.toggles
        /\ m.lights = map.lights
    BY <1>2, MapIsClean, TableReplaced
  <1> HIDE DEF m
  <1>5. \A y \in deleted : Without(m, y)
    BY <1>1, <1>2, <1>4, MapIsClean DEF Without
  <1> QED BY <1>3, <1>4, <1>5, ControlsKeep

(* handleEffectMidiToggleSet: the effect need not run; it is not thought   *)
(* of as deleted any more.                                                 *)
LEMMA ToggleSetKeeps ==
  ASSUME EffectInv, NEW control \in Control, NEW e \in Id, ToggleSet(control, e)
  PROVE  EffectInv'
  <1> DEFINE table == Bound(map.toggles, control, e)
             m == [map EXCEPT !.toggles = table]
  <1>1. table \in Controlled /\ \A c \in table : c \in map.toggles \/ c.effect = e
    BY MapIsClean, BoundIsControlled
  <1>2. Controls(m, deleted \ {e})
    BY DEF ToggleSet
  <1> HIDE DEF table
  <1>3. /\ m \in MapForm /\ m.states = map.states /\ m.cc = map.cc /\ m.toggles = table
        /\ m.lights = map.lights
    BY <1>1, MapIsClean, TableReplaced
  <1> HIDE DEF m
  <1>4. \A y \in deleted \ {e} : Without(m, y)
    BY <1>1, <1>3, MapIsClean DEF Without
  <1> QED BY <1>2, <1>3, <1>4, ControlsKeep

(* handleEffectMidiLightSet, likewise.                                     *)
LEMMA LightSetKeeps ==
  ASSUME EffectInv, NEW e \in Id, LightSet(e)
  PROVE  EffectInv'
  <1> DEFINE rest == map.lights \ {e}
             lights == IF Cardinality(rest) < MaxMappings THEN rest \cup {e} ELSE rest
             m == [map EXCEPT !.lights = lights]
  <1>1. lights \in SUBSET Id /\ \A y \in lights : y \in map.lights \/ y = e
    BY MapIsClean
  <1>2. Controls(m, deleted \ {e})
    BY DEF LightSet
  <1> HIDE DEF lights
  <1>3. /\ m \in MapForm /\ m.states = map.states /\ m.cc = map.cc /\ m.toggles = map.toggles
        /\ m.lights = lights
    BY <1>1, MapIsClean, TableReplaced
  <1> HIDE DEF m
  <1>4. \A y \in deleted \ {e} : Without(m, y)
    BY <1>1, <1>3, MapIsClean DEF Without
  <1> QED BY <1>2, <1>3, <1>4, ControlsKeep

(* The three requests that remove a control.                               *)
LEMMA DeletesKeep ==
  ASSUME EffectInv, NEW control, NEW e,
         \/ control \in Control /\ (CcDelete(control) \/ ToggleDelete(control))
         \/ e \in Id /\ LightDelete(e)
  PROVE  EffectInv'
  <1>1. CASE control \in Control /\ CcDelete(control)
    <2> DEFINE table == Unbound(map.cc, control)
               m == [map EXCEPT !.cc = table]
    <2>1. table \in Controlled /\ table \subseteq map.cc
      BY <1>1, MapIsClean, UnboundIsControlled
    <2>2. Controls(m, deleted)
      BY <1>1 DEF CcDelete
    <2> HIDE DEF table
    <2>3. /\ m \in MapForm /\ m.states = map.states /\ m.cc = table /\ m.toggles = map.toggles
          /\ m.lights = map.lights
      BY <2>1, MapIsClean, TableReplaced
    <2> HIDE DEF m
    <2>4. \A y \in deleted : Without(m, y)
      BY <2>1, <2>3, MapIsClean DEF Without
    <2> QED BY <2>2, <2>3, <2>4, ControlsKeep
  <1>2. CASE control \in Control /\ ToggleDelete(control)
    <2> DEFINE table == Unbound(map.toggles, control)
               m == [map EXCEPT !.toggles = table]
    <2>1. table \in Controlled /\ table \subseteq map.toggles
      BY <1>2, MapIsClean, UnboundIsControlled
    <2>2. Controls(m, deleted)
      BY <1>2 DEF ToggleDelete
    <2> HIDE DEF table
    <2>3. /\ m \in MapForm /\ m.states = map.states /\ m.cc = map.cc /\ m.toggles = table
          /\ m.lights = map.lights
      BY <2>1, MapIsClean, TableReplaced
    <2> HIDE DEF m
    <2>4. \A y \in deleted : Without(m, y)
      BY <2>1, <2>3, MapIsClean DEF Without
    <2> QED BY <2>2, <2>3, <2>4, ControlsKeep
  <1>3. CASE e \in Id /\ LightDelete(e)
    <2> DEFINE lights == map.lights \ {e}
               m == [map EXCEPT !.lights = lights]
    <2>1. lights \in SUBSET Id /\ lights \subseteq map.lights
      BY MapIsClean
    <2>2. Controls(m, deleted)
      BY <1>3 DEF LightDelete
    <2> HIDE DEF lights
    <2>3. /\ m \in MapForm /\ m.states = map.states /\ m.cc = map.cc /\ m.toggles = map.toggles
          /\ m.lights = lights
      BY <2>1, MapIsClean, TableReplaced
    <2> HIDE DEF m
    <2>4. \A y \in deleted : Without(m, y)
      BY <2>1, <2>3, MapIsClean DEF Without
    <2> QED BY <2>2, <2>3, <2>4, ControlsKeep
  <1> QED BY <1>1, <1>2, <1>3

-----------------------------------------------------------------------------
(* The controller, scripts and restarts.                                   *)

(* persistEffectBypass: the bypass of an effect that is saved, and nothing *)
(* else of it; or an effect that was not saved yet.                        *)
LEMMA BypassKeeps ==
  ASSUME EffectInv, NEW e \in DOMAIN live, NEW x \in EffectType, PersistBypass(e, x),
         live' \in Of(EffectType), DOMAIN live' = DOMAIN live, nextId' = nextId, deleted' = deleted
  PROVE  EffectInv'
  <1> DEFINE new == e \notin DOMAIN map.states
             room == e \in DOMAIN map.states \/ Cardinality(DOMAIN map.states) < MaxStates
             line == IF e \in DOMAIN map.states THEN [map.states[e] EXCEPT !.on = x.on] ELSE StateLine(x)
             S == Set(map.states, e, line)
             N == [map EXCEPT !.states = S]
             w == Tables(N)
             ok == IF e \in DOMAIN acked THEN [acked EXCEPT ![e].on = x.on] ELSE acked
             bad == Drop(acked, e)
  <1>1. /\ live \in Of(EffectType) /\ acked \in Of(EffectType) /\ cached \in MapForm
        /\ map \in MapForm /\ params \in Of(Param) /\ nextId \in Nat \ {0} /\ deleted \subseteq Id
        /\ map.states \in Of(Line) /\ Cardinality(DOMAIN map.states) <= MaxStates
    BY DEF EffectInv, EffectForm, MapForm
  <1>2. /\ e \in Id /\ acked \in [DOMAIN acked -> EffectType] /\ DOMAIN acked \subseteq Id
        /\ map.states \in [DOMAIN map.states -> Line] /\ e \notin deleted
    BY <1>1, OfIsPartial DEF EffectInv, EffectsAreKept, DeletedLeavesNothing
  <1>3. \A y \in DOMAIN acked : y \in DOMAIN map.states /\ LoadedEffects(map, params)[y] = acked[y]
    BY DEF EffectInv, EffectsAreKept, SavedComesBack
  <1>4. \A y \in deleted : y # e /\ y \notin DOMAIN live \cup DOMAIN params /\ Without(map, y)
                           /\ Without(cached, y)
    BY <1>2 DEF EffectInv, EffectsAreKept, DeletedLeavesNothing, Without
  <1>5. \/ room /\ map' = w.map /\ params' = w.params /\ acked' = ok /\ cached' = cached
        \/ room /\ WriteFails(w, bad)
        \/ map' = map /\ params' = params /\ acked' = acked /\ cached' = cached
    BY DEF PersistBypass
  <1>6. /\ line \in Line /\ line.on = x.on
        /\ ~new => line.type = map.states[e].type /\ line.gain = map.states[e].gain
    <2>1. CASE new
      BY <2>1, EffectsAssumption DEF StateLine, EffectType, Line
    <2>2. CASE ~new
      BY <1>2, <2>2 DEF EffectType, Line
    <2> QED BY <2>1, <2>2
  <1>7. CASE map' = map /\ params' = params /\ acked' = acked /\ cached' = cached
    <2>1. EffectForm'
      BY <1>1, <1>7 DEF EffectForm
    <2>2. SavedComesBack'
      BY <1>3, <1>7 DEF SavedComesBack
    <2>3. DeletedLeavesNothing'
      BY <1>4, <1>7 DEF DeletedLeavesNothing, Without
    <2> QED BY <2>1, <2>2, <2>3 DEF EffectInv, EffectsAreKept
  <1>8. ok \in Of(EffectType) /\ DOMAIN ok = DOMAIN acked /\ \A y \in DOMAIN ok : y # e => ok[y] = acked[y]
    <2>1. CASE e \in DOMAIN acked
      <3>1. [acked[e] EXCEPT !.on = x.on] \in EffectType
        BY <1>2, <2>1 DEF EffectType
      <3>2. ok = [acked EXCEPT ![e] = [acked[e] EXCEPT !.on = x.on]]
        BY <2>1
      <3> HIDE DEF ok
      <3>3. DOMAIN ok = DOMAIN acked /\ ok \in [DOMAIN ok -> EffectType]
            /\ \A y \in DOMAIN ok : y # e => ok[y] = acked[y]
        BY <1>2, <3>1, <3>2
      <3> QED BY <1>2, <3>3, OfIsPartial
    <2>2. CASE e \notin DOMAIN acked
      BY <1>1, <2>2
    <2> QED BY <2>1, <2>2
  <1>9. e \in DOMAIN acked => ok[e] = [type |-> acked[e].type, on |-> x.on, value |-> acked[e].value]
    <2>1. SUFFICES ASSUME e \in DOMAIN acked
                   PROVE  ok[e] = [type |-> acked[e].type, on |-> x.on, value |-> acked[e].value]
      OBVIOUS
    <2>2. ok[e] = [acked[e] EXCEPT !.on = x.on]
      BY <1>2, <2>1
    <2>3. acked[e] \in EffectType
      BY <1>2, <2>1
    <2> HIDE DEF ok
    <2> QED BY <2>2, <2>3 DEF EffectType
  <1>10. bad \in Of(EffectType)
    BY <1>1, DropIsOf
  <1>11. \A y \in DOMAIN bad : y # e /\ y \in DOMAIN acked /\ bad[y] = acked[y]
    BY DEF Drop
  <1>12. S \in Of(Line)
    <2> HIDE DEF line
    <2>1. line \in Line /\ map.states \in Of(Line) /\ e \in Id
      BY <1>1, <1>2, <1>6
    <2> QED BY ONLY <2>1, SetIsOf
  <1>13. DOMAIN S = DOMAIN map.states \cup {e} /\ S[e] = line
         /\ \A y \in DOMAIN map.states : y # e => S[y] = map.states[y]
    <2> HIDE DEF line
    <2> QED BY DEF Set
  <1>14. room => Cardinality(DOMAIN S) <= MaxStates
    <2> HIDE DEF line
    <2>1. line \in Line /\ map.states \in Of(Line) /\ e \in Id
      BY <1>1, <1>2, <1>6
    <2>2. Cardinality(DOMAIN map.states) <= MaxStates
      BY <1>1
    <2> QED BY ONLY <2>1, <2>2, RoomForOne
  <1> HIDE DEF S
  <1>15. room => N \in MapForm /\ N.states = S /\ N.cc = map.cc /\ N.toggles = map.toggles
                 /\ N.lights = map.lights
    BY <1>1, <1>12, <1>14, StatesReplaced
  <1> HIDE DEF line, N, ok, bad
  <1>16. w.map = N /\ w.params = params /\ (room => w \in Writes)
    BY <1>1, <1>15 DEF Tables, Writes
  <1> HIDE DEF w
  <1>17. \A y \in DOMAIN acked : y # e /\ room => SameAt(map, params, w.map, w.params, y)
    BY <1>3, <1>13, <1>15, <1>16 DEF SameAt
  <1>18. room => \A y \in deleted' : y \notin DOMAIN live' \cup DOMAIN w.params /\ Without(w.map, y)
    BY <1>4, <1>13, <1>15, <1>16 DEF Without
  <1>19. CASE room /\ WriteFails(w, bad)
    BY <1>1, <1>10, <1>11, <1>16, <1>17, <1>18, <1>19, FailsKeep
  <1>20. CASE room /\ map' = w.map /\ params' = w.params /\ acked' = ok /\ cached' = cached
    <2>1. ASSUME NEW y \in DOMAIN ok
          PROVE  \/ y \in DOMAIN acked /\ ok[y] = acked[y] /\ SameAt(map, params, w.map, w.params, y)
                 \/ y \in DOMAIN w.map.states /\ LoadedEffects(w.map, w.params)[y] = ok[y]
      <3>1. CASE y # e
        BY <1>8, <1>17, <1>20, <2>1, <3>1
      <3>2. CASE y = e
        <4> DEFINE s == map.states[e]
                   v == IF e \in DOMAIN params /\ params[e].type = s.type THEN params[e].value
                        ELSE IF s.type = "gain" THEN s.gain ELSE 1
        <4>1. e \in DOMAIN acked /\ e \in DOMAIN map.states /\ LoadedEffects(map, params)[e] = acked[e]
          BY <1>3, <1>8, <2>1, <3>2
        <4>2. LoadedEffects(map, params)[e] = [type |-> s.type, on |-> s.on, value |-> v]
          BY <4>1, LoadedAtOne
        <4>3. e \in DOMAIN w.map.states /\ w.map.states[e] = line /\ w.params = params
          BY <1>13, <1>15, <1>16, <1>20
        <4>4. LoadedEffects(w.map, w.params)[e] =
                [type |-> line.type, on |-> line.on,
                 value |-> IF e \in DOMAIN params /\ params[e].type = line.type THEN params[e].value
                           ELSE IF line.type = "gain" THEN line.gain ELSE 1]
          BY <4>3, LoadedAtOne
        <4>5. LoadedEffects(w.map, w.params)[e] = [type |-> s.type, on |-> x.on, value |-> v]
          <5>1. line.type = s.type /\ line.gain = s.gain /\ line.on = x.on
            BY <1>6, <4>1
          <5> HIDE DEF s
          <5> QED BY <4>4, <5>1
        <4> HIDE DEF v, s
        <4>6. acked[e].type = s.type /\ acked[e].value = v
          BY <4>1, <4>2
        <4> QED BY <1>9, <3>2, <4>1, <4>3, <4>5, <4>6
      <3> QED BY <3>1, <3>2
    <2>2. \A y \in deleted' : /\ y \notin DOMAIN live' \cup DOMAIN w.params
                              /\ Without(w.map, y) /\ Without(cached', y)
      BY <1>4, <1>18, <1>20
    <2> QED BY <1>1, <1>8, <1>16, <1>20, <2>1, <2>2, SavesKeep
  <1> QED BY <1>5, <1>7, <1>19, <1>20

(* A pad that switches an effect.                                          *)
LEMMA PadTogglesKeeps ==
  ASSUME EffectInv, NEW t \in cached.toggles, PadToggles(t)
  PROVE  EffectInv'
  <1> DEFINE e == t.effect
             x == [live[e] EXCEPT !.on = ~@]
  <1>1. live \in [DOMAIN live -> EffectType] /\ DOMAIN live \subseteq Id
    BY OfIsPartial DEF EffectInv, EffectForm
  <1>2. e \in DOMAIN live /\ live' = [live EXCEPT ![e] = x] /\ nextId' = nextId /\ deleted' = deleted
        /\ PersistBypass(e, live'[e])
    BY DEF PadToggles
  <1>3. x \in EffectType
    BY <1>1, <1>2 DEF EffectType
  <1> HIDE DEF e, x
  <1>4. live'[e] = x /\ DOMAIN live' = DOMAIN live /\ live' \in [DOMAIN live' -> EffectType]
    BY <1>1, <1>2, <1>3
  <1>5. live' \in Of(EffectType)
    BY <1>1, <1>4, OfIsPartial
  <1> QED BY <1>2, <1>3, <1>4, <1>5, BypassKeeps

(* A knob or a script: no file hears of it.                                *)
LEMMA RuntimeOnlyKeeps ==
  ASSUME EffectInv, NEW e \in DOMAIN live, NEW v \in Value, RuntimeOnly(e, v)
  PROVE  EffectInv'
  <1> DEFINE x == [live[e] EXCEPT !.value = v]
  <1>1. live \in [DOMAIN live -> EffectType] /\ DOMAIN live \subseteq Id
    BY OfIsPartial DEF EffectInv, EffectForm
  <1>2. live' = [live EXCEPT ![e] = x]
        /\ UNCHANGED <<nextId, map, params, cached, acked, deleted>>
    BY DEF RuntimeOnly
  <1>3. x \in EffectType
    BY <1>1 DEF EffectType
  <1> HIDE DEF x
  <1>4. DOMAIN live' = DOMAIN live /\ live' \in [DOMAIN live' -> EffectType]
    BY <1>1, <1>2, <1>3
  <1>5. live' \in Of(EffectType)
    BY <1>1, <1>4, OfIsPartial
  <1>6. EffectForm'
    BY <1>2, <1>5 DEF EffectInv, EffectForm
  <1>7. SavedComesBack'
    BY <1>2 DEF EffectInv, EffectsAreKept, SavedComesBack
  <1>8. DeletedLeavesNothing'
    BY <1>2, <1>4 DEF EffectInv, EffectsAreKept, DeletedLeavesNothing
  <1> QED BY <1>6, <1>7, <1>8 DEF EffectInv, EffectsAreKept

(* The greatest id of a table, for the next one to be given.               *)
LEMMA BiggestIsNat ==
  ASSUME NEW S \in SUBSET Id
  PROVE  Biggest(S) \in Nat
  <1>1. CASE S = {}
    BY <1>1 DEF Biggest
  <1>2. CASE S # {}
    <2> DEFINE rest == {MaxId - n : n \in S}
    <2>1. MaxId \in Nat /\ \A n \in S : n \in Nat /\ n <= MaxId
      BY EffectsAssumption DEF Id
    <2>2. rest \in SUBSET Nat /\ rest # {}
      BY <1>2, <2>1
    <2>3. PICK r \in rest : \A q \in rest : r <= q
      <3> HIDE DEF rest
      <3> QED BY <2>2, LeastNatural
    <2>4. PICK n \in S : r = MaxId - n
      BY <2>3
    <2>5. \A m \in S : m <= n
      BY <2>1, <2>3, <2>4
    <2>6. Biggest(S) \in S
      BY <1>2, <2>5 DEF Biggest
    <2> QED BY <2>1, <2>6
  <1> QED BY <1>1, <1>2

(* A restart: what runs is what is saved.                                  *)
LEMMA StartAgainKeeps ==
  ASSUME EffectInv, StartAgain
  PROVE  EffectInv'
  <1>1. map \in MapForm /\ params \in Of(Param) /\ map.states \in Of(Line)
    BY DEF EffectInv, EffectForm, MapForm
  <1>2. /\ live' = LoadedEffects(map, params) /\ cached' = map
        /\ nextId' = Biggest(DOMAIN map.states) + 1
        /\ UNCHANGED <<map, params, acked, deleted>>
    BY DEF StartAgain
  <1>3. live' \in Of(EffectType) /\ DOMAIN live' = DOMAIN map.states
    BY <1>1, <1>2, LoadedIsOf
  <1>4. nextId' \in Nat \ {0}
    <2>1. DOMAIN map.states \subseteq Id
      BY <1>1, OfIsPartial
    <2>2. Biggest(DOMAIN map.states) \in Nat
      BY <2>1, BiggestIsNat
    <2> QED BY <1>2, <2>2
  <1>5. EffectForm'
    BY <1>2, <1>3, <1>4 DEF EffectInv, EffectForm
  <1>6. SavedComesBack'
    BY <1>2 DEF EffectInv, EffectsAreKept, SavedComesBack
  <1>7. DeletedLeavesNothing'
    BY <1>2, <1>3 DEF EffectInv, EffectsAreKept, DeletedLeavesNothing
  <1> QED BY <1>5, <1>6, <1>7 DEF EffectInv, EffectsAreKept

-----------------------------------------------------------------------------
(* Every step.                                                             *)

(* Nothing is saved at first.                                              *)
LEMMA EffectInit == EffectsInit => EffectInv
  <1> SUFFICES ASSUME EffectsInit PROVE EffectInv
    OBVIOUS
  <1>1. /\ live = <<>> /\ nextId = 1 /\ map = NoMap /\ params = <<>> /\ cached = NoMap
        /\ acked = <<>> /\ deleted = {}
    BY DEF EffectsInit
  <1>2. /\ <<>> \in Of(EffectType) /\ <<>> \in Of(Param) /\ DOMAIN <<>> = {} /\ NoMap \in MapForm
    BY NoneIsOf, NoMapIsMap
  <1>3. EffectForm
    BY <1>1, <1>2 DEF EffectForm
  <1>4. SavedComesBack /\ DeletedLeavesNothing
    BY <1>1, <1>2 DEF SavedComesBack, DeletedLeavesNothing
  <1> QED BY <1>3, <1>4 DEF EffectInv, EffectsAreKept

(* Every step keeps what was saved and what was deleted.                   *)
LEMMA EffectStep == EffectInv /\ [EffectsNext]_effectVars => EffectInv'
  <1> SUFFICES ASSUME EffectInv, [EffectsNext]_effectVars PROVE EffectInv'
    OBVIOUS
  <1>1. ASSUME NEW type \in Type, Create(type) PROVE EffectInv'
    BY <1>1, CreateKeeps
  <1>2. ASSUME NEW e \in DOMAIN live, EffectSet(e) \/ EffectName(e) \/ EffectDelete(e)
        PROVE  EffectInv'
    BY <1>2, EffectSetKeeps, EffectNameKeeps, EffectDeleteKeeps
  <1>3. ASSUME NEW c \in Control, CcDelete(c) \/ ToggleDelete(c) PROVE EffectInv'
    BY <1>3, DeletesKeep
  <1>4. ASSUME NEW c \in Control, NEW e \in Id, CcSet(c, e) \/ ToggleSet(c, e) PROVE EffectInv'
    BY <1>4, CcSetKeeps, ToggleSetKeeps
  <1>5. ASSUME NEW e \in Id, LightSet(e) \/ LightDelete(e) PROVE EffectInv'
    BY <1>5, LightSetKeeps, DeletesKeep
  <1>6. CASE StartAgain
    BY <1>6, StartAgainKeeps
  <1>7. ASSUME NEW t \in cached.toggles, PadToggles(t) PROVE EffectInv'
    BY <1>7, PadTogglesKeeps
  <1>8. ASSUME NEW c \in cached.cc, NEW v \in Value, Knob(c, v) PROVE EffectInv'
    BY <1>8, RuntimeOnlyKeeps DEF Knob
  <1>9. ASSUME NEW e \in DOMAIN live, NEW v \in Value, ScriptSets(e, v) PROVE EffectInv'
    BY <1>9, RuntimeOnlyKeeps DEF ScriptSets
  <1>10. CASE UNCHANGED effectVars
    BY <1>10 DEF effectVars, EffectInv, EffectForm, EffectsAreKept, SavedComesBack, DeletedLeavesNothing
  <1> QED BY <1>1, <1>2, <1>3, <1>4, <1>5, <1>6, <1>7, <1>8, <1>9, <1>10 DEF EffectsNext, Request

(* An effect that a request saved comes back as the request said, and one  *)
(* that was deleted leaves nothing in the runtime, the files and the       *)
(* controller's copy: for any number of effects, controls and values, any  *)
(* size of the tables, and any order of requests, failures and restarts.   *)
THEOREM EffectsStay == EffectsSpec => []EffectsAreKept
  <1>1. EffectInv => EffectsAreKept
    BY DEF EffectInv
  <1> QED BY <1>1, EffectInit, EffectStep, PTL DEF EffectsSpec

(* The effects, the tables and the next id keep their types and limits.    *)
THEOREM EffectsKeepType == EffectsSpec => []EffectsTyped
  <1>1. EffectInv => EffectsTyped
    <2> SUFFICES ASSUME EffectInv PROVE EffectsTyped
      OBVIOUS
    <2>1. /\ live \in Of(EffectType) /\ acked \in Of(EffectType) /\ params \in Of(Param)
          /\ nextId \in Nat \ {0} /\ deleted \subseteq Id /\ map \in MapForm /\ cached \in MapForm
      BY DEF EffectInv, EffectForm
    <2>2. /\ live \in [DOMAIN live -> EffectType] /\ DOMAIN live \subseteq Id
          /\ acked \in [DOMAIN acked -> EffectType] /\ DOMAIN acked \subseteq Id
          /\ DOMAIN params \subseteq Id
      BY <2>1, OfIsPartial
    <2>3. ASSUME NEW m \in MapForm
          PROVE  /\ Cardinality(DOMAIN m.states) <= MaxStates
                 /\ \A t \in {m.cc, m.toggles} : t \subseteq [control : Control, effect : Id]
                 /\ m.lights \subseteq Id
      BY DEF MapForm, Controlled
    <2> QED BY <2>1, <2>2, <2>3 DEF EffectsTyped
  <1> QED BY <1>1, EffectInit, EffectStep, PTL DEF EffectsSpec
=============================================================================
