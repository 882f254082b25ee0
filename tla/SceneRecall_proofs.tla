-------------------------- MODULE SceneRecall_proofs --------------------------
(***************************************************************************)
(* SceneRecall, for every set of setups, every length of the fade and all  *)
(* bounds: effects, gains and routing are exchanged in silence, the mute   *)
(* handshake is never confused by an old answer of a recall that went      *)
(* well, and the audio thread never goes back to an older graph.  What is  *)
(* heard is one setup, and the files hold the one that is heard.  Before   *)
(* that the mailbox by itself: it hands over whole graphs only, and        *)
(* implements the register LatestGraph, since three slots have three       *)
(* owners however publishers and audio thread interleave.                  *)
(***************************************************************************)
EXTENDS SceneRecall, TLAPS

-----------------------------------------------------------------------------
(* The mailbox                                                             *)

(* The publishers' slot, and no other, is half written, and only while a   *)
(* graph is being copied in; between two reads the consumer's copy is its  *)
(* slot.                                                                   *)
IInv ==
  /\ MailboxTypeOK
  /\ back # middle.slot /\ back # front /\ middle.slot # front
  /\ \A i \in Slot : slots[i] = NoGraph => i = back /\ writing # NoGraph
  /\ out \in Graphs

(* The slots start as three whole graphs with three owners.                *)
LEMMA InitEstablishes == MailboxInit => IInv
  <1> SUFFICES ASSUME MailboxInit PROVE IInv
    OBVIOUS
  <1> USE GraphsAssumption DEF Slot
  <1>1. MailboxTypeOK
    <2>1. slots \in [Slot -> Graphs \cup {NoGraph}]
      BY DEF MailboxInit
    <2>2. middle \in [slot : Slot, fresh : BOOLEAN]
      BY DEF MailboxInit
    <2>3. back \in Slot /\ front \in Slot
      BY DEF MailboxInit
    <2> QED BY <2>1, <2>2, <2>3 DEF MailboxInit, MailboxTypeOK
  <1>2. \A i \in Slot : slots[i] # NoGraph
    BY DEF MailboxInit
  <1> QED BY <1>1, <1>2 DEF MailboxInit, IInv

(* Writing into the publishers' slot leaves the other two alone.           *)
LEMMA BeginPublishKeeps ==
  ASSUME IInv, NEW g \in Graphs, BeginPublish(g)
  PROVE  IInv'
  <1> USE GraphsAssumption
  <1>1. MailboxTypeOK'
    BY DEF IInv, MailboxTypeOK, BeginPublish
  <1>2. \A i \in Slot : slots'[i] = NoGraph => i = back' /\ writing' # NoGraph
    BY DEF IInv, MailboxTypeOK, BeginPublish
  <1> QED BY <1>1, <1>2 DEF IInv, BeginPublish

(* The slot that is given away is whole; the one taken was nobody else's.  *)
LEMMA EndPublishKeeps ==
  ASSUME IInv, EndPublish
  PROVE  IInv'
  <1> USE GraphsAssumption
  <1>1. MailboxTypeOK'
    BY DEF IInv, MailboxTypeOK, EndPublish
  <1>2. \A i \in Slot : slots'[i] # NoGraph
    BY DEF IInv, MailboxTypeOK, EndPublish
  <1>3. back' # middle'.slot /\ back' # front' /\ middle'.slot # front'
    BY DEF IInv, MailboxTypeOK, EndPublish
  <1> QED BY <1>1, <1>2, <1>3 DEF IInv, EndPublish

(* The consumer exchanges its slot for the middle one.                     *)
LEMMA ConsumeKeeps ==
  ASSUME IInv, Consume
  PROVE  IInv'
  <1>1. MailboxTypeOK'
    BY DEF IInv, MailboxTypeOK, Consume
  <1>2. back' # middle'.slot /\ back' # front' /\ middle'.slot # front'
    BY DEF IInv, MailboxTypeOK, Consume
  <1> QED BY <1>1, <1>2 DEF IInv, Consume

(* What the consumer copies out is its own slot, which is whole.           *)
LEMMA EndConsumeKeeps ==
  ASSUME IInv, EndConsume
  PROVE  IInv'
  <1>1. slots[front] \in Graphs
    BY DEF IInv, MailboxTypeOK
  <1>2. MailboxTypeOK'
    BY <1>1 DEF IInv, MailboxTypeOK, EndConsume
  <1> QED BY <1>1, <1>2 DEF IInv, EndConsume

(* Every step of the mailbox keeps the invariant.                          *)
LEMMA StepKeeps ==
  ASSUME IInv, [MailboxNext]_mailboxVars
  PROVE  IInv'
  <1>1. CASE \E g \in Graphs : BeginPublish(g)
    BY <1>1, BeginPublishKeeps
  <1>2. CASE EndPublish
    BY <1>2, EndPublishKeeps
  <1>3. CASE Consume
    BY <1>3, ConsumeKeeps
  <1>4. CASE ConsumeCurrent
    BY <1>4 DEF ConsumeCurrent, IInv, MailboxTypeOK
  <1>5. CASE EndConsume
    BY <1>5, EndConsumeKeeps
  <1>6. CASE UNCHANGED mailboxVars
    BY <1>6 DEF mailboxVars, IInv, MailboxTypeOK
  <1> QED BY <1>1, <1>2, <1>3, <1>4, <1>5, <1>6 DEF MailboxNext

(* The inductive invariant of the mailbox.                                 *)
THEOREM MailboxInvariance == MailboxSpec => []IInv
  <1>1. MailboxInit => IInv
    BY InitEstablishes
  <1>2. IInv /\ [MailboxNext]_mailboxVars => IInv'
    BY StepKeeps
  <1> QED BY <1>1, <1>2, PTL DEF MailboxSpec

(* The audio thread never copies a half-written graph, however many are    *)
(* published while it works on a block.                                    *)
THEOREM NeverTorn == MailboxSpec => []NoTornGraph
  <1>1. IInv => NoTornGraph
    BY DEF IInv, MailboxTypeOK, NoTornGraph
  <1> QED BY <1>1, MailboxInvariance, PTL

(* Publishers, consumer and the atomic word own one slot each.             *)
THEOREM EachHasASlot == MailboxSpec => []OneOwnerEach
  <1>1. IInv => OneOwnerEach
    BY DEF IInv, MailboxTypeOK, OneOwnerEach, Slot
  <1> QED BY <1>1, MailboxInvariance, PTL

-----------------------------------------------------------------------------
(* The register: its latest graph is in the middle slot while that is      *)
(* fresh, and in the consumer's after it was taken.                        *)

(* The mailbox starts as the register starts.                              *)
LEMMA RegisterInit ==
  ASSUME MailboxInit
  PROVE  Latest!Init
  BY DEF MailboxInit, Latest!Init, Slot

(* Copying a graph in is not seen through the register.                    *)
LEMMA BeginPublishMaps ==
  ASSUME IInv, NEW g \in Graphs, BeginPublish(g)
  PROVE  UNCHANGED Latest!vars
  <1>1. slots'[front] = slots[front] /\ slots'[middle.slot] = slots[middle.slot]
    BY DEF IInv, MailboxTypeOK, BeginPublish
  <1> QED BY <1>1 DEF BeginPublish, Latest!vars

(* The exchange publishes.                                                 *)
LEMMA EndPublishMaps ==
  ASSUME IInv, EndPublish
  PROVE  Latest!Publish(writing) /\ writing \in Graphs
  <1>1. slots'[front] = slots[front] /\ slots'[back] = writing
    BY DEF IInv, MailboxTypeOK, EndPublish
  <1>2. middle'.slot = back /\ middle'.fresh = TRUE
    BY DEF EndPublish
  <1>3. writing \in Graphs
    BY DEF IInv, MailboxTypeOK, EndPublish
  <1> QED BY <1>1, <1>2, <1>3 DEF EndPublish, Latest!Publish

(* The consumer's exchange gives it the graph published last.              *)
LEMMA ConsumeMaps ==
  ASSUME IInv, Consume
  PROVE  Latest!Ask
  <1>1. middle'.fresh = FALSE /\ middle.fresh = TRUE
    BY DEF IInv, MailboxTypeOK, Consume
  <1> QED BY <1>1 DEF Consume, Latest!Ask

(* What it copies out is the graph it was given.                           *)
LEMMA EndConsumeMaps ==
  ASSUME EndConsume
  PROVE  Latest!Copy
  BY DEF EndConsume, Latest!Copy

(* Every step of the mailbox is a step of the register, or none.           *)
LEMMA StepMaps ==
  ASSUME IInv, [MailboxNext]_mailboxVars
  PROVE  [Latest!Next]_Latest!vars
  <1>1. CASE \E g \in Graphs : BeginPublish(g)
    BY <1>1, BeginPublishMaps
  <1>2. CASE EndPublish
    BY <1>2, EndPublishMaps DEF Latest!Next
  <1>3. CASE Consume
    BY <1>3, ConsumeMaps DEF Latest!Next
  <1>4. CASE ConsumeCurrent
    BY <1>4 DEF ConsumeCurrent, Latest!vars
  <1>5. CASE EndConsume
    BY <1>5, EndConsumeMaps DEF Latest!Next
  <1>6. CASE UNCHANGED mailboxVars
    BY <1>6 DEF mailboxVars, Latest!vars
  <1> QED BY <1>1, <1>2, <1>3, <1>4, <1>5, <1>6 DEF MailboxNext

(* The lock-free triple buffer implements the register: the audio thread   *)
(* gets the graph published last, whole, and none is lost but to a newer.  *)
THEOREM IsRegister == MailboxSpec => ImplementsRegister
  <1>1. MailboxInit => Latest!Init
    BY RegisterInit
  <1>2. IInv /\ [MailboxNext]_mailboxVars => [Latest!Next]_Latest!vars
    BY StepMaps
  <1> QED BY <1>1, <1>2, MailboxInvariance, PTL DEF MailboxSpec, ImplementsRegister, Latest!Spec

-----------------------------------------------------------------------------
(* The recall of a scene                                                   *)

(* The routing file is never cut short: it is renamed into place.          *)
DiskInv == disk["routing"] \in Setups /\ saved["routing"] \in Setups

(* Every publication is paid for by the boot, a recall or a refresh.       *)
Owing == {"read", "check", "publish"}
Preparing == {"mute", "await", "read", "write", "undo", "swap", "gains"}
ControlOwes ==
  IF \/ control \in Preparing
     \/ control \in {"boot", "reload"} /\ reload["control"].pc \in Owing
  THEN 1 ELSE 0
BluetoothOwes == IF reload["bluetooth"].pc \in Owing THEN 1 ELSE 0

CountInv ==
  /\ recalls \in 0..MaxRecalls /\ refreshes \in 0..MaxRefreshes
  /\ control \in {"mute", "await", "read"} => next = 1
  /\ control = "write" => next <= 4
  /\ reload["control"].pc # "idle" => control \in {"boot", "reload"}
  /\ graph.generation + ControlOwes + BluetoothOwes <= 1 + recalls + refreshes

(* Generations grow on their way from the publisher to the audio thread,   *)
(* and one publisher at a time is at work.                                 *)
OrderInv ==
  /\ rt.generation <= slots[front].generation
  /\ slots[front].generation <= graph.generation
  /\ middle.fresh => /\ slots[front].generation <= slots[middle.slot].generation
                     /\ slots[middle.slot].generation <= graph.generation
  /\ writing # NoGraph => writing = graph
  /\ \A t \in Threads : reload[t].pc = "deliver" => writing # NoGraph
  /\ \A t, u \in Threads : reload[t].pc = "deliver" /\ reload[u].pc = "deliver" => t = u

Swapping == {"read", "write", "undo", "swap", "gains", "reload"}
OnTime == "late" \notin mishaps

(* The mute handshake.  While no release is ordered only the control       *)
(* thread changes sceneMuted; an answer in sceneSilent is one to the last  *)
(* question.                                                               *)
MuteInv ==
  /\ loud \/ wasMuted => step = "ack"
  /\ step = "unmute" => release # 0
  /\ step = "clear" => release # 0 /\ ~muted
  /\ control \in {"mute", "await"} \cup Swapping => release = 0
  /\ control \in {"await"} \cup Swapping => muted
  /\ control \notin {"await"} \cup Swapping /\ release = 0 => ~muted
  /\ OnTime /\ ~muted => ~wasMuted
  /\ OnTime /\ control = "mute" => ~silent
  /\ OnTime /\ ((control = "await" /\ silent) \/ control \in Swapping)
       => fade = 0 /\ ~loud /\ (step = "ack" => wasMuted)

(* Until the audio thread starts, the first graph is on its way; from then  *)
(* on some graph has been published, so that a release can be told from    *)
(* none.                                                                   *)
BootInv ==
  IF control = "boot"
  THEN /\ disk["routing"] = Initial
       /\ step = "off" /\ ~muted /\ release = 0
       /\ reload["bluetooth"].pc = "idle"
       /\ reload["control"].pc \in {"read", "check", "publish", "deliver", "done"}
       /\ reload["control"].pc # "read" => reload["control"].routes = Initial
       /\ reload["control"].pc \in {"deliver", "done"} => graph.generation > 0
  ELSE graph.generation > 0

SInv == IInv /\ TypeOK /\ DiskInv /\ CountInv /\ OrderInv /\ MuteInv /\ BootInv

-----------------------------------------------------------------------------
(* What the constants come to.                                             *)
LEMMA SceneConstants ==
  /\ MaxGeneration \in Nat
  /\ Len(Files) = 4
  /\ File = {"midi_map", "fx_params", "volumes", "routing"}
  /\ \A n \in 1..4 : Files[n] \in File
  /\ NoFiles \in [File -> Setups \cup {Truncated}]
  /\ Files[1] = "midi_map" /\ Files[2] = "fx_params" /\ Files[3] = "volumes" /\ Files[4] =
     "routing"
  BY SceneAssumption DEF MaxGeneration, Files, File, NoFiles

-----------------------------------------------------------------------------
(* At boot nothing has been published and nothing is muted.                *)
LEMMA SceneInit == Init => SInv
  <1> SUFFICES ASSUME Init PROVE SInv
    OBVIOUS
  <1> USE SceneAssumption
  <1>1. IInv
    BY InitEstablishes DEF Init
  <1>2. 0 \in 0..MaxGeneration /\ 1 \in 1..(Len(Files) + 1)
    BY DEF MaxGeneration, Files
  <1>3. TypeOK
    <2>1. disk = NoFiles
      BY DEF Init, NoFiles
    <2>2. reload \in [Threads -> [pc : {"idle", "read", "check", "publish", "deliver",
       "done",
                                       "failed"}, routes : Setups]]
      BY DEF Init, IdleReload, Threads
    <2>3. rt \in [generation : 0..MaxGeneration, routes : Setups, gains : Setups]
      BY <1>2 DEF Init
    <2>4. graph \in Graphs /\ mishaps = {} /\ fade \in 0..FadeBlocks
      BY GraphsAssumption DEF Init
    <2> QED BY <2>1, <2>2, <2>3, <2>4, <1>1, <1>2, GraphsAssumption, SceneConstants DEF
       Init, TypeOK, IInv
  <1>4. DiskInv
    BY DEF Init, DiskInv, NoFiles, File, Files
  <1>5. CountInv
    BY SceneConstants DEF Init, CountInv, ControlOwes, BluetoothOwes, Owing, Preparing,
                          IdleReload, Threads
  <1>6. OrderInv
    BY DEF Init, OrderInv, MailboxInit, Slot, IdleReload, Threads
  <1>7. MuteInv
    BY DEF Init, MuteInv, Swapping, OnTime
  <1>8. BootInv
    BY DEF Init, BootInv, IdleReload, Threads, NoFiles, File, Files
  <1> QED BY <1>1, <1>3, <1>4, <1>5, <1>6, <1>7, <1>8 DEF SInv

(* Reading the routes changes no shared state.                              *)
LEMMA ReadRoutesKeeps ==
  ASSUME SInv, NEW t \in Threads, ReadRoutes(t)
  PROVE  SInv'
  <1> USE SceneAssumption
  <1> USE DEF SInv, ReadRoutes, At, controlVars, setupVars, muteVars, audioVars,
              mailboxVars
  <1>1. IInv'
    BY DEF IInv, MailboxTypeOK
  <1>2. TypeOK'
    BY <1>1, SceneConstants DEF TypeOK, DiskInv, IInv, Threads
  <1>3. DiskInv'
    BY DEF DiskInv, TypeOK, Threads, File, Files
  <1>4. CountInv'
    BY DEF CountInv, TypeOK, Threads, ControlOwes, BluetoothOwes, Owing, Preparing
  <1>5. OrderInv'
    BY DEF OrderInv, TypeOK, MailboxTypeOK, IInv, Threads
  <1>6. MuteInv'
    BY DEF MuteInv, TypeOK, Swapping, OnTime
  <1>7. BootInv'
    BY SceneConstants DEF BootInv, DiskInv, MuteInv, TypeOK, Threads
  <1> QED BY <1>1, <1>2, <1>3, <1>4, <1>5, <1>6, <1>7

(* Failing to read them neither.                                            *)
LEMMA ReadRoutesFailsKeeps ==
  ASSUME SInv, NEW t \in Threads, ReadRoutesFails(t)
  PROVE  SInv'
  <1> USE SceneAssumption
  <1> USE DEF SInv, ReadRoutesFails, At, Goto, Fault, Mishap, controlVars, setupVars,
              muteVars, audioVars, mailboxVars
  <1>1. IInv'
    BY DEF IInv, MailboxTypeOK
  <1>2. TypeOK'
    BY <1>1, SceneConstants DEF TypeOK, DiskInv, IInv, Threads
  <1>3. DiskInv'
    BY DEF DiskInv, TypeOK, Threads, File, Files
  <1>4. CountInv'
    BY SMTT(30) DEF CountInv, TypeOK, Threads, ControlOwes, BluetoothOwes, Owing, Preparing
  <1>5. OrderInv'
    BY DEF OrderInv, TypeOK, MailboxTypeOK, IInv, Threads
  <1>6. MuteInv'
    BY DEF MuteInv, TypeOK, Swapping, OnTime
  <1>7. BootInv'
    BY SceneConstants DEF BootInv, DiskInv, MuteInv, TypeOK, Threads
  <1> QED BY <1>1, <1>2, <1>3, <1>4, <1>5, <1>6, <1>7

(* A refused update publishes nothing.                                      *)
LEMMA RejectRoutesKeeps ==
  ASSUME SInv, NEW t \in Threads, RejectRoutes(t)
  PROVE  SInv'
  <1> USE SceneAssumption
  <1> USE DEF SInv, RejectRoutes, At, Goto, Mishap, controlVars, setupVars, muteVars,
              audioVars, mailboxVars
  <1>1. IInv'
    BY DEF IInv, MailboxTypeOK
  <1>2. TypeOK'
    BY <1>1, SceneConstants DEF TypeOK, DiskInv, IInv, Threads
  <1>3. DiskInv'
    BY DEF DiskInv, TypeOK, Threads, File, Files
  <1>4. CountInv'
    BY SMTT(30) DEF CountInv, TypeOK, Threads, ControlOwes, BluetoothOwes, Owing, Preparing
  <1>5. OrderInv'
    BY DEF OrderInv, TypeOK, MailboxTypeOK, IInv, Threads
  <1>6. MuteInv'
    BY DEF MuteInv, TypeOK, Swapping, OnTime
  <1>7. BootInv'
    BY SceneConstants DEF BootInv, DiskInv, MuteInv, TypeOK, Threads
  <1> QED BY <1>1, <1>2, <1>3, <1>4, <1>5, <1>6, <1>7

(* Writing routes back publishes nothing yet.                               *)
LEMMA RewriteRoutesKeeps ==
  ASSUME SInv, NEW t \in Threads, RewriteRoutes(t)
  PROVE  SInv'
  <1> USE SceneAssumption
  <1> USE DEF SInv, RewriteRoutes, At, Goto, Mishap, controlVars, muteVars, audioVars,
              mailboxVars
  <1>1. IInv'
    BY DEF IInv, MailboxTypeOK
  <1>2. TypeOK'
    BY <1>1, SceneConstants DEF TypeOK, DiskInv, IInv, Threads
  <1>3. DiskInv'
    BY DEF DiskInv, TypeOK, Threads, File, Files
  <1>4. CountInv'
    BY SMTT(30) DEF CountInv, TypeOK, Threads, ControlOwes, BluetoothOwes, Owing, Preparing
  <1>5. OrderInv'
    BY DEF OrderInv, TypeOK, MailboxTypeOK, IInv, Threads
  <1>6. MuteInv'
    BY DEF MuteInv, TypeOK, Swapping, OnTime
  <1>7. BootInv'
    BY SceneConstants DEF BootInv, DiskInv, MuteInv, TypeOK, Threads
  <1> QED BY <1>1, <1>2, <1>3, <1>4, <1>5, <1>6, <1>7

(* A publisher numbers its graph and starts copying it.                     *)
LEMMA PublishGraphKeeps ==
  ASSUME SInv, NEW t \in Threads, PublishGraph(t)
  PROVE  SInv'
  <1> USE SceneAssumption
  <1> USE DEF SInv, PublishGraph, At, Goto, Mishap, BeginPublish, controlVars, setupVars,
              muteVars, audioVars
  <1>0. graph' \in Graphs
    BY SMTT(30) DEF CountInv, ControlOwes, BluetoothOwes, Owing, Preparing, MaxGeneration, TypeOK,
           Threads
  <1>1. IInv'
    BY <1>0, BeginPublishKeeps
  <1>2. TypeOK'
    BY <1>0, <1>1, SceneConstants DEF TypeOK, DiskInv, IInv, Threads
  <1>3. DiskInv'
    BY DEF DiskInv, TypeOK, Threads, File, Files
  <1>4. CountInv'
    <2>1. /\ graph'.generation = graph.generation + 1
          /\ graph.generation \in Nat
      BY SceneConstants DEF TypeOK
    <2>2. /\ reload[t].pc \in {"check", "publish"} /\ reload'[t].pc = "deliver"
          /\ \A u \in Threads \ {t} : reload'[u] = reload[u]
      BY DEF TypeOK
    <2>3. UNCHANGED <<control, next, recalls, refreshes>>
      OBVIOUS
    <2>4. CASE t = "control"
      <3>1. ControlOwes = 1 /\ ControlOwes' = 0 /\ BluetoothOwes' = BluetoothOwes
        BY <2>2, <2>3, <2>4 DEF CountInv, ControlOwes, BluetoothOwes, Owing, Preparing,
                                Threads
      <3>2. BluetoothOwes \in Nat
        BY DEF BluetoothOwes
      <3> QED BY <2>1, <2>2, <2>3, <2>4, <3>1, <3>2 DEF CountInv
    <2>5. CASE t = "bluetooth"
      <3>1. BluetoothOwes = 1 /\ BluetoothOwes' = 0 /\ ControlOwes' = ControlOwes
        BY <2>2, <2>3, <2>5 DEF CountInv, ControlOwes, BluetoothOwes, Owing, Preparing,
                                Threads
      <3>2. ControlOwes \in Nat
        BY DEF ControlOwes
      <3> QED BY <2>1, <2>2, <2>3, <2>5, <3>1, <3>2 DEF CountInv, Threads
    <2> QED BY <2>4, <2>5 DEF Threads
  <1>5. OrderInv'
    <2>1. \A g \in Graphs : g.generation \in Nat
      BY SceneConstants
    <2>2. slots[front] \in Graphs /\ slots[middle.slot] \in Graphs /\ graph \in Graphs
      BY DEF IInv, MailboxTypeOK, TypeOK
    <2>3. slots'[front'] = slots[front] /\ slots'[middle'.slot] = slots[middle.slot]
      BY DEF IInv, MailboxTypeOK
    <2>4. graph'.generation = graph.generation + 1 /\ writing' = graph'
          /\ writing' # NoGraph
      BY <1>0, GraphsAssumption
    <2>5. \A u \in Threads : reload[u].pc # "deliver"
      BY DEF OrderInv
    <2>6. \A u \in Threads : reload'[u].pc = "deliver" => u = t
      BY <2>5 DEF TypeOK
    <2>7. rt' = rt /\ middle' = middle
      OBVIOUS
    <2> QED
      BY <2>1, <2>2, <2>3, <2>4, <2>6, <2>7, SMTT(30) DEF OrderInv, TypeOK
  <1>6. MuteInv'
    BY DEF MuteInv, TypeOK, Swapping, OnTime
  <1>7. BootInv'
    BY SceneConstants DEF BootInv, DiskInv, MuteInv, TypeOK, Threads
  <1> QED BY <1>1, <1>2, <1>3, <1>4, <1>5, <1>6, <1>7

(* The copy is exchanged for the middle slot.                               *)
LEMMA DeliverGraphKeeps ==
  ASSUME SInv, NEW t \in Threads, DeliverGraph(t)
  PROVE  SInv'
  <1> USE SceneAssumption
  <1> USE DEF SInv, DeliverGraph, At, Goto, EndPublish, controlVars, setupVars, muteVars,
              audioVars
  <1>1. IInv'
    BY EndPublishKeeps
  <1>2. TypeOK'
    BY <1>1, SceneConstants DEF TypeOK, DiskInv, IInv, Threads
  <1>3. DiskInv'
    BY DEF DiskInv, TypeOK, Threads, File, Files
  <1>4. CountInv'
    BY SMTT(30) DEF CountInv, TypeOK, Threads, ControlOwes, BluetoothOwes, Owing, Preparing
  <1>5. OrderInv'
    BY DEF OrderInv, TypeOK, MailboxTypeOK, IInv, Threads
  <1>6. MuteInv'
    BY DEF MuteInv, TypeOK, Swapping, OnTime
  <1>7. BootInv'
    BY SceneConstants DEF BootInv, DiskInv, MuteInv, TypeOK, Threads
  <1> QED BY <1>1, <1>2, <1>3, <1>4, <1>5, <1>6, <1>7

(* The Bluetooth thread starts a reload.                                    *)
LEMMA BluetoothRefreshKeeps ==
  ASSUME SInv, BluetoothRefresh
  PROVE  SInv'
  <1> USE SceneAssumption
  <1> USE DEF SInv, BluetoothRefresh, At, Goto, controlVars, setupVars, muteVars,
              audioVars, mailboxVars
  <1>1. IInv'
    BY DEF IInv, MailboxTypeOK
  <1>2. TypeOK'
    BY <1>1, SceneConstants DEF TypeOK, DiskInv, IInv, Threads
  <1>3. DiskInv'
    BY DEF DiskInv, TypeOK, Threads, File, Files
  <1>4. CountInv'
    BY SMTT(30) DEF CountInv, TypeOK, Threads, ControlOwes, BluetoothOwes, Owing, Preparing
  <1>5. OrderInv'
    BY DEF OrderInv, TypeOK, MailboxTypeOK, IInv, Threads
  <1>6. MuteInv'
    BY DEF MuteInv, TypeOK, Swapping, OnTime
  <1>7. BootInv'
    BY SceneConstants DEF BootInv, DiskInv, MuteInv, TypeOK, Threads
  <1> QED BY <1>1, <1>2, <1>3, <1>4, <1>5, <1>6, <1>7

(* The Bluetooth thread is done with it.                                    *)
LEMMA BluetoothReturnsKeeps ==
  ASSUME SInv, BluetoothReturns
  PROVE  SInv'
  <1> USE SceneAssumption
  <1> USE DEF SInv, BluetoothReturns, At, Leave, IdleReload, controlVars, setupVars,
              muteVars, audioVars, mailboxVars
  <1>1. IInv'
    BY DEF IInv, MailboxTypeOK
  <1>2. TypeOK'
    BY <1>1, SceneConstants DEF TypeOK, DiskInv, IInv, Threads
  <1>3. DiskInv'
    BY DEF DiskInv, TypeOK, Threads, File, Files
  <1>4. CountInv'
    BY DEF CountInv, TypeOK, Threads, ControlOwes, BluetoothOwes, Owing, Preparing
  <1>5. OrderInv'
    BY DEF OrderInv, TypeOK, MailboxTypeOK, IInv, Threads
  <1>6. MuteInv'
    BY DEF MuteInv, TypeOK, Swapping, OnTime
  <1>7. BootInv'
    BY SceneConstants DEF BootInv, DiskInv, MuteInv, TypeOK, Threads
  <1> QED BY <1>1, <1>2, <1>3, <1>4, <1>5, <1>6, <1>7

(* The audio thread is started.                                             *)
LEMMA StartAudioKeeps ==
  ASSUME SInv, StartAudio
  PROVE  SInv'
  <1> USE SceneAssumption
  <1> USE DEF SInv, StartAudio, At, Leave, IdleReload, setupVars, muteVars, mailboxVars
  <1>1. IInv'
    BY DEF IInv, MailboxTypeOK
  <1>2. TypeOK'
    BY <1>1, SceneConstants DEF TypeOK, DiskInv, IInv, Threads
  <1>3. DiskInv'
    BY DEF DiskInv, TypeOK, Threads, File, Files
  <1>4. CountInv'
    BY DEF CountInv, TypeOK, Threads, ControlOwes, BluetoothOwes, Owing, Preparing
  <1>5. OrderInv'
    BY DEF OrderInv, TypeOK, MailboxTypeOK, IInv, Threads
  <1>6. MuteInv'
    BY DEF BootInv, MuteInv, TypeOK, Swapping, OnTime
  <1>7. BootInv'
    BY SceneConstants DEF BootInv, DiskInv, MuteInv, TypeOK, Threads
  <1> QED BY <1>1, <1>2, <1>3, <1>4, <1>5, <1>6, <1>7

(* A recall asks anew: sceneSilent is cleared before sceneMuted is set.     *)
LEMMA RecallKeeps ==
  ASSUME SInv, NEW s \in Setups, Recall(s)
  PROVE  SInv'
  <1> USE SceneAssumption
  <1> USE DEF SInv, Recall, setupVars, reloadVars, audioVars, mailboxVars
  <1>1. IInv'
    BY DEF IInv, MailboxTypeOK
  <1>2. TypeOK'
    <2>1. disk' \in [File -> Setups \cup {Truncated}]
      BY SceneConstants DEF TypeOK
    <2>2. saved' \in [File -> Setups \cup {Truncated}]
      BY SceneConstants DEF TypeOK
    <2>3. next' \in 1..(Len(Files) + 1)
      BY SceneConstants DEF TypeOK, CountInv
    <2>4. reload' \in [Threads -> [pc : {"idle", "read", "check", "publish", "deliver",
       "done",
                                        "failed"}, routes : Setups]]
      BY DEF TypeOK, Threads
    <2> QED
      BY <1>1, <2>1, <2>2, <2>3, <2>4, SceneConstants DEF TypeOK, IInv
  <1>3. DiskInv'
    BY DEF DiskInv, TypeOK, Threads, File, Files
  <1>4. CountInv'
    BY DEF CountInv, TypeOK, Threads, ControlOwes, BluetoothOwes, Owing, Preparing
  <1>5. OrderInv'
    BY DEF OrderInv, TypeOK, MailboxTypeOK, IInv, Threads
  <1>6. MuteInv'
    BY DEF MuteInv, TypeOK, Swapping, OnTime
  <1>7. BootInv'
    BY SceneConstants DEF BootInv, DiskInv, MuteInv, TypeOK, Threads
  <1> QED BY <1>1, <1>2, <1>3, <1>4, <1>5, <1>6, <1>7

(* The outputs are muted.                                                   *)
LEMMA MuteOutputsKeeps ==
  ASSUME SInv, MuteOutputs
  PROVE  SInv'
  <1> USE SceneAssumption
  <1> USE DEF SInv, MuteOutputs, setupVars, reloadVars, audioVars, mailboxVars
  <1>1. IInv'
    BY DEF IInv, MailboxTypeOK
  <1>2. TypeOK'
    BY <1>1, SceneConstants DEF TypeOK, DiskInv, IInv, Threads
  <1>3. DiskInv'
    BY DEF DiskInv, TypeOK, Threads, File, Files
  <1>4. CountInv'
    BY DEF CountInv, TypeOK, Threads, ControlOwes, BluetoothOwes, Owing, Preparing
  <1>5. OrderInv'
    BY DEF OrderInv, TypeOK, MailboxTypeOK, IInv, Threads
  <1>6. MuteInv'
    BY DEF MuteInv, TypeOK, Swapping, OnTime
  <1>7. BootInv'
    BY SceneConstants DEF BootInv, DiskInv, MuteInv, TypeOK, Threads
  <1> QED BY <1>1, <1>2, <1>3, <1>4, <1>5, <1>6, <1>7

(* The answer seen is one to this recall.                                   *)
LEMMA SilenceSeenKeeps ==
  ASSUME SInv, SilenceSeen
  PROVE  SInv'
  <1> USE SceneAssumption
  <1> USE DEF SInv, SilenceSeen, setupVars, muteVars, reloadVars, audioVars, mailboxVars
  <1>1. IInv'
    BY DEF IInv, MailboxTypeOK
  <1>2. TypeOK'
    BY <1>1, SceneConstants DEF TypeOK, DiskInv, IInv, Threads
  <1>3. DiskInv'
    BY DEF DiskInv, TypeOK, Threads, File, Files
  <1>4. CountInv'
    BY DEF CountInv, TypeOK, Threads, ControlOwes, BluetoothOwes, Owing, Preparing
  <1>5. OrderInv'
    BY DEF OrderInv, TypeOK, MailboxTypeOK, IInv, Threads
  <1>6. MuteInv'
    BY DEF MuteInv, TypeOK, Swapping, OnTime
  <1>7. BootInv'
    BY SceneConstants DEF BootInv, DiskInv, MuteInv, TypeOK, Threads
  <1> QED BY <1>1, <1>2, <1>3, <1>4, <1>5, <1>6, <1>7

(* Giving up lifts the mute.                                                *)
LEMMA SilenceTimesOutKeeps ==
  ASSUME SInv, SilenceTimesOut
  PROVE  SInv'
  <1> USE SceneAssumption
  <1> USE DEF SInv, SilenceTimesOut, Fail, Return, Fault, Mishap, setupVars, reloadVars,
              audioVars, mailboxVars
  <1>1. IInv'
    BY DEF IInv, MailboxTypeOK
  <1>2. TypeOK'
    <2>1. disk' \in [File -> Setups \cup {Truncated}]
      BY SceneConstants DEF TypeOK
    <2>2. saved' \in [File -> Setups \cup {Truncated}]
      BY SceneConstants DEF TypeOK
    <2>3. next' \in 1..(Len(Files) + 1)
      BY SceneConstants DEF TypeOK, CountInv
    <2>4. reload' \in [Threads -> [pc : {"idle", "read", "check", "publish", "deliver",
       "done",
                                        "failed"}, routes : Setups]]
      BY DEF TypeOK, Threads
    <2> QED
      BY <1>1, <2>1, <2>2, <2>3, <2>4, SceneConstants, ZenonT(60) DEF TypeOK, IInv
  <1>3. DiskInv'
    BY DEF DiskInv, TypeOK, NoFiles, File, Files
  <1>4. CountInv'
    BY DEF CountInv, TypeOK, Threads, ControlOwes, BluetoothOwes, Owing, Preparing
  <1>5. OrderInv'
    BY DEF OrderInv, TypeOK, MailboxTypeOK, IInv, Threads
  <1>6. MuteInv'
    BY DEF MuteInv, TypeOK, Swapping, OnTime
  <1>7. BootInv'
    BY SceneConstants DEF BootInv, DiskInv, MuteInv, TypeOK, Threads
  <1> QED BY <1>1, <1>2, <1>3, <1>4, <1>5, <1>6, <1>7

(* Reading the old files changes nothing else.                              *)
LEMMA ReadOldFilesKeeps ==
  ASSUME SInv, ReadOldFiles
  PROVE  SInv'
  <1> USE SceneAssumption
  <1> USE DEF SInv, ReadOldFiles, setupVars, muteVars, reloadVars, audioVars, mailboxVars
  <1>1. IInv'
    BY DEF IInv, MailboxTypeOK
  <1>2. TypeOK'
    BY <1>1, SceneConstants DEF TypeOK, DiskInv, IInv, Threads
  <1>3. DiskInv'
    BY DEF DiskInv, TypeOK, Threads, File, Files
  <1>4. CountInv'
    BY DEF CountInv, TypeOK, Threads, ControlOwes, BluetoothOwes, Owing, Preparing
  <1>5. OrderInv'
    BY DEF OrderInv, TypeOK, MailboxTypeOK, IInv, Threads
  <1>6. MuteInv'
    BY DEF MuteInv, TypeOK, Swapping, OnTime
  <1>7. BootInv'
    BY SceneConstants DEF BootInv, DiskInv, MuteInv, TypeOK, Threads
  <1> QED BY <1>1, <1>2, <1>3, <1>4, <1>5, <1>6, <1>7

(* Failing to read them lifts the mute.                                     *)
LEMMA ReadOldFilesFailsKeeps ==
  ASSUME SInv, ReadOldFilesFails
  PROVE  SInv'
  <1> USE SceneAssumption
  <1> USE DEF SInv, ReadOldFilesFails, Fail, Return, Fault, Mishap, setupVars, reloadVars,
              audioVars, mailboxVars
  <1>1. IInv'
    BY DEF IInv, MailboxTypeOK
  <1>2. TypeOK'
    <2>1. disk' \in [File -> Setups \cup {Truncated}]
      BY SceneConstants DEF TypeOK
    <2>2. saved' \in [File -> Setups \cup {Truncated}]
      BY SceneConstants DEF TypeOK
    <2>3. next' \in 1..(Len(Files) + 1)
      BY SceneConstants DEF TypeOK, CountInv
    <2>4. reload' \in [Threads -> [pc : {"idle", "read", "check", "publish", "deliver",
       "done",
                                        "failed"}, routes : Setups]]
      BY DEF TypeOK, Threads
    <2> QED
      BY <1>1, <2>1, <2>2, <2>3, <2>4, SceneConstants, ZenonT(60) DEF TypeOK, IInv
  <1>3. DiskInv'
    BY DEF DiskInv, TypeOK, NoFiles, File, Files
  <1>4. CountInv'
    BY DEF CountInv, TypeOK, Threads, ControlOwes, BluetoothOwes, Owing, Preparing
  <1>5. OrderInv'
    BY DEF OrderInv, TypeOK, MailboxTypeOK, IInv, Threads
  <1>6. MuteInv'
    BY DEF MuteInv, TypeOK, Swapping, OnTime
  <1>7. BootInv'
    BY SceneConstants DEF BootInv, DiskInv, MuteInv, TypeOK, Threads
  <1> QED BY <1>1, <1>2, <1>3, <1>4, <1>5, <1>6, <1>7

(* Writing a file.                                                          *)
LEMMA WriteFileKeeps ==
  ASSUME SInv, WriteFile
  PROVE  SInv'
  <1> USE SceneAssumption
  <1> USE DEF SInv, WriteFile, AfterWrite, Current, muteVars, reloadVars, audioVars,
              mailboxVars
  <1>1. IInv'
    BY DEF IInv, MailboxTypeOK
  <1>2. TypeOK'
    <2>1. disk' \in [File -> Setups \cup {Truncated}]
      BY SceneConstants DEF TypeOK
    <2>2. saved' \in [File -> Setups \cup {Truncated}]
      BY SceneConstants DEF TypeOK
    <2>3. next' \in 1..(Len(Files) + 1)
      BY SceneConstants DEF TypeOK, CountInv
    <2>4. reload' \in [Threads -> [pc : {"idle", "read", "check", "publish", "deliver",
       "done",
                                        "failed"}, routes : Setups]]
      BY DEF TypeOK, Threads
    <2> QED
      BY <1>1, <2>1, <2>2, <2>3, <2>4, SceneConstants DEF TypeOK, IInv
  <1>3. DiskInv'
    BY DEF DiskInv, TypeOK, Threads, File, Files
  <1>4. CountInv'
    BY SceneConstants DEF CountInv, TypeOK, Threads, ControlOwes, BluetoothOwes, Owing,
                          Preparing
  <1>5. OrderInv'
    BY DEF OrderInv, TypeOK, MailboxTypeOK, IInv, Threads
  <1>6. MuteInv'
    BY DEF MuteInv, TypeOK, Swapping, OnTime
  <1>7. BootInv'
    BY SceneConstants DEF BootInv, DiskInv, MuteInv, TypeOK, Threads
  <1> QED BY <1>1, <1>2, <1>3, <1>4, <1>5, <1>6, <1>7

(* A file that cannot be written.                                           *)
LEMMA WriteFailsKeeps ==
  ASSUME SInv, WriteFails
  PROVE  SInv'
  <1> USE SceneAssumption
  <1> USE DEF SInv, WriteFails, AfterWrite, Current, Fault, AfterFailure, muteVars,
              reloadVars, audioVars, mailboxVars
  <1>1. IInv'
    BY DEF IInv, MailboxTypeOK
  <1>2. TypeOK'
    <2>1. disk' \in [File -> Setups \cup {Truncated}]
      <3>1. Current \in {"midi_map", "fx_params", "volumes", "routing"}
        <4>1. next \in 1..4
          BY SceneConstants DEF TypeOK, CountInv
        <4> QED BY <4>1, SceneConstants
      <3>2. \A f \in File : disk[f] \in Setups \cup {Truncated}
        BY DEF TypeOK
      <3>3. scene \in Setups
        BY DEF TypeOK
      <3>4. AfterFailure(Current) \subseteq Setups \cup {Truncated}
        BY <3>1, <3>2, <3>3, SceneConstants
      <3>5. PICK d \in AfterFailure(Current) : disk' = [disk EXCEPT ![Current] = d]
        OBVIOUS
      <3> QED BY <3>4, <3>5, SceneConstants DEF TypeOK
    <2>2. saved' \in [File -> Setups \cup {Truncated}]
      BY SceneConstants DEF TypeOK
    <2>3. next' \in 1..(Len(Files) + 1)
      BY SceneConstants DEF TypeOK, CountInv
    <2>4. reload' \in [Threads -> [pc : {"idle", "read", "check", "publish", "deliver",
       "done",
                                        "failed"}, routes : Setups]]
      BY DEF TypeOK, Threads
    <2> QED
      BY <1>1, <2>1, <2>2, <2>3, <2>4, SceneConstants DEF TypeOK, IInv
  <1>3. DiskInv'
    BY DEF DiskInv, TypeOK, Threads, File, Files
  <1>4. CountInv'
    BY SceneConstants DEF CountInv, TypeOK, Threads, ControlOwes, BluetoothOwes, Owing,
                          Preparing
  <1>5. OrderInv'
    BY DEF OrderInv, TypeOK, MailboxTypeOK, IInv, Threads
  <1>6. MuteInv'
    BY DEF MuteInv, TypeOK, Swapping, OnTime
  <1>7. BootInv'
    BY SceneConstants DEF BootInv, DiskInv, MuteInv, TypeOK, Threads
  <1> QED BY <1>1, <1>2, <1>3, <1>4, <1>5, <1>6, <1>7

(* A file that is cut short.                                                *)
LEMMA WriteCutShortKeeps ==
  ASSUME SInv, WriteCutShort
  PROVE  SInv'
  <1> USE SceneAssumption
  <1> USE DEF SInv, WriteCutShort, AfterWrite, Current, Fault, Mishap, muteVars,
              reloadVars, audioVars, mailboxVars
  <1>1. IInv'
    BY DEF IInv, MailboxTypeOK
  <1>2. TypeOK'
    <2>1. disk' \in [File -> Setups \cup {Truncated}]
      BY SceneConstants DEF TypeOK
    <2>2. saved' \in [File -> Setups \cup {Truncated}]
      BY SceneConstants DEF TypeOK
    <2>3. next' \in 1..(Len(Files) + 1)
      BY SceneConstants DEF TypeOK, CountInv
    <2>4. reload' \in [Threads -> [pc : {"idle", "read", "check", "publish", "deliver",
       "done",
                                        "failed"}, routes : Setups]]
      BY DEF TypeOK, Threads
    <2> QED
      BY <1>1, <2>1, <2>2, <2>3, <2>4, SceneConstants DEF TypeOK, IInv
  <1>3. DiskInv'
    BY DEF DiskInv, TypeOK, Threads, File, Files
  <1>4. CountInv'
    BY SceneConstants DEF CountInv, TypeOK, Threads, ControlOwes, BluetoothOwes, Owing,
                          Preparing
  <1>5. OrderInv'
    BY DEF OrderInv, TypeOK, MailboxTypeOK, IInv, Threads
  <1>6. MuteInv'
    BY DEF MuteInv, TypeOK, Swapping, OnTime
  <1>7. BootInv'
    BY SceneConstants DEF BootInv, DiskInv, MuteInv, TypeOK, Threads
  <1> QED BY <1>1, <1>2, <1>3, <1>4, <1>5, <1>6, <1>7

(* An old file is written back.                                             *)
LEMMA UndoFileKeeps ==
  ASSUME SInv, UndoFile
  PROVE  SInv'
  <1> USE SceneAssumption
  <1> USE DEF SInv, UndoFile, Current, muteVars, reloadVars, audioVars, mailboxVars
  <1>1. IInv'
    BY DEF IInv, MailboxTypeOK
  <1>2. TypeOK'
    BY <1>1, SceneConstants DEF TypeOK, DiskInv, IInv, Threads
  <1>3. DiskInv'
    BY DEF DiskInv, TypeOK, Threads, File, Files
  <1>4. CountInv'
    BY DEF CountInv, TypeOK, Threads, ControlOwes, BluetoothOwes, Owing, Preparing
  <1>5. OrderInv'
    BY DEF OrderInv, TypeOK, MailboxTypeOK, IInv, Threads
  <1>6. MuteInv'
    BY DEF MuteInv, TypeOK, Swapping, OnTime
  <1>7. BootInv'
    BY SceneConstants DEF BootInv, DiskInv, MuteInv, TypeOK, Threads
  <1> QED BY <1>1, <1>2, <1>3, <1>4, <1>5, <1>6, <1>7

(* An old file cannot be written back.                                      *)
LEMMA UndoFileFailsKeeps ==
  ASSUME SInv, UndoFileFails
  PROVE  SInv'
  <1> USE SceneAssumption
  <1> USE DEF SInv, UndoFileFails, Mishap, setupVars, muteVars, reloadVars, audioVars,
              mailboxVars
  <1>1. IInv'
    BY DEF IInv, MailboxTypeOK
  <1>2. TypeOK'
    BY <1>1, SceneConstants DEF TypeOK, DiskInv, IInv, Threads
  <1>3. DiskInv'
    BY DEF DiskInv, TypeOK, Threads, File, Files
  <1>4. CountInv'
    BY DEF CountInv, TypeOK, Threads, ControlOwes, BluetoothOwes, Owing, Preparing
  <1>5. OrderInv'
    BY DEF OrderInv, TypeOK, MailboxTypeOK, IInv, Threads
  <1>6. MuteInv'
    BY DEF MuteInv, TypeOK, Swapping, OnTime
  <1>7. BootInv'
    BY SceneConstants DEF BootInv, DiskInv, MuteInv, TypeOK, Threads
  <1> QED BY <1>1, <1>2, <1>3, <1>4, <1>5, <1>6, <1>7

(* A recall that was undone lifts the mute.                                 *)
LEMMA UndoDoneKeeps ==
  ASSUME SInv, UndoDone
  PROVE  SInv'
  <1> USE SceneAssumption
  <1> USE DEF SInv, UndoDone, Fail, Return, Mishap, setupVars, reloadVars, audioVars,
              mailboxVars
  <1>1. IInv'
    BY DEF IInv, MailboxTypeOK
  <1>2. TypeOK'
    <2>1. disk' \in [File -> Setups \cup {Truncated}]
      BY SceneConstants DEF TypeOK
    <2>2. saved' \in [File -> Setups \cup {Truncated}]
      BY SceneConstants DEF TypeOK
    <2>3. next' \in 1..(Len(Files) + 1)
      BY SceneConstants DEF TypeOK, CountInv
    <2>4. reload' \in [Threads -> [pc : {"idle", "read", "check", "publish", "deliver",
       "done",
                                        "failed"}, routes : Setups]]
      BY DEF TypeOK, Threads
    <2> QED
      BY <1>1, <2>1, <2>2, <2>3, <2>4, SceneConstants, ZenonT(60) DEF TypeOK, IInv
  <1>3. DiskInv'
    BY DEF DiskInv, TypeOK, NoFiles, File, Files
  <1>4. CountInv'
    BY DEF CountInv, TypeOK, Threads, ControlOwes, BluetoothOwes, Owing, Preparing
  <1>5. OrderInv'
    BY DEF OrderInv, TypeOK, MailboxTypeOK, IInv, Threads
  <1>6. MuteInv'
    BY DEF MuteInv, TypeOK, Swapping, OnTime
  <1>7. BootInv'
    BY SceneConstants DEF BootInv, DiskInv, MuteInv, TypeOK, Threads
  <1> QED BY <1>1, <1>2, <1>3, <1>4, <1>5, <1>6, <1>7

(* The effects are exchanged.                                               *)
LEMMA SwapEffectsKeeps ==
  ASSUME SInv, SwapEffects
  PROVE  SInv'
  <1> USE SceneAssumption
  <1> USE DEF SInv, SwapEffects, muteVars, reloadVars, audioVars, mailboxVars
  <1>1. IInv'
    BY DEF IInv, MailboxTypeOK
  <1>2. TypeOK'
    BY <1>1, SceneConstants DEF TypeOK, DiskInv, IInv, Threads
  <1>3. DiskInv'
    BY DEF DiskInv, TypeOK, Threads, File, Files
  <1>4. CountInv'
    BY DEF CountInv, TypeOK, Threads, ControlOwes, BluetoothOwes, Owing, Preparing
  <1>5. OrderInv'
    BY DEF OrderInv, TypeOK, MailboxTypeOK, IInv, Threads
  <1>6. MuteInv'
    BY DEF MuteInv, TypeOK, Swapping, OnTime
  <1>7. BootInv'
    BY SceneConstants DEF BootInv, DiskInv, MuteInv, TypeOK, Threads
  <1> QED BY <1>1, <1>2, <1>3, <1>4, <1>5, <1>6, <1>7

(* The gains are exchanged.                                                 *)
LEMMA SwapGainsKeeps ==
  ASSUME SInv, SwapGains
  PROVE  SInv'
  <1> USE SceneAssumption
  <1> USE DEF SInv, SwapGains, Goto, muteVars, audioVars, mailboxVars
  <1>1. IInv'
    BY DEF IInv, MailboxTypeOK
  <1>2. TypeOK'
    BY <1>1, SceneConstants DEF TypeOK, DiskInv, IInv, Threads
  <1>3. DiskInv'
    BY DEF DiskInv, TypeOK, Threads, File, Files
  <1>4. CountInv'
    BY DEF CountInv, TypeOK, Threads, ControlOwes, BluetoothOwes, Owing, Preparing
  <1>5. OrderInv'
    BY DEF OrderInv, TypeOK, MailboxTypeOK, IInv, Threads
  <1>6. MuteInv'
    BY DEF MuteInv, TypeOK, Swapping, OnTime
  <1>7. BootInv'
    BY SceneConstants DEF BootInv, DiskInv, MuteInv, TypeOK, Threads
  <1> QED BY <1>1, <1>2, <1>3, <1>4, <1>5, <1>6, <1>7

(* The release is ordered.                                                  *)
LEMMA OrderReleaseKeeps ==
  ASSUME SInv, OrderRelease
  PROVE  SInv'
  <1> USE SceneAssumption
  <1> USE DEF SInv, OrderRelease, At, Leave, IdleReload, setupVars, audioVars, mailboxVars
  <1>1. IInv'
    BY DEF IInv, MailboxTypeOK
  <1>2. TypeOK'
    BY <1>1, SceneConstants DEF TypeOK, DiskInv, IInv, Threads
  <1>3. DiskInv'
    BY DEF DiskInv, TypeOK, Threads, File, Files
  <1>4. CountInv'
    BY DEF CountInv, TypeOK, Threads, ControlOwes, BluetoothOwes, Owing, Preparing
  <1>5. OrderInv'
    BY DEF OrderInv, TypeOK, MailboxTypeOK, IInv, Threads
  <1>6. MuteInv'
    BY DEF BootInv, MuteInv, TypeOK, Swapping, OnTime
  <1>7. BootInv'
    BY SceneConstants DEF BootInv, DiskInv, MuteInv, TypeOK, Threads
  <1> QED BY <1>1, <1>2, <1>3, <1>4, <1>5, <1>6, <1>7

(* A reload that failed lifts the mute.                                     *)
LEMMA ReloadFailedKeeps ==
  ASSUME SInv, ReloadFailed
  PROVE  SInv'
  <1> USE SceneAssumption
  <1> USE DEF SInv, ReloadFailed, At, Fail, Return, Leave, IdleReload, Mishap, setupVars,
              audioVars, mailboxVars
  <1>1. IInv'
    BY DEF IInv, MailboxTypeOK
  <1>2. TypeOK'
    <2>1. disk' \in [File -> Setups \cup {Truncated}]
      BY SceneConstants DEF TypeOK
    <2>2. saved' \in [File -> Setups \cup {Truncated}]
      BY SceneConstants DEF TypeOK
    <2>3. next' \in 1..(Len(Files) + 1)
      BY SceneConstants DEF TypeOK, CountInv
    <2>4. reload' \in [Threads -> [pc : {"idle", "read", "check", "publish", "deliver",
       "done",
                                        "failed"}, routes : Setups]]
      BY DEF TypeOK, Threads
    <2> QED
      BY <1>1, <2>1, <2>2, <2>3, <2>4, SceneConstants, ZenonT(60) DEF TypeOK, IInv
  <1>3. DiskInv'
    BY DEF DiskInv, TypeOK, NoFiles, File, Files
  <1>4. CountInv'
    BY DEF CountInv, TypeOK, Threads, ControlOwes, BluetoothOwes, Owing, Preparing
  <1>5. OrderInv'
    BY DEF OrderInv, TypeOK, MailboxTypeOK, IInv, Threads
  <1>6. MuteInv'
    BY DEF MuteInv, TypeOK, Swapping, OnTime
  <1>7. BootInv'
    BY SceneConstants DEF BootInv, DiskInv, MuteInv, TypeOK, Threads
  <1> QED BY <1>1, <1>2, <1>3, <1>4, <1>5, <1>6, <1>7

(* The recall returns.                                                      *)
LEMMA SucceedKeeps ==
  ASSUME SInv, Succeed
  PROVE  SInv'
  <1> USE SceneAssumption
  <1> USE DEF SInv, Succeed, Return, muteVars, reloadVars, audioVars, mailboxVars
  <1>1. IInv'
    BY DEF IInv, MailboxTypeOK
  <1>2. TypeOK'
    <2>1. disk' \in [File -> Setups \cup {Truncated}]
      BY SceneConstants DEF TypeOK
    <2>2. saved' \in [File -> Setups \cup {Truncated}]
      BY SceneConstants DEF TypeOK
    <2>3. next' \in 1..(Len(Files) + 1)
      BY SceneConstants DEF TypeOK, CountInv
    <2>4. reload' \in [Threads -> [pc : {"idle", "read", "check", "publish", "deliver",
       "done",
                                        "failed"}, routes : Setups]]
      BY DEF TypeOK, Threads
    <2> QED
      BY <1>1, <2>1, <2>2, <2>3, <2>4, SceneConstants DEF TypeOK, IInv
  <1>3. DiskInv'
    BY DEF DiskInv, TypeOK, NoFiles, File, Files
  <1>4. CountInv'
    BY DEF CountInv, TypeOK, Threads, ControlOwes, BluetoothOwes, Owing, Preparing
  <1>5. OrderInv'
    BY DEF OrderInv, TypeOK, MailboxTypeOK, IInv, Threads
  <1>6. MuteInv'
    BY DEF MuteInv, TypeOK, Swapping, OnTime
  <1>7. BootInv'
    BY SceneConstants DEF BootInv, DiskInv, MuteInv, TypeOK, Threads
  <1> QED BY <1>1, <1>2, <1>3, <1>4, <1>5, <1>6, <1>7

(* The audio thread exchanges its slot for the middle one.                  *)
LEMMA TakeGraphKeeps ==
  ASSUME SInv, TakeGraph
  PROVE  SInv'
  <1> USE SceneAssumption
  <1> USE DEF SInv, TakeGraph, Consume, audioRest, controlVars, setupVars, muteVars,
              reloadVars
  <1>1. IInv'
    BY ConsumeKeeps
  <1>2. TypeOK'
    BY <1>1, SceneConstants DEF TypeOK, DiskInv, IInv, Threads
  <1>3. DiskInv'
    BY DEF DiskInv, TypeOK, Threads, File, Files
  <1>4. CountInv'
    BY DEF CountInv, TypeOK, Threads, ControlOwes, BluetoothOwes, Owing, Preparing
  <1>5. OrderInv'
    BY DEF OrderInv, TypeOK, MailboxTypeOK, IInv, Threads
  <1>6. MuteInv'
    BY DEF MuteInv, TypeOK, Swapping, OnTime
  <1>7. BootInv'
    BY SceneConstants DEF BootInv, DiskInv, MuteInv, TypeOK, Threads
  <1> QED BY <1>1, <1>2, <1>3, <1>4, <1>5, <1>6, <1>7

(* There is no new graph.                                                   *)
LEMMA NoNewGraphKeeps ==
  ASSUME SInv, NoNewGraph
  PROVE  SInv'
  <1> USE SceneAssumption
  <1> USE DEF SInv, NoNewGraph, audioRest, controlVars, setupVars, muteVars, reloadVars,
              mailboxVars
  <1>1. IInv'
    BY DEF IInv, MailboxTypeOK
  <1>2. TypeOK'
    BY <1>1, SceneConstants DEF TypeOK, DiskInv, IInv, Threads
  <1>3. DiskInv'
    BY DEF DiskInv, TypeOK, Threads, File, Files
  <1>4. CountInv'
    BY DEF CountInv, TypeOK, Threads, ControlOwes, BluetoothOwes, Owing, Preparing
  <1>5. OrderInv'
    BY DEF OrderInv, TypeOK, MailboxTypeOK, IInv, Threads
  <1>6. MuteInv'
    BY DEF MuteInv, TypeOK, Swapping, OnTime
  <1>7. BootInv'
    BY SceneConstants DEF BootInv, DiskInv, MuteInv, TypeOK, Threads
  <1> QED BY <1>1, <1>2, <1>3, <1>4, <1>5, <1>6, <1>7

(* The audio thread copies its slot.                                        *)
LEMMA CopyGraphKeeps ==
  ASSUME SInv, CopyGraph
  PROVE  SInv'
  <1> USE SceneAssumption
  <1> USE DEF SInv, CopyGraph, EndConsume, audioRest, controlVars, setupVars, muteVars,
              reloadVars
  <1>1. IInv'
    BY EndConsumeKeeps
  <1>2. TypeOK'
    BY <1>1, SceneConstants DEF TypeOK, DiskInv, IInv, Threads
  <1>3. DiskInv'
    BY DEF DiskInv, TypeOK, Threads, File, Files
  <1>4. CountInv'
    BY DEF CountInv, TypeOK, Threads, ControlOwes, BluetoothOwes, Owing, Preparing
  <1>5. OrderInv'
    BY DEF OrderInv, TypeOK, MailboxTypeOK, IInv, Threads
  <1>6. MuteInv'
    BY DEF MuteInv, TypeOK, Swapping, OnTime
  <1>7. BootInv'
    BY SceneConstants DEF BootInv, DiskInv, MuteInv, TypeOK, Threads
  <1> QED BY <1>1, <1>2, <1>3, <1>4, <1>5, <1>6, <1>7

(* The audio thread takes the gains.                                        *)
LEMMA SnapshotGainsKeeps ==
  ASSUME SInv, SnapshotGains
  PROVE  SInv'
  <1> USE SceneAssumption
  <1> USE DEF SInv, SnapshotGains, audioRest, controlVars, setupVars, muteVars,
              reloadVars, mailboxVars
  <1>1. IInv'
    BY DEF IInv, MailboxTypeOK
  <1>2. TypeOK'
    BY <1>1, SceneConstants DEF TypeOK, DiskInv, IInv, Threads
  <1>3. DiskInv'
    BY DEF DiskInv, TypeOK, Threads, File, Files
  <1>4. CountInv'
    BY DEF CountInv, TypeOK, Threads, ControlOwes, BluetoothOwes, Owing, Preparing
  <1>5. OrderInv'
    BY DEF OrderInv, TypeOK, MailboxTypeOK, IInv, Threads
  <1>6. MuteInv'
    BY DEF MuteInv, TypeOK, Swapping, OnTime
  <1>7. BootInv'
    BY SceneConstants DEF BootInv, DiskInv, MuteInv, TypeOK, Threads
  <1> QED BY <1>1, <1>2, <1>3, <1>4, <1>5, <1>6, <1>7

(* It looks whether a release is due.                                       *)
LEMMA CheckReleaseKeeps ==
  ASSUME SInv, CheckRelease
  PROVE  SInv'
  <1> USE SceneAssumption
  <1> USE DEF SInv, CheckRelease, ReleaseDue, audioRest, controlVars, setupVars, muteVars,
              reloadVars, mailboxVars
  <1>1. IInv'
    BY DEF IInv, MailboxTypeOK
  <1>2. TypeOK'
    BY <1>1, SceneConstants DEF TypeOK, DiskInv, IInv, Threads
  <1>3. DiskInv'
    BY DEF DiskInv, TypeOK, Threads, File, Files
  <1>4. CountInv'
    BY DEF CountInv, TypeOK, Threads, ControlOwes, BluetoothOwes, Owing, Preparing
  <1>5. OrderInv'
    BY DEF OrderInv, TypeOK, MailboxTypeOK, IInv, Threads
  <1>6. MuteInv'
    BY DEF MuteInv, TypeOK, Swapping, OnTime
  <1>7. BootInv'
    BY SceneConstants DEF BootInv, DiskInv, MuteInv, TypeOK, Threads
  <1> QED BY <1>1, <1>2, <1>3, <1>4, <1>5, <1>6, <1>7

(* It lifts the mute while the release is still ordered,                    *)
LEMMA UnmuteKeeps ==
  ASSUME SInv, Unmute
  PROVE  SInv'
  <1> USE SceneAssumption
  <1> USE DEF SInv, Unmute, audioRest, controlVars, setupVars, reloadVars, mailboxVars
  <1>1. IInv'
    BY DEF IInv, MailboxTypeOK
  <1>2. TypeOK'
    BY <1>1, SceneConstants DEF TypeOK, DiskInv, IInv, Threads
  <1>3. DiskInv'
    BY DEF DiskInv, TypeOK, Threads, File, Files
  <1>4. CountInv'
    BY DEF CountInv, TypeOK, Threads, ControlOwes, BluetoothOwes, Owing, Preparing
  <1>5. OrderInv'
    BY DEF OrderInv, TypeOK, MailboxTypeOK, IInv, Threads
  <1>6. MuteInv'
    BY DEF MuteInv, TypeOK, Swapping, OnTime
  <1>7. BootInv'
    BY SceneConstants DEF BootInv, DiskInv, MuteInv, TypeOK, Threads
  <1> QED BY <1>1, <1>2, <1>3, <1>4, <1>5, <1>6, <1>7

(* and only then takes the order back.                                      *)
LEMMA ClearReleaseKeeps ==
  ASSUME SInv, ClearRelease
  PROVE  SInv'
  <1> USE SceneAssumption
  <1> USE DEF SInv, ClearRelease, audioRest, controlVars, setupVars, reloadVars,
              mailboxVars
  <1>1. IInv'
    BY DEF IInv, MailboxTypeOK
  <1>2. TypeOK'
    BY <1>1, SceneConstants DEF TypeOK, DiskInv, IInv, Threads
  <1>3. DiskInv'
    BY DEF DiskInv, TypeOK, Threads, File, Files
  <1>4. CountInv'
    BY DEF CountInv, TypeOK, Threads, ControlOwes, BluetoothOwes, Owing, Preparing
  <1>5. OrderInv'
    BY DEF OrderInv, TypeOK, MailboxTypeOK, IInv, Threads
  <1>6. MuteInv'
    BY DEF MuteInv, TypeOK, Swapping, OnTime
  <1>7. BootInv'
    BY SceneConstants DEF BootInv, DiskInv, MuteInv, TypeOK, Threads
  <1> QED BY <1>1, <1>2, <1>3, <1>4, <1>5, <1>6, <1>7

(* It takes the effects.                                                    *)
LEMMA ObserveControlsKeeps ==
  ASSUME SInv, ObserveControls
  PROVE  SInv'
  <1> USE SceneAssumption
  <1> USE DEF SInv, ObserveControls, audioRest, controlVars, setupVars, muteVars,
              reloadVars, mailboxVars
  <1>1. IInv'
    BY DEF IInv, MailboxTypeOK
  <1>2. TypeOK'
    BY <1>1, SceneConstants DEF TypeOK, DiskInv, IInv, Threads
  <1>3. DiskInv'
    BY DEF DiskInv, TypeOK, Threads, File, Files
  <1>4. CountInv'
    BY DEF CountInv, TypeOK, Threads, ControlOwes, BluetoothOwes, Owing, Preparing
  <1>5. OrderInv'
    BY DEF OrderInv, TypeOK, MailboxTypeOK, IInv, Threads
  <1>6. MuteInv'
    BY DEF MuteInv, TypeOK, Swapping, OnTime
  <1>7. BootInv'
    BY SceneConstants DEF BootInv, DiskInv, MuteInv, TypeOK, Threads
  <1> QED BY <1>1, <1>2, <1>3, <1>4, <1>5, <1>6, <1>7

(* It plays a block.                                                        *)
LEMMA PlayKeeps ==
  ASSUME SInv, Play
  PROVE  SInv'
  <1> USE SceneAssumption
  <1> USE DEF SInv, Play, Up, Down, audioRest, controlVars, setupVars, muteVars,
              reloadVars, mailboxVars
  <1>1. IInv'
    BY DEF IInv, MailboxTypeOK
  <1>2. TypeOK'
    BY <1>1, SceneConstants DEF TypeOK, DiskInv, IInv, Threads
  <1>3. DiskInv'
    BY DEF DiskInv, TypeOK, Threads, File, Files
  <1>4. CountInv'
    BY DEF CountInv, TypeOK, Threads, ControlOwes, BluetoothOwes, Owing, Preparing
  <1>5. OrderInv'
    BY DEF OrderInv, TypeOK, MailboxTypeOK, IInv, Threads
  <1>6. MuteInv'
    BY DEF MuteInv, TypeOK, Swapping, OnTime
  <1>7. BootInv'
    BY SceneConstants DEF BootInv, DiskInv, MuteInv, TypeOK, Threads
  <1> QED BY <1>1, <1>2, <1>3, <1>4, <1>5, <1>6, <1>7

(* It tells whether that block was silent.                                  *)
LEMMA AcknowledgeKeeps ==
  ASSUME SInv, Acknowledge
  PROVE  SInv'
  <1> USE SceneAssumption
  <1> USE DEF SInv, Acknowledge, audioRest, controlVars, setupVars, reloadVars,
              mailboxVars
  <1>1. IInv'
    BY DEF IInv, MailboxTypeOK
  <1>2. TypeOK'
    BY <1>1, SceneConstants DEF TypeOK, DiskInv, IInv, Threads
  <1>3. DiskInv'
    BY DEF DiskInv, TypeOK, Threads, File, Files
  <1>4. CountInv'
    BY DEF CountInv, TypeOK, Threads, ControlOwes, BluetoothOwes, Owing, Preparing
  <1>5. OrderInv'
    BY DEF OrderInv, TypeOK, MailboxTypeOK, IInv, Threads
  <1>6. MuteInv'
    BY DEF MuteInv, TypeOK, Swapping, OnTime
  <1>7. BootInv'
    BY SceneConstants DEF BootInv, DiskInv, MuteInv, TypeOK, Threads
  <1> QED BY <1>1, <1>2, <1>3, <1>4, <1>5, <1>6, <1>7

(* Every step keeps the invariant.                                         *)
LEMMA SceneStep == SInv /\ [Next]_vars => SInv'
  <1> SUFFICES ASSUME SInv, [Next]_vars PROVE SInv'
    OBVIOUS
  <1>1. ASSUME NEW s \in Setups, Recall(s) PROVE SInv'
    BY <1>1, RecallKeeps
  <1>2. CASE ControlNext
    BY <1>2, StartAudioKeeps, MuteOutputsKeeps, SilenceSeenKeeps, SilenceTimesOutKeeps,
       ReadOldFilesKeeps, ReadOldFilesFailsKeeps, WriteFileKeeps, WriteFailsKeeps,
       WriteCutShortKeeps, UndoFileKeeps, UndoFileFailsKeeps, UndoDoneKeeps,
          SwapEffectsKeeps,
       SwapGainsKeeps, OrderReleaseKeeps, ReloadFailedKeeps, SucceedKeeps
       DEF ControlNext
  <1>3. ASSUME NEW t \in Threads, ReloadNext(t) PROVE SInv'
    BY <1>3, ReadRoutesKeeps, ReadRoutesFailsKeeps, RejectRoutesKeeps, RewriteRoutesKeeps,
       PublishGraphKeeps, DeliverGraphKeeps
       DEF ReloadNext
  <1>4. CASE AudioNext
    BY <1>4, TakeGraphKeeps, NoNewGraphKeeps, CopyGraphKeeps, SnapshotGainsKeeps,
       CheckReleaseKeeps, UnmuteKeeps, ClearReleaseKeeps, ObserveControlsKeeps,
       PlayKeeps, AcknowledgeKeeps
       DEF AudioNext
  <1>5. CASE UNCHANGED vars
    <2> USE <1>5 DEF SInv
    <2> USE DEF vars, controlVars, setupVars, muteVars, reloadVars, audioVars, mailboxVars
    <2>1. IInv'
      BY DEF IInv, MailboxTypeOK
    <2>2. TypeOK'
      BY <2>1 DEF TypeOK, IInv
    <2>3. DiskInv' /\ BootInv'
      BY DEF DiskInv, BootInv
    <2>4. CountInv'
      BY DEF CountInv, ControlOwes, BluetoothOwes
    <2>5. OrderInv'
      BY DEF OrderInv
    <2>6. MuteInv'
      BY DEF MuteInv, OnTime
    <2> QED BY <2>1, <2>2, <2>3, <2>4, <2>5, <2>6
  <1> QED BY <1>1, <1>2, BluetoothRefreshKeeps, BluetoothReturnsKeeps, <1>3, <1>4, <1>5
     DEF Next

(* The invariant holds in every state the program reaches.                 *)
THEOREM SceneInvariance == Spec => []SInv
  BY SceneInit, SceneStep, PTL DEF Spec

(* The variables keep their types, the bounds of every counter included.   *)
THEOREM SceneTypes == Spec => []TypeOK
  BY SceneInvariance, PTL DEF SInv

(* While recall() reads and writes files and exchanges effects, gains and  *)
(* routing, nothing is heard: the audio thread has acknowledged a silent   *)
(* block, and no old release order can lift the mute under it.             *)
THEOREM SwapsInSilence == Spec => []SwapIsSilent
  <1>1. SInv => SwapIsSilent
    BY DEF SInv, MuteInv, SwapIsSilent, Swapping, OnTime
  <1> QED BY <1>1, SceneInvariance, PTL

(* The mailbox is used as its own specification has it: what the audio     *)
(* thread copies is a graph, whoever publishes.                            *)
THEOREM ScenesNeverTear == Spec => []NoTornGraph
  <1>1. SInv => NoTornGraph
    BY DEF SInv, IInv, NoTornGraph, MailboxTypeOK, Slot
  <1> QED BY <1>1, SceneInvariance, PTL

(* The audio thread never goes back to an older graph: generations grow on *)
(* the way from the publishers' slot through the middle one to its own.    *)
THEOREM NeverGoesBack == Spec => GraphNeverGoesBack
  <1>1. SInv /\ [Next]_vars => [rt'.generation >= rt.generation]_vars
    <2> SUFFICES ASSUME SInv, [Next]_vars, ~UNCHANGED vars
                 PROVE  rt'.generation >= rt.generation
      OBVIOUS
    <2>0. CASE rt' = rt
      <3>1. rt.generation \in Nat
        BY SceneConstants DEF SInv, TypeOK
      <3> QED BY <3>1, <2>0
    <2>1. rt' # rt => CopyGraph \/ SnapshotGains
      BY DEF Next, ControlNext, AudioNext, ReloadNext, vars, controlVars, setupVars,
             muteVars,
             reloadVars, audioVars, audioRest,
             Recall, BluetoothRefresh, BluetoothReturns, ReadRoutes, ReadRoutesFails,
             RejectRoutes, RewriteRoutes, PublishGraph, DeliverGraph,
             StartAudio, MuteOutputs, SilenceSeen, SilenceTimesOut, ReadOldFiles,
             ReadOldFilesFails, WriteFile, WriteFails, WriteCutShort, UndoFile,
                UndoFileFails,
             UndoDone, SwapEffects, SwapGains, OrderRelease, ReloadFailed, Succeed,
             TakeGraph, NoNewGraph, CheckRelease, Unmute, ClearRelease,
             ObserveControls, Play, Acknowledge
    <2>2. CASE CopyGraph
      <3>1. rt'.generation = slots[front].generation
        BY <2>2 DEF CopyGraph, EndConsume, SInv, TypeOK
      <3> QED BY <3>1 DEF SInv, OrderInv
    <2>3. CASE SnapshotGains
      BY <2>3, SceneConstants DEF SnapshotGains, SInv, TypeOK
    <2> QED BY <2>0, <2>1, <2>2, <2>3
  <1> QED BY <1>1, SceneInvariance, PTL DEF Spec, GraphNeverGoesBack

-----------------------------------------------------------------------------
(* What is heard, and what the files hold.                                 *)

(* None of the accidents that HeardIsOneSetup excepts has happened.        *)
Clean == mishaps \cap {"late", "stale", "rejected", "unread"} = {}

(* recall() is not about to exchange the setup, nor in the middle of it.   *)
Settled == {"boot", "idle", "mute", "await", "read", "write", "undo", "linger"}

(* The routing file, effects and gains belong together but while they are  *)
(* exchanged one after the other.                                          *)
RouteInv ==
  /\ control \in {"mute", "await", "read"} => ok
  /\ control = "write" /\ ~ok => next = 2
  /\ reload["control"].pc = "failed" => "unread" \in mishaps
  /\ Clean => /\ disk["routing"] = IF control = "swap" THEN scene ELSE effects
              /\ control \in {"mute", "await", "read", "write", "undo"} => saved["routing"] = effects
              /\ control \in {"gains", "reload"} => effects = scene
              /\ control # "gains" => gains = effects

(* Graphs on their way to the audio thread.                                *)
Flight == {slots[front]} \cup (IF middle.fresh THEN {slots[middle.slot]} ELSE {})

(* A graph is known by its number.                                         *)
SameInv ==
  /\ \A g \in Flight : g.generation = graph.generation => g.routes = graph.routes
  /\ rt.generation = graph.generation => rt.routes = graph.routes

(* A graph the mute may be lifted for has the routes of the setup, and the *)
(* gains are copied when it is taken.                                      *)
FlightInv ==
  /\ Clean /\ control \in Settled =>
       /\ graph.routes = effects
       /\ \A g \in Flight : g.generation >= release => g.routes = effects
       /\ rt.generation >= release => rt.routes = effects /\ (step = "gains" \/ rt.gains = effects)
  /\ Clean /\ control = "reload" /\ reload["control"].pc \in {"deliver", "done"} =>
       /\ graph.routes = effects
       /\ rt.generation = graph.generation => step = "gains" \/ rt.gains = effects

(* The effects a block is made with are those in force, or it is silent.   *)
BlockInv ==
  /\ ~muted /\ release # 0 => step = "clear"
  /\ step \in {"unmute", "clear"} => rt.generation >= release
  /\ OnTime /\ muted /\ release # 0 => fade = 0
  /\ Clean /\ control \in Settled /\ release = 0 /\ step = "play" => seen = effects
  /\ Clean /\ step = "ack" /\ loud => rt.routes = seen /\ rt.gains = seen

HeardInv == RouteInv /\ SameInv /\ FlightInv /\ BlockInv

(* None of the accidents that FilesMatchSetup excepts has happened.        *)
Whole == mishaps \cap {"stale", "unrestored", "full"} = {}

(* Where recall() stands in writing the files or in undoing it.            *)
FileInv ==
  Whole =>
    /\ control \in {"boot", "idle", "mute", "await", "read", "gains", "reload", "linger"} =>
         \A f \in File : disk[f] = effects
    /\ control \in {"mute", "await", "read", "write", "undo"} => \A f \in File : saved[f] = effects
    /\ control = "write" => /\ \A i \in next..4 : disk[Files[i]] = effects
                            /\ ok => \A i \in 1..(next - 1) : disk[Files[i]] = scene
    /\ control = "undo" => \A i \in 1..4 : i < next => disk[Files[i]] = effects
    /\ control = "swap" => \A f \in File : disk[f] = scene


(* Reading the routes changes no shared state.                              *)
LEMMA ReadRoutesHeard ==
  ASSUME SInv, SInv', HeardInv, NEW t \in Threads, ReadRoutes(t)
  PROVE  HeardInv'
  <1>1. RouteInv'
    BY SceneConstants DEF RouteInv, CountInv, Current, AfterWrite, AfterFailure, File, SInv,
       ReadRoutes, At, controlVars, setupVars, TypeOK, Threads, HeardInv, Clean
  <1>2. SameInv'
    BY SceneConstants DEF SameInv, OrderInv, Flight, SInv, ReadRoutes, At, audioVars, mailboxVars,
       IInv, MailboxTypeOK, TypeOK, Slot, Threads, HeardInv
  <1>3. FlightInv'
    BY SceneConstants DEF FlightInv, RouteInv, SameInv, OrderInv, MuteInv, BootInv, Flight,
       Settled, Swapping, OnTime, SInv, ReadRoutes, At, controlVars, setupVars, muteVars,
       audioVars, mailboxVars, IInv, MailboxTypeOK, TypeOK, Slot, Threads, HeardInv, Clean
  <1>4. BlockInv'
    BY SceneConstants DEF BlockInv, RouteInv, FlightInv, MuteInv, BootInv, Settled, Swapping,
       OnTime, SInv, ReadRoutes, At, controlVars, setupVars, muteVars, audioVars, TypeOK, Threads,
       HeardInv, Clean
  <1> QED BY <1>1, <1>2, <1>3, <1>4 DEF HeardInv

(* Failing to read them neither.                                            *)
LEMMA ReadRoutesFailsHeard ==
  ASSUME SInv, SInv', HeardInv, NEW t \in Threads, ReadRoutesFails(t)
  PROVE  HeardInv'
  <1>1. RouteInv'
    BY SceneConstants DEF RouteInv, CountInv, Current, AfterWrite, AfterFailure, File, SInv,
       ReadRoutesFails, At, Goto, Fault, Mishap, controlVars, setupVars, TypeOK, Threads,
       HeardInv, Clean
  <1>2. SameInv'
    BY SceneConstants DEF SameInv, OrderInv, Flight, SInv, ReadRoutesFails, At, Goto, audioVars,
       mailboxVars, IInv, MailboxTypeOK, TypeOK, Slot, Threads, HeardInv
  <1>3. FlightInv'
    BY SceneConstants DEF FlightInv, RouteInv, SameInv, OrderInv, MuteInv, BootInv, Flight,
       Settled, Swapping, OnTime, SInv, ReadRoutesFails, At, Goto, Fault, Mishap, controlVars,
       setupVars, muteVars, audioVars, mailboxVars, IInv, MailboxTypeOK, TypeOK, Slot, Threads,
       HeardInv, Clean
  <1>4. BlockInv'
    BY SceneConstants DEF BlockInv, RouteInv, FlightInv, MuteInv, BootInv, Settled, Swapping,
       OnTime, SInv, ReadRoutesFails, At, Goto, Fault, Mishap, controlVars, setupVars, muteVars,
       audioVars, TypeOK, Threads, HeardInv, Clean
  <1> QED BY <1>1, <1>2, <1>3, <1>4 DEF HeardInv

(* A refused update publishes nothing.                                      *)
LEMMA RejectRoutesHeard ==
  ASSUME SInv, SInv', HeardInv, NEW t \in Threads, RejectRoutes(t)
  PROVE  HeardInv'
  <1>1. RouteInv'
    BY SceneConstants DEF RouteInv, CountInv, Current, AfterWrite, AfterFailure, File, SInv,
       RejectRoutes, At, Goto, Mishap, controlVars, setupVars, TypeOK, Threads, HeardInv, Clean
  <1>2. SameInv'
    BY SceneConstants DEF SameInv, OrderInv, Flight, SInv, RejectRoutes, At, Goto, audioVars,
       mailboxVars, IInv, MailboxTypeOK, TypeOK, Slot, Threads, HeardInv
  <1>3. FlightInv'
    BY SceneConstants DEF FlightInv, RouteInv, SameInv, OrderInv, MuteInv, BootInv, Flight,
       Settled, Swapping, OnTime, SInv, RejectRoutes, At, Goto, Mishap, controlVars, setupVars,
       muteVars, audioVars, mailboxVars, IInv, MailboxTypeOK, TypeOK, Slot, Threads, HeardInv,
       Clean
  <1>4. BlockInv'
    BY SceneConstants DEF BlockInv, RouteInv, FlightInv, MuteInv, BootInv, Settled, Swapping,
       OnTime, SInv, RejectRoutes, At, Goto, Mishap, controlVars, setupVars, muteVars, audioVars,
       TypeOK, Threads, HeardInv, Clean
  <1> QED BY <1>1, <1>2, <1>3, <1>4 DEF HeardInv

(* Writing routes back publishes nothing yet.                               *)
LEMMA RewriteRoutesHeard ==
  ASSUME SInv, SInv', HeardInv, NEW t \in Threads, RewriteRoutes(t)
  PROVE  HeardInv'
  <1>1. RouteInv'
    BY SceneConstants DEF RouteInv, CountInv, Current, AfterWrite, AfterFailure, File, SInv,
       RewriteRoutes, At, Goto, Mishap, controlVars, TypeOK, Threads, HeardInv, Clean
  <1>2. SameInv'
    BY SceneConstants DEF SameInv, OrderInv, Flight, SInv, RewriteRoutes, At, Goto, audioVars,
       mailboxVars, IInv, MailboxTypeOK, TypeOK, Slot, Threads, HeardInv
  <1>3. FlightInv'
    BY SceneConstants DEF FlightInv, RouteInv, SameInv, OrderInv, MuteInv, BootInv, Flight,
       Settled, Swapping, OnTime, SInv, RewriteRoutes, At, Goto, Mishap, controlVars, muteVars,
       audioVars, mailboxVars, IInv, MailboxTypeOK, TypeOK, Slot, Threads, HeardInv, Clean
  <1>4. BlockInv'
    BY SceneConstants DEF BlockInv, RouteInv, FlightInv, MuteInv, BootInv, Settled, Swapping,
       OnTime, SInv, RewriteRoutes, At, Goto, Mishap, controlVars, muteVars, audioVars, TypeOK,
       Threads, HeardInv, Clean
  <1> QED BY <1>1, <1>2, <1>3, <1>4 DEF HeardInv

(* A publisher numbers its graph and starts copying it.                     *)
LEMMA PublishGraphHeard ==
  ASSUME SInv, SInv', HeardInv, NEW t \in Threads, PublishGraph(t)
  PROVE  HeardInv'
  <1>1. RouteInv'
    BY SceneConstants DEF RouteInv, CountInv, Current, AfterWrite, AfterFailure, File, SInv,
       PublishGraph, At, Goto, Mishap, BeginPublish, controlVars, setupVars, TypeOK, Threads,
       HeardInv, Clean
  <1>2. /\ slots'[front'] = slots[front] /\ slots'[middle'.slot] = slots[middle.slot]
        /\ slots[front].generation \in Nat /\ graph.generation \in Nat
        /\ rt.generation \in Nat
        /\ middle.fresh => slots[middle.slot].generation \in Nat
    <2>1. slots[front] \in Graphs /\ slots[middle.slot] \in Graphs
      BY SceneConstants DEF SInv, PublishGraph, At, Goto, Mishap, BeginPublish, controlVars,
         setupVars, muteVars, audioVars, IInv, MailboxTypeOK, TypeOK, Slot, Threads, HeardInv,
         Clean
    <2> QED BY <2>1, SceneAssumption, SceneConstants DEF SInv, PublishGraph, At, Goto, Mishap,
               BeginPublish, controlVars, setupVars, muteVars, audioVars, IInv, MailboxTypeOK,
               TypeOK, Slot, Threads, HeardInv, Clean
  <1>3. /\ graph'.generation = graph.generation + 1 /\ graph'.routes = reload[t].routes
        /\ rt' = rt /\ middle' = middle
    BY SceneConstants DEF SInv, PublishGraph, At, Goto, Mishap, BeginPublish, controlVars,
       setupVars, muteVars, audioVars, IInv, MailboxTypeOK, TypeOK, Slot, Threads, HeardInv, Clean
  <1>4. /\ slots'[front'].generation < graph'.generation
        /\ middle'.fresh => slots'[middle'.slot].generation < graph'.generation
        /\ rt'.generation < graph'.generation
    BY <1>2, <1>3, SceneConstants DEF OrderInv, SInv, PublishGraph, At, Goto, Mishap,
       BeginPublish, controlVars, setupVars, muteVars, audioVars, IInv, MailboxTypeOK, TypeOK,
       Slot, Threads, HeardInv, Clean
  <1>5. SameInv'
    BY <1>2, <1>3, <1>4, SceneConstants DEF SameInv, Flight, SInv, PublishGraph, At, Goto,
       BeginPublish, audioVars, IInv, MailboxTypeOK, TypeOK, Slot, Threads, HeardInv
  <1>6. FlightInv'
    <2>1. Clean' => Clean /\ graph'.routes = disk["routing"]
      BY <1>3, SceneConstants DEF SInv, PublishGraph, At, Goto, Mishap, BeginPublish, controlVars,
         setupVars, muteVars, audioVars, IInv, MailboxTypeOK, TypeOK, Slot, Threads, HeardInv,
         Clean
    <2>2. Flight' = Flight
      BY <1>2, <1>3, SceneConstants DEF Flight, SInv, PublishGraph, At, Goto, Mishap,
         BeginPublish, controlVars, setupVars, muteVars, audioVars, IInv, MailboxTypeOK, TypeOK,
         Slot, Threads, HeardInv, Clean
    <2>3. ASSUME Clean', control \in Settled
          PROVE  /\ graph'.routes = effects
                 /\ \A g \in Flight : g.generation >= release => g.routes = effects
                 /\ rt.generation >= release =>
                      rt.routes = effects /\ (step = "gains" \/ rt.gains = effects)
      BY <2>1, <2>3, SceneConstants DEF FlightInv, RouteInv, Settled, SInv, PublishGraph, At,
         Goto, Mishap, BeginPublish, controlVars, setupVars, muteVars, audioVars, IInv,
         MailboxTypeOK, TypeOK, Slot, Threads, HeardInv, Clean
    <2>4. ASSUME Clean', control = "reload"
          PROVE  graph'.routes = effects
      BY <2>1, <2>4, SceneConstants DEF RouteInv, SInv, PublishGraph, At, Goto, Mishap,
         BeginPublish, controlVars, setupVars, muteVars, audioVars, IInv, MailboxTypeOK, TypeOK,
         Slot, Threads, HeardInv, Clean
    <2>5. ~(rt'.generation = graph'.generation)
      BY <1>2, <1>3, <1>4, SceneConstants DEF SInv, PublishGraph, At, Goto, Mishap, BeginPublish,
         controlVars, setupVars, muteVars, audioVars, IInv, MailboxTypeOK, TypeOK, Slot, Threads,
         HeardInv, Clean
    <2> QED BY <2>2, <2>3, <2>4, <2>5, SceneConstants DEF FlightInv, SInv, PublishGraph, At, Goto,
               Mishap, BeginPublish, controlVars, setupVars, muteVars, audioVars, IInv,
               MailboxTypeOK, TypeOK, Slot, Threads, HeardInv, Clean
  <1>7. BlockInv'
    BY SceneConstants DEF BlockInv, RouteInv, FlightInv, MuteInv, BootInv, Settled, Swapping,
       OnTime, SInv, PublishGraph, At, Goto, Mishap, BeginPublish, controlVars, setupVars,
       muteVars, audioVars, TypeOK, Threads, HeardInv, Clean
  <1> QED BY <1>1, <1>5, <1>6, <1>7 DEF HeardInv

(* The copy is exchanged for the middle slot.                               *)
LEMMA DeliverGraphHeard ==
  ASSUME SInv, SInv', HeardInv, NEW t \in Threads, DeliverGraph(t)
  PROVE  HeardInv'
  <1>1. RouteInv'
    BY SceneConstants DEF RouteInv, CountInv, Current, AfterWrite, AfterFailure, File, SInv,
       DeliverGraph, At, Goto, EndPublish, controlVars, setupVars, TypeOK, Threads, HeardInv,
       Clean
  <1>2. SameInv'
    BY SceneConstants DEF SameInv, OrderInv, Flight, SInv, DeliverGraph, At, Goto, EndPublish,
       audioVars, IInv, MailboxTypeOK, TypeOK, Slot, Threads, HeardInv
  <1>3. FlightInv'
    BY SceneConstants DEF FlightInv, RouteInv, SameInv, OrderInv, MuteInv, BootInv, Flight,
       Settled, Swapping, OnTime, SInv, DeliverGraph, At, Goto, EndPublish, controlVars,
       setupVars, muteVars, audioVars, IInv, MailboxTypeOK, TypeOK, Slot, Threads, HeardInv, Clean
  <1>4. BlockInv'
    BY SceneConstants DEF BlockInv, RouteInv, FlightInv, MuteInv, BootInv, Settled, Swapping,
       OnTime, SInv, DeliverGraph, At, Goto, EndPublish, controlVars, setupVars, muteVars,
       audioVars, TypeOK, Threads, HeardInv, Clean
  <1> QED BY <1>1, <1>2, <1>3, <1>4 DEF HeardInv

(* The Bluetooth thread starts a reload.                                    *)
LEMMA BluetoothRefreshHeard ==
  ASSUME SInv, SInv', HeardInv, BluetoothRefresh
  PROVE  HeardInv'
  <1>1. RouteInv'
    BY SceneConstants DEF RouteInv, CountInv, Current, AfterWrite, AfterFailure, File, SInv,
       BluetoothRefresh, At, Goto, controlVars, setupVars, TypeOK, Threads, HeardInv, Clean
  <1>2. SameInv'
    BY SceneConstants DEF SameInv, OrderInv, Flight, SInv, BluetoothRefresh, At, Goto, audioVars,
       mailboxVars, IInv, MailboxTypeOK, TypeOK, Slot, Threads, HeardInv
  <1>3. FlightInv'
    BY SceneConstants DEF FlightInv, RouteInv, SameInv, OrderInv, MuteInv, BootInv, Flight,
       Settled, Swapping, OnTime, SInv, BluetoothRefresh, At, Goto, controlVars, setupVars,
       muteVars, audioVars, mailboxVars, IInv, MailboxTypeOK, TypeOK, Slot, Threads, HeardInv,
       Clean
  <1>4. BlockInv'
    BY SceneConstants DEF BlockInv, RouteInv, FlightInv, MuteInv, BootInv, Settled, Swapping,
       OnTime, SInv, BluetoothRefresh, At, Goto, controlVars, setupVars, muteVars, audioVars,
       TypeOK, Threads, HeardInv, Clean
  <1> QED BY <1>1, <1>2, <1>3, <1>4 DEF HeardInv

(* The Bluetooth thread is done with it.                                    *)
LEMMA BluetoothReturnsHeard ==
  ASSUME SInv, SInv', HeardInv, BluetoothReturns
  PROVE  HeardInv'
  <1>1. RouteInv'
    BY SceneConstants DEF RouteInv, CountInv, Current, AfterWrite, AfterFailure, File, SInv,
       BluetoothReturns, At, Leave, IdleReload, controlVars, setupVars, TypeOK, Threads, HeardInv,
       Clean
  <1>2. SameInv'
    BY SceneConstants DEF SameInv, OrderInv, Flight, SInv, BluetoothReturns, At, Leave,
       IdleReload, audioVars, mailboxVars, IInv, MailboxTypeOK, TypeOK, Slot, Threads, HeardInv
  <1>3. FlightInv'
    BY SceneConstants DEF FlightInv, RouteInv, SameInv, OrderInv, MuteInv, BootInv, Flight,
       Settled, Swapping, OnTime, SInv, BluetoothReturns, At, Leave, IdleReload, controlVars,
       setupVars, muteVars, audioVars, mailboxVars, IInv, MailboxTypeOK, TypeOK, Slot, Threads,
       HeardInv, Clean
  <1>4. BlockInv'
    BY SceneConstants DEF BlockInv, RouteInv, FlightInv, MuteInv, BootInv, Settled, Swapping,
       OnTime, SInv, BluetoothReturns, At, Leave, IdleReload, controlVars, setupVars, muteVars,
       audioVars, TypeOK, Threads, HeardInv, Clean
  <1> QED BY <1>1, <1>2, <1>3, <1>4 DEF HeardInv

(* The audio thread is started.                                             *)
LEMMA StartAudioHeard ==
  ASSUME SInv, SInv', HeardInv, StartAudio
  PROVE  HeardInv'
  <1>1. RouteInv'
    BY SceneConstants DEF RouteInv, CountInv, Current, AfterWrite, AfterFailure, File, SInv,
       StartAudio, At, Leave, IdleReload, setupVars, TypeOK, Threads, HeardInv, Clean
  <1>2. SameInv'
    BY SceneConstants DEF SameInv, OrderInv, Flight, SInv, StartAudio, At, Leave, IdleReload,
       mailboxVars, IInv, MailboxTypeOK, TypeOK, Slot, Threads, HeardInv
  <1>3. FlightInv'
    BY SceneConstants DEF FlightInv, RouteInv, SameInv, OrderInv, MuteInv, BootInv, Flight,
       Settled, Swapping, OnTime, SInv, StartAudio, At, Leave, IdleReload, setupVars, muteVars,
       mailboxVars, IInv, MailboxTypeOK, TypeOK, Slot, Threads, HeardInv, Clean
  <1>4. BlockInv'
    BY SceneConstants DEF BlockInv, RouteInv, FlightInv, MuteInv, BootInv, Settled, Swapping,
       OnTime, SInv, StartAudio, At, Leave, IdleReload, setupVars, muteVars, TypeOK, Threads,
       HeardInv, Clean
  <1> QED BY <1>1, <1>2, <1>3, <1>4 DEF HeardInv

(* A recall asks anew: sceneSilent is cleared before sceneMuted is set.     *)
LEMMA RecallHeard ==
  ASSUME SInv, SInv', HeardInv, NEW s \in Setups, Recall(s)
  PROVE  HeardInv'
  <1>1. RouteInv'
    BY SceneConstants DEF RouteInv, CountInv, Current, AfterWrite, AfterFailure, File, SInv,
       Recall, setupVars, reloadVars, TypeOK, Threads, HeardInv, Clean
  <1>2. SameInv'
    BY SceneConstants DEF SameInv, OrderInv, Flight, SInv, Recall, reloadVars, audioVars,
       mailboxVars, IInv, MailboxTypeOK, TypeOK, Slot, Threads, HeardInv
  <1>3. FlightInv'
    BY SceneConstants DEF FlightInv, RouteInv, SameInv, OrderInv, MuteInv, BootInv, Flight,
       Settled, Swapping, OnTime, SInv, Recall, setupVars, reloadVars, audioVars, mailboxVars,
       IInv, MailboxTypeOK, TypeOK, Slot, Threads, HeardInv, Clean
  <1>4. BlockInv'
    BY SceneConstants DEF BlockInv, RouteInv, FlightInv, MuteInv, BootInv, Settled, Swapping,
       OnTime, SInv, Recall, setupVars, audioVars, TypeOK, Threads, HeardInv, Clean
  <1> QED BY <1>1, <1>2, <1>3, <1>4 DEF HeardInv

(* The outputs are muted.                                                   *)
LEMMA MuteOutputsHeard ==
  ASSUME SInv, SInv', HeardInv, MuteOutputs
  PROVE  HeardInv'
  <1>1. RouteInv'
    BY SceneConstants DEF RouteInv, CountInv, Current, AfterWrite, AfterFailure, File, SInv,
       MuteOutputs, setupVars, reloadVars, TypeOK, Threads, HeardInv, Clean
  <1>2. SameInv'
    BY SceneConstants DEF SameInv, OrderInv, Flight, SInv, MuteOutputs, reloadVars, audioVars,
       mailboxVars, IInv, MailboxTypeOK, TypeOK, Slot, Threads, HeardInv
  <1>3. FlightInv'
    BY SceneConstants DEF FlightInv, RouteInv, SameInv, OrderInv, MuteInv, BootInv, Flight,
       Settled, Swapping, OnTime, SInv, MuteOutputs, setupVars, reloadVars, audioVars,
       mailboxVars, IInv, MailboxTypeOK, TypeOK, Slot, Threads, HeardInv, Clean
  <1>4. BlockInv'
    BY SceneConstants DEF BlockInv, RouteInv, FlightInv, MuteInv, BootInv, Settled, Swapping,
       OnTime, SInv, MuteOutputs, setupVars, audioVars, TypeOK, Threads, HeardInv, Clean
  <1> QED BY <1>1, <1>2, <1>3, <1>4 DEF HeardInv

(* The answer seen is one to this recall.                                   *)
LEMMA SilenceSeenHeard ==
  ASSUME SInv, SInv', HeardInv, SilenceSeen
  PROVE  HeardInv'
  <1>1. RouteInv'
    BY SceneConstants DEF RouteInv, CountInv, Current, AfterWrite, AfterFailure, File, SInv,
       SilenceSeen, setupVars, reloadVars, TypeOK, Threads, HeardInv, Clean
  <1>2. SameInv'
    BY SceneConstants DEF SameInv, OrderInv, Flight, SInv, SilenceSeen, reloadVars, audioVars,
       mailboxVars, IInv, MailboxTypeOK, TypeOK, Slot, Threads, HeardInv
  <1>3. FlightInv'
    BY SceneConstants DEF FlightInv, RouteInv, SameInv, OrderInv, MuteInv, BootInv, Flight,
       Settled, Swapping, OnTime, SInv, SilenceSeen, setupVars, muteVars, reloadVars, audioVars,
       mailboxVars, IInv, MailboxTypeOK, TypeOK, Slot, Threads, HeardInv, Clean
  <1>4. BlockInv'
    BY SceneConstants DEF BlockInv, RouteInv, FlightInv, MuteInv, BootInv, Settled, Swapping,
       OnTime, SInv, SilenceSeen, setupVars, muteVars, audioVars, TypeOK, Threads, HeardInv, Clean
  <1> QED BY <1>1, <1>2, <1>3, <1>4 DEF HeardInv

(* Giving up lifts the mute.                                                *)
LEMMA SilenceTimesOutHeard ==
  ASSUME SInv, SInv', HeardInv, SilenceTimesOut
  PROVE  HeardInv'
  <1>1. RouteInv'
    BY SceneConstants DEF RouteInv, CountInv, Current, AfterWrite, AfterFailure, File, SInv,
       SilenceTimesOut, Fail, Return, Fault, Mishap, setupVars, reloadVars, TypeOK, Threads,
       HeardInv, Clean
  <1>2. SameInv'
    BY SceneConstants DEF SameInv, OrderInv, Flight, SInv, SilenceTimesOut, reloadVars, audioVars,
       mailboxVars, IInv, MailboxTypeOK, TypeOK, Slot, Threads, HeardInv
  <1>3. FlightInv'
    BY SceneConstants DEF FlightInv, RouteInv, SameInv, OrderInv, MuteInv, BootInv, Flight,
       Settled, Swapping, OnTime, SInv, SilenceTimesOut, Fail, Return, Fault, Mishap, setupVars,
       reloadVars, audioVars, mailboxVars, IInv, MailboxTypeOK, TypeOK, Slot, Threads, HeardInv,
       Clean
  <1>4. BlockInv'
    BY SceneConstants DEF BlockInv, RouteInv, FlightInv, MuteInv, BootInv, Settled, Swapping,
       OnTime, SInv, SilenceTimesOut, Fail, Return, Fault, Mishap, setupVars, audioVars, TypeOK,
       Threads, HeardInv, Clean
  <1> QED BY <1>1, <1>2, <1>3, <1>4 DEF HeardInv

(* Reading the old files changes nothing else.                              *)
LEMMA ReadOldFilesHeard ==
  ASSUME SInv, SInv', HeardInv, ReadOldFiles
  PROVE  HeardInv'
  <1>1. RouteInv'
    <2>1. saved'["routing"] = disk["routing"]
      BY SceneConstants DEF SInv, ReadOldFiles, setupVars, reloadVars, TypeOK, Threads, HeardInv,
         Clean
    <2> QED BY <2>1, SceneConstants DEF RouteInv, MuteInv, CountInv, SInv, ReadOldFiles,
               setupVars, reloadVars, TypeOK, Threads, HeardInv, Clean
  <1>2. SameInv'
    BY SceneConstants DEF SameInv, OrderInv, Flight, SInv, ReadOldFiles, reloadVars, audioVars,
       mailboxVars, IInv, MailboxTypeOK, TypeOK, Slot, Threads, HeardInv
  <1>3. FlightInv'
    BY SceneConstants DEF FlightInv, RouteInv, SameInv, OrderInv, MuteInv, BootInv, Flight,
       Settled, Swapping, OnTime, SInv, ReadOldFiles, setupVars, muteVars, reloadVars, audioVars,
       mailboxVars, IInv, MailboxTypeOK, TypeOK, Slot, Threads, HeardInv, Clean
  <1>4. BlockInv'
    BY SceneConstants DEF BlockInv, RouteInv, FlightInv, MuteInv, BootInv, Settled, Swapping,
       OnTime, SInv, ReadOldFiles, setupVars, muteVars, audioVars, TypeOK, Threads, HeardInv,
       Clean
  <1> QED BY <1>1, <1>2, <1>3, <1>4 DEF HeardInv

(* Failing to read them lifts the mute.                                     *)
LEMMA ReadOldFilesFailsHeard ==
  ASSUME SInv, SInv', HeardInv, ReadOldFilesFails
  PROVE  HeardInv'
  <1>1. RouteInv'
    BY SceneConstants DEF RouteInv, CountInv, Current, AfterWrite, AfterFailure, File, SInv,
       ReadOldFilesFails, Fail, Return, Fault, Mishap, setupVars, reloadVars, TypeOK, Threads,
       HeardInv, Clean
  <1>2. SameInv'
    BY SceneConstants DEF SameInv, OrderInv, Flight, SInv, ReadOldFilesFails, reloadVars,
       audioVars, mailboxVars, IInv, MailboxTypeOK, TypeOK, Slot, Threads, HeardInv
  <1>3. FlightInv'
    BY SceneConstants DEF FlightInv, RouteInv, SameInv, OrderInv, MuteInv, BootInv, Flight,
       Settled, Swapping, OnTime, SInv, ReadOldFilesFails, Fail, Return, Fault, Mishap, setupVars,
       reloadVars, audioVars, mailboxVars, IInv, MailboxTypeOK, TypeOK, Slot, Threads, HeardInv,
       Clean
  <1>4. BlockInv'
    BY SceneConstants DEF BlockInv, RouteInv, FlightInv, MuteInv, BootInv, Settled, Swapping,
       OnTime, SInv, ReadOldFilesFails, Fail, Return, Fault, Mishap, setupVars, audioVars, TypeOK,
       Threads, HeardInv, Clean
  <1> QED BY <1>1, <1>2, <1>3, <1>4 DEF HeardInv

(* Writing a file.                                                          *)
LEMMA WriteFileHeard ==
  ASSUME SInv, SInv', HeardInv, WriteFile
  PROVE  HeardInv'
  <1>1. RouteInv'
    BY SceneConstants DEF RouteInv, CountInv, Current, AfterWrite, AfterFailure, File, SInv,
       WriteFile, reloadVars, TypeOK, Threads, HeardInv, Clean
  <1>2. SameInv'
    BY SceneConstants DEF SameInv, OrderInv, Flight, SInv, WriteFile, AfterWrite, Current,
       reloadVars, audioVars, mailboxVars, IInv, MailboxTypeOK, TypeOK, Slot, Threads, HeardInv
  <1>3. FlightInv'
    BY SceneConstants DEF FlightInv, RouteInv, SameInv, OrderInv, MuteInv, BootInv, Flight,
       Settled, Swapping, OnTime, SInv, WriteFile, AfterWrite, Current, muteVars, reloadVars,
       audioVars, mailboxVars, IInv, MailboxTypeOK, TypeOK, Slot, Threads, HeardInv, Clean
  <1>4. BlockInv'
    BY SceneConstants DEF BlockInv, RouteInv, FlightInv, MuteInv, BootInv, Settled, Swapping,
       OnTime, SInv, WriteFile, AfterWrite, Current, muteVars, audioVars, TypeOK, Threads,
       HeardInv, Clean
  <1> QED BY <1>1, <1>2, <1>3, <1>4 DEF HeardInv

(* A file that cannot be written.                                           *)
LEMMA WriteFailsHeard ==
  ASSUME SInv, SInv', HeardInv, WriteFails
  PROVE  HeardInv'
  <1>1. RouteInv'
    BY SceneConstants DEF RouteInv, CountInv, Current, AfterWrite, AfterFailure, File, SInv,
       WriteFails, Fault, reloadVars, TypeOK, Threads, HeardInv, Clean
  <1>2. SameInv'
    BY SceneConstants DEF SameInv, OrderInv, Flight, SInv, WriteFails, AfterWrite, Current,
       AfterFailure, reloadVars, audioVars, mailboxVars, IInv, MailboxTypeOK, TypeOK, Slot,
       Threads, HeardInv
  <1>3. FlightInv'
    BY SceneConstants DEF FlightInv, RouteInv, SameInv, OrderInv, MuteInv, BootInv, Flight,
       Settled, Swapping, OnTime, SInv, WriteFails, AfterWrite, Current, Fault, AfterFailure,
       muteVars, reloadVars, audioVars, mailboxVars, IInv, MailboxTypeOK, TypeOK, Slot, Threads,
       HeardInv, Clean
  <1>4. BlockInv'
    BY SceneConstants DEF BlockInv, RouteInv, FlightInv, MuteInv, BootInv, Settled, Swapping,
       OnTime, SInv, WriteFails, AfterWrite, Current, Fault, AfterFailure, muteVars, audioVars,
       TypeOK, Threads, HeardInv, Clean
  <1> QED BY <1>1, <1>2, <1>3, <1>4 DEF HeardInv

(* A file that is cut short.                                                *)
LEMMA WriteCutShortHeard ==
  ASSUME SInv, SInv', HeardInv, WriteCutShort
  PROVE  HeardInv'
  <1>1. RouteInv'
    BY SceneConstants DEF RouteInv, CountInv, Current, AfterWrite, AfterFailure, File, SInv,
       WriteCutShort, Fault, Mishap, reloadVars, TypeOK, Threads, HeardInv, Clean
  <1>2. SameInv'
    BY SceneConstants DEF SameInv, OrderInv, Flight, SInv, WriteCutShort, AfterWrite, Current,
       reloadVars, audioVars, mailboxVars, IInv, MailboxTypeOK, TypeOK, Slot, Threads, HeardInv
  <1>3. FlightInv'
    BY SceneConstants DEF FlightInv, RouteInv, SameInv, OrderInv, MuteInv, BootInv, Flight,
       Settled, Swapping, OnTime, SInv, WriteCutShort, AfterWrite, Current, Fault, Mishap,
       muteVars, reloadVars, audioVars, mailboxVars, IInv, MailboxTypeOK, TypeOK, Slot, Threads,
       HeardInv, Clean
  <1>4. BlockInv'
    BY SceneConstants DEF BlockInv, RouteInv, FlightInv, MuteInv, BootInv, Settled, Swapping,
       OnTime, SInv, WriteCutShort, AfterWrite, Current, Fault, Mishap, muteVars, audioVars,
       TypeOK, Threads, HeardInv, Clean
  <1> QED BY <1>1, <1>2, <1>3, <1>4 DEF HeardInv

(* An old file is written back.                                             *)
LEMMA UndoFileHeard ==
  ASSUME SInv, SInv', HeardInv, UndoFile
  PROVE  HeardInv'
  <1>1. RouteInv'
    BY SceneConstants DEF RouteInv, CountInv, Current, AfterWrite, AfterFailure, File, SInv,
       UndoFile, reloadVars, TypeOK, Threads, HeardInv, Clean
  <1>2. SameInv'
    BY SceneConstants DEF SameInv, OrderInv, Flight, SInv, UndoFile, Current, reloadVars,
       audioVars, mailboxVars, IInv, MailboxTypeOK, TypeOK, Slot, Threads, HeardInv
  <1>3. FlightInv'
    BY SceneConstants DEF FlightInv, RouteInv, SameInv, OrderInv, MuteInv, BootInv, Flight,
       Settled, Swapping, OnTime, SInv, UndoFile, Current, muteVars, reloadVars, audioVars,
       mailboxVars, IInv, MailboxTypeOK, TypeOK, Slot, Threads, HeardInv, Clean
  <1>4. BlockInv'
    BY SceneConstants DEF BlockInv, RouteInv, FlightInv, MuteInv, BootInv, Settled, Swapping,
       OnTime, SInv, UndoFile, Current, muteVars, audioVars, TypeOK, Threads, HeardInv, Clean
  <1> QED BY <1>1, <1>2, <1>3, <1>4 DEF HeardInv

(* An old file cannot be written back.                                      *)
LEMMA UndoFileFailsHeard ==
  ASSUME SInv, SInv', HeardInv, UndoFileFails
  PROVE  HeardInv'
  <1>1. RouteInv'
    BY SceneConstants DEF RouteInv, CountInv, Current, AfterWrite, AfterFailure, File, SInv,
       UndoFileFails, Mishap, setupVars, reloadVars, TypeOK, Threads, HeardInv, Clean
  <1>2. SameInv'
    BY SceneConstants DEF SameInv, OrderInv, Flight, SInv, UndoFileFails, reloadVars, audioVars,
       mailboxVars, IInv, MailboxTypeOK, TypeOK, Slot, Threads, HeardInv
  <1>3. FlightInv'
    BY SceneConstants DEF FlightInv, RouteInv, SameInv, OrderInv, MuteInv, BootInv, Flight,
       Settled, Swapping, OnTime, SInv, UndoFileFails, Mishap, setupVars, muteVars, reloadVars,
       audioVars, mailboxVars, IInv, MailboxTypeOK, TypeOK, Slot, Threads, HeardInv, Clean
  <1>4. BlockInv'
    BY SceneConstants DEF BlockInv, RouteInv, FlightInv, MuteInv, BootInv, Settled, Swapping,
       OnTime, SInv, UndoFileFails, Mishap, setupVars, muteVars, audioVars, TypeOK, Threads,
       HeardInv, Clean
  <1> QED BY <1>1, <1>2, <1>3, <1>4 DEF HeardInv

(* A recall that was undone lifts the mute.                                 *)
LEMMA UndoDoneHeard ==
  ASSUME SInv, SInv', HeardInv, UndoDone
  PROVE  HeardInv'
  <1>1. RouteInv'
    BY SceneConstants DEF RouteInv, CountInv, Current, AfterWrite, AfterFailure, File, SInv,
       UndoDone, Fail, Return, Mishap, setupVars, reloadVars, TypeOK, Threads, HeardInv, Clean
  <1>2. SameInv'
    BY SceneConstants DEF SameInv, OrderInv, Flight, SInv, UndoDone, reloadVars, audioVars,
       mailboxVars, IInv, MailboxTypeOK, TypeOK, Slot, Threads, HeardInv
  <1>3. FlightInv'
    BY SceneConstants DEF FlightInv, RouteInv, SameInv, OrderInv, MuteInv, BootInv, Flight,
       Settled, Swapping, OnTime, SInv, UndoDone, Fail, Return, Mishap, setupVars, reloadVars,
       audioVars, mailboxVars, IInv, MailboxTypeOK, TypeOK, Slot, Threads, HeardInv, Clean
  <1>4. BlockInv'
    BY SceneConstants DEF BlockInv, RouteInv, FlightInv, MuteInv, BootInv, Settled, Swapping,
       OnTime, SInv, UndoDone, Fail, Return, Mishap, setupVars, audioVars, TypeOK, Threads,
       HeardInv, Clean
  <1> QED BY <1>1, <1>2, <1>3, <1>4 DEF HeardInv

(* The effects are exchanged.                                               *)
LEMMA SwapEffectsHeard ==
  ASSUME SInv, SInv', HeardInv, SwapEffects
  PROVE  HeardInv'
  <1>1. RouteInv'
    BY SceneConstants DEF RouteInv, CountInv, Current, AfterWrite, AfterFailure, File, SInv,
       SwapEffects, reloadVars, TypeOK, Threads, HeardInv, Clean
  <1>2. SameInv'
    BY SceneConstants DEF SameInv, OrderInv, Flight, SInv, SwapEffects, reloadVars, audioVars,
       mailboxVars, IInv, MailboxTypeOK, TypeOK, Slot, Threads, HeardInv
  <1>3. FlightInv'
    BY SceneConstants DEF FlightInv, RouteInv, SameInv, OrderInv, MuteInv, BootInv, Flight,
       Settled, Swapping, OnTime, SInv, SwapEffects, muteVars, reloadVars, audioVars, mailboxVars,
       IInv, MailboxTypeOK, TypeOK, Slot, Threads, HeardInv, Clean
  <1>4. BlockInv'
    BY SceneConstants DEF BlockInv, RouteInv, FlightInv, MuteInv, BootInv, Settled, Swapping,
       OnTime, SInv, SwapEffects, muteVars, audioVars, TypeOK, Threads, HeardInv, Clean
  <1> QED BY <1>1, <1>2, <1>3, <1>4 DEF HeardInv

(* The gains are exchanged.                                                 *)
LEMMA SwapGainsHeard ==
  ASSUME SInv, SInv', HeardInv, SwapGains
  PROVE  HeardInv'
  <1>1. RouteInv'
    BY SceneConstants DEF RouteInv, CountInv, Current, AfterWrite, AfterFailure, File, SInv,
       SwapGains, Goto, TypeOK, Threads, HeardInv, Clean
  <1>2. SameInv'
    BY SceneConstants DEF SameInv, OrderInv, Flight, SInv, SwapGains, Goto, audioVars,
       mailboxVars, IInv, MailboxTypeOK, TypeOK, Slot, Threads, HeardInv
  <1>3. FlightInv'
    BY SceneConstants DEF FlightInv, RouteInv, SameInv, OrderInv, MuteInv, BootInv, Flight,
       Settled, Swapping, OnTime, SInv, SwapGains, Goto, muteVars, audioVars, mailboxVars, IInv,
       MailboxTypeOK, TypeOK, Slot, Threads, HeardInv, Clean
  <1>4. BlockInv'
    BY SceneConstants DEF BlockInv, RouteInv, FlightInv, MuteInv, BootInv, Settled, Swapping,
       OnTime, SInv, SwapGains, Goto, muteVars, audioVars, TypeOK, Threads, HeardInv, Clean
  <1> QED BY <1>1, <1>2, <1>3, <1>4 DEF HeardInv

(* The release is ordered.                                                  *)
LEMMA OrderReleaseHeard ==
  ASSUME SInv, SInv', HeardInv, OrderRelease
  PROVE  HeardInv'
  <1>1. RouteInv'
    BY SceneConstants DEF RouteInv, CountInv, Current, AfterWrite, AfterFailure, File, SInv,
       OrderRelease, At, Leave, IdleReload, setupVars, TypeOK, Threads, HeardInv, Clean
  <1>2. SameInv'
    BY SceneConstants DEF SameInv, OrderInv, Flight, SInv, OrderRelease, At, Leave, IdleReload,
       audioVars, mailboxVars, IInv, MailboxTypeOK, TypeOK, Slot, Threads, HeardInv
  <1>3. FlightInv'
    <2>1. ASSUME NEW g \in Flight, g.generation >= graph.generation
          PROVE  g.routes = graph.routes
      <3>1. slots[front] \in Graphs /\ slots[middle.slot] \in Graphs
        BY SceneConstants DEF SInv, OrderRelease, At, Leave, IdleReload, setupVars, audioVars,
           mailboxVars, IInv, MailboxTypeOK, TypeOK, Slot, Threads, HeardInv, Clean
      <3>2. g.generation \in Nat /\ graph.generation \in Nat
        BY <3>1, SceneAssumption, SceneConstants DEF Flight, SInv, OrderRelease, At, Leave,
           IdleReload, setupVars, audioVars, mailboxVars, IInv, MailboxTypeOK, TypeOK, Slot,
           Threads, HeardInv, Clean
      <3>3. g.generation <= graph.generation
        BY SceneConstants DEF OrderInv, Flight, SInv, OrderRelease, At, Leave, IdleReload,
           setupVars, audioVars, mailboxVars, IInv, MailboxTypeOK, TypeOK, Slot, Threads,
           HeardInv, Clean
      <3> QED BY <2>1, <3>2, <3>3, SceneConstants DEF SameInv, SInv, OrderRelease, At, Leave,
                 IdleReload, setupVars, audioVars, mailboxVars, IInv, MailboxTypeOK, TypeOK, Slot,
                 Threads, HeardInv, Clean
    <2>2. rt.generation <= graph.generation /\ rt.generation \in Nat /\ graph.generation \in Nat
      BY SceneAssumption, SceneConstants DEF OrderInv, SInv, OrderRelease, At, Leave, IdleReload,
         setupVars, audioVars, mailboxVars, IInv, MailboxTypeOK, TypeOK, Slot, Threads, HeardInv,
         Clean
    <2>3. rt.generation >= graph.generation => rt.generation = graph.generation
      BY <2>2, SceneConstants DEF SInv, OrderRelease, At, Leave, IdleReload, setupVars, audioVars,
         mailboxVars, IInv, MailboxTypeOK, TypeOK, Slot, Threads, HeardInv, Clean
    <2>4. Flight' = Flight
      BY SceneConstants DEF Flight, reloadVars, SInv, OrderRelease, At, Leave, IdleReload,
         setupVars, audioVars, mailboxVars, IInv, MailboxTypeOK, TypeOK, Slot, Threads, HeardInv,
         Clean
    <2>5. Clean => graph.routes = effects /\ control' \notin {"reload"}
      BY SceneConstants DEF FlightInv, SInv, OrderRelease, At, Leave, IdleReload, setupVars,
         audioVars, mailboxVars, IInv, MailboxTypeOK, TypeOK, Slot, Threads, HeardInv, Clean
    <2> QED BY <2>1, <2>3, <2>4, <2>5, SceneConstants DEF FlightInv, SameInv, Settled, SInv,
               OrderRelease, At, Leave, IdleReload, setupVars, audioVars, mailboxVars, IInv,
               MailboxTypeOK, TypeOK, Slot, Threads, HeardInv, Clean
  <1>4. BlockInv'
    BY SceneConstants DEF BlockInv, RouteInv, FlightInv, MuteInv, BootInv, Settled, Swapping,
       OnTime, SInv, OrderRelease, At, Leave, IdleReload, setupVars, audioVars, TypeOK, Threads,
       HeardInv, Clean
  <1> QED BY <1>1, <1>2, <1>3, <1>4 DEF HeardInv

(* A reload that failed lifts the mute.                                     *)
LEMMA ReloadFailedHeard ==
  ASSUME SInv, SInv', HeardInv, ReloadFailed
  PROVE  HeardInv'
  <1>1. RouteInv'
    BY SceneConstants DEF RouteInv, CountInv, Current, AfterWrite, AfterFailure, File, SInv,
       ReloadFailed, At, Fail, Return, Leave, IdleReload, Mishap, setupVars, TypeOK, Threads,
       HeardInv, Clean
  <1>2. SameInv'
    BY SceneConstants DEF SameInv, OrderInv, Flight, SInv, ReloadFailed, At, Leave, IdleReload,
       audioVars, mailboxVars, IInv, MailboxTypeOK, TypeOK, Slot, Threads, HeardInv
  <1>3. FlightInv'
    BY SceneConstants DEF FlightInv, RouteInv, SameInv, OrderInv, MuteInv, BootInv, Flight,
       Settled, Swapping, OnTime, SInv, ReloadFailed, At, Fail, Return, Leave, IdleReload, Mishap,
       setupVars, audioVars, mailboxVars, IInv, MailboxTypeOK, TypeOK, Slot, Threads, HeardInv,
       Clean
  <1>4. BlockInv'
    BY SceneConstants DEF BlockInv, RouteInv, FlightInv, MuteInv, BootInv, Settled, Swapping,
       OnTime, SInv, ReloadFailed, At, Fail, Return, Leave, IdleReload, Mishap, setupVars,
       audioVars, TypeOK, Threads, HeardInv, Clean
  <1> QED BY <1>1, <1>2, <1>3, <1>4 DEF HeardInv

(* The recall returns.                                                      *)
LEMMA SucceedHeard ==
  ASSUME SInv, SInv', HeardInv, Succeed
  PROVE  HeardInv'
  <1>1. RouteInv'
    BY SceneConstants DEF RouteInv, CountInv, Current, AfterWrite, AfterFailure, File, SInv,
       Succeed, Return, reloadVars, TypeOK, Threads, HeardInv, Clean
  <1>2. SameInv'
    BY SceneConstants DEF SameInv, OrderInv, Flight, SInv, Succeed, reloadVars, audioVars,
       mailboxVars, IInv, MailboxTypeOK, TypeOK, Slot, Threads, HeardInv
  <1>3. FlightInv'
    BY SceneConstants DEF FlightInv, RouteInv, SameInv, OrderInv, MuteInv, BootInv, Flight,
       Settled, Swapping, OnTime, SInv, Succeed, Return, muteVars, reloadVars, audioVars,
       mailboxVars, IInv, MailboxTypeOK, TypeOK, Slot, Threads, HeardInv, Clean
  <1>4. BlockInv'
    BY SceneConstants DEF BlockInv, RouteInv, FlightInv, MuteInv, BootInv, Settled, Swapping,
       OnTime, SInv, Succeed, Return, muteVars, audioVars, TypeOK, Threads, HeardInv, Clean
  <1> QED BY <1>1, <1>2, <1>3, <1>4 DEF HeardInv

(* The audio thread exchanges its slot for the middle one.                  *)
LEMMA TakeGraphHeard ==
  ASSUME SInv, SInv', HeardInv, TakeGraph
  PROVE  HeardInv'
  <1>1. RouteInv'
    BY SceneConstants DEF RouteInv, CountInv, Current, AfterWrite, AfterFailure, File, SInv,
       TakeGraph, Consume, audioRest, controlVars, setupVars, reloadVars, TypeOK, Threads,
       HeardInv, Clean
  <1>2. SameInv'
    BY SceneConstants DEF SameInv, OrderInv, Flight, SInv, TakeGraph, Consume, audioRest,
       reloadVars, IInv, MailboxTypeOK, TypeOK, Slot, Threads, HeardInv
  <1>3. FlightInv'
    BY SceneConstants DEF FlightInv, RouteInv, SameInv, OrderInv, MuteInv, BootInv, Flight,
       Settled, Swapping, OnTime, SInv, TakeGraph, Consume, audioRest, controlVars, setupVars,
       muteVars, reloadVars, IInv, MailboxTypeOK, TypeOK, Slot, Threads, HeardInv, Clean
  <1>4. BlockInv'
    BY SceneConstants DEF BlockInv, RouteInv, FlightInv, MuteInv, BootInv, Settled, Swapping,
       OnTime, SInv, TakeGraph, Consume, audioRest, controlVars, setupVars, muteVars, TypeOK,
       Threads, HeardInv, Clean
  <1> QED BY <1>1, <1>2, <1>3, <1>4 DEF HeardInv

(* There is no new graph.                                                   *)
LEMMA NoNewGraphHeard ==
  ASSUME SInv, SInv', HeardInv, NoNewGraph
  PROVE  HeardInv'
  <1>1. RouteInv'
    BY SceneConstants DEF RouteInv, CountInv, Current, AfterWrite, AfterFailure, File, SInv,
       NoNewGraph, audioRest, controlVars, setupVars, reloadVars, TypeOK, Threads, HeardInv, Clean
  <1>2. SameInv'
    BY SceneConstants DEF SameInv, OrderInv, Flight, SInv, NoNewGraph, audioRest, reloadVars,
       mailboxVars, IInv, MailboxTypeOK, TypeOK, Slot, Threads, HeardInv
  <1>3. FlightInv'
    BY SceneConstants DEF FlightInv, RouteInv, SameInv, OrderInv, MuteInv, BootInv, Flight,
       Settled, Swapping, OnTime, SInv, NoNewGraph, audioRest, controlVars, setupVars, muteVars,
       reloadVars, mailboxVars, IInv, MailboxTypeOK, TypeOK, Slot, Threads, HeardInv, Clean
  <1>4. BlockInv'
    BY SceneConstants DEF BlockInv, RouteInv, FlightInv, MuteInv, BootInv, Settled, Swapping,
       OnTime, SInv, NoNewGraph, audioRest, controlVars, setupVars, muteVars, TypeOK, Threads,
       HeardInv, Clean
  <1> QED BY <1>1, <1>2, <1>3, <1>4 DEF HeardInv

(* The audio thread copies its slot.                                        *)
LEMMA CopyGraphHeard ==
  ASSUME SInv, SInv', HeardInv, CopyGraph
  PROVE  HeardInv'
  <1>1. RouteInv'
    BY SceneConstants DEF RouteInv, CountInv, Current, AfterWrite, AfterFailure, File, SInv,
       CopyGraph, EndConsume, audioRest, controlVars, setupVars, reloadVars, TypeOK, Threads,
       HeardInv, Clean
  <1>2. SameInv'
    BY SceneConstants DEF SameInv, OrderInv, Flight, SInv, CopyGraph, EndConsume, audioRest,
       reloadVars, IInv, MailboxTypeOK, TypeOK, Slot, Threads, HeardInv
  <1>3. FlightInv'
    BY SceneConstants DEF FlightInv, RouteInv, SameInv, OrderInv, MuteInv, BootInv, Flight,
       Settled, Swapping, OnTime, SInv, CopyGraph, EndConsume, audioRest, controlVars, setupVars,
       muteVars, reloadVars, IInv, MailboxTypeOK, TypeOK, Slot, Threads, HeardInv, Clean
  <1>4. BlockInv'
    BY SceneConstants DEF BlockInv, RouteInv, FlightInv, MuteInv, BootInv, Settled, Swapping,
       OnTime, SInv, CopyGraph, EndConsume, audioRest, controlVars, setupVars, muteVars, TypeOK,
       Threads, HeardInv, Clean
  <1> QED BY <1>1, <1>2, <1>3, <1>4 DEF HeardInv

(* The audio thread takes the gains.                                        *)
LEMMA SnapshotGainsHeard ==
  ASSUME SInv, SInv', HeardInv, SnapshotGains
  PROVE  HeardInv'
  <1>1. RouteInv'
    BY SceneConstants DEF RouteInv, CountInv, Current, AfterWrite, AfterFailure, File, SInv,
       SnapshotGains, audioRest, controlVars, setupVars, reloadVars, TypeOK, Threads, HeardInv,
       Clean
  <1>2. SameInv'
    BY SceneConstants DEF SameInv, OrderInv, Flight, SInv, SnapshotGains, audioRest, reloadVars,
       mailboxVars, IInv, MailboxTypeOK, TypeOK, Slot, Threads, HeardInv
  <1>3. FlightInv'
    BY SceneConstants DEF FlightInv, RouteInv, SameInv, OrderInv, MuteInv, BootInv, Flight,
       Settled, Swapping, OnTime, SInv, SnapshotGains, audioRest, controlVars, setupVars,
       muteVars, reloadVars, mailboxVars, IInv, MailboxTypeOK, TypeOK, Slot, Threads, HeardInv,
       Clean
  <1>4. BlockInv'
    BY SceneConstants DEF BlockInv, RouteInv, FlightInv, MuteInv, BootInv, Settled, Swapping,
       OnTime, SInv, SnapshotGains, audioRest, controlVars, setupVars, muteVars, TypeOK, Threads,
       HeardInv, Clean
  <1> QED BY <1>1, <1>2, <1>3, <1>4 DEF HeardInv

(* It looks whether a release is due.                                       *)
LEMMA CheckReleaseHeard ==
  ASSUME SInv, SInv', HeardInv, CheckRelease
  PROVE  HeardInv'
  <1>1. RouteInv'
    BY SceneConstants DEF RouteInv, CountInv, Current, AfterWrite, AfterFailure, File, SInv,
       CheckRelease, ReleaseDue, audioRest, controlVars, setupVars, reloadVars, TypeOK, Threads,
       HeardInv, Clean
  <1>2. SameInv'
    BY SceneConstants DEF SameInv, OrderInv, Flight, SInv, CheckRelease, ReleaseDue, audioRest,
       reloadVars, mailboxVars, IInv, MailboxTypeOK, TypeOK, Slot, Threads, HeardInv
  <1>3. FlightInv'
    BY SceneConstants DEF FlightInv, RouteInv, SameInv, OrderInv, MuteInv, BootInv, Flight,
       Settled, Swapping, OnTime, SInv, CheckRelease, ReleaseDue, audioRest, controlVars,
       setupVars, muteVars, reloadVars, mailboxVars, IInv, MailboxTypeOK, TypeOK, Slot, Threads,
       HeardInv, Clean
  <1>4. BlockInv'
    BY SceneConstants DEF BlockInv, RouteInv, FlightInv, MuteInv, BootInv, Settled, Swapping,
       OnTime, SInv, CheckRelease, ReleaseDue, audioRest, controlVars, setupVars, muteVars,
       TypeOK, Threads, HeardInv, Clean
  <1> QED BY <1>1, <1>2, <1>3, <1>4 DEF HeardInv

(* It lifts the mute while the release is still ordered,                    *)
LEMMA UnmuteHeard ==
  ASSUME SInv, SInv', HeardInv, Unmute
  PROVE  HeardInv'
  <1>1. RouteInv'
    BY SceneConstants DEF RouteInv, CountInv, Current, AfterWrite, AfterFailure, File, SInv,
       Unmute, audioRest, controlVars, setupVars, reloadVars, TypeOK, Threads, HeardInv, Clean
  <1>2. SameInv'
    BY SceneConstants DEF SameInv, OrderInv, Flight, SInv, Unmute, audioRest, reloadVars,
       mailboxVars, IInv, MailboxTypeOK, TypeOK, Slot, Threads, HeardInv
  <1>3. FlightInv'
    BY SceneConstants DEF FlightInv, RouteInv, SameInv, OrderInv, MuteInv, BootInv, Flight,
       Settled, Swapping, OnTime, SInv, Unmute, audioRest, controlVars, setupVars, reloadVars,
       mailboxVars, IInv, MailboxTypeOK, TypeOK, Slot, Threads, HeardInv, Clean
  <1>4. BlockInv'
    BY SceneConstants DEF BlockInv, RouteInv, FlightInv, MuteInv, BootInv, Settled, Swapping,
       OnTime, SInv, Unmute, audioRest, controlVars, setupVars, TypeOK, Threads, HeardInv, Clean
  <1> QED BY <1>1, <1>2, <1>3, <1>4 DEF HeardInv

(* and only then takes the order back.                                      *)
LEMMA ClearReleaseHeard ==
  ASSUME SInv, SInv', HeardInv, ClearRelease
  PROVE  HeardInv'
  <1>1. RouteInv'
    BY SceneConstants DEF RouteInv, CountInv, Current, AfterWrite, AfterFailure, File, SInv,
       ClearRelease, audioRest, controlVars, setupVars, reloadVars, TypeOK, Threads, HeardInv,
       Clean
  <1>2. SameInv'
    BY SceneConstants DEF SameInv, OrderInv, Flight, SInv, ClearRelease, audioRest, reloadVars,
       mailboxVars, IInv, MailboxTypeOK, TypeOK, Slot, Threads, HeardInv
  <1>3. FlightInv'
    <2>1. rt.generation >= release
      BY SceneConstants DEF BlockInv, SInv, ClearRelease, audioRest, controlVars, setupVars,
         reloadVars, mailboxVars, IInv, MailboxTypeOK, TypeOK, Slot, Threads, HeardInv, Clean
    <2>2. /\ slots[front].generation >= release
          /\ middle.fresh => slots[middle.slot].generation >= release
      <3>1. slots[front] \in Graphs /\ slots[middle.slot] \in Graphs
        BY SceneConstants DEF SInv, ClearRelease, audioRest, controlVars, setupVars, reloadVars,
           mailboxVars, IInv, MailboxTypeOK, TypeOK, Slot, Threads, HeardInv, Clean
      <3> QED BY <2>1, <3>1, SceneAssumption, SceneConstants DEF OrderInv, SInv, ClearRelease,
                 audioRest, controlVars, setupVars, reloadVars, mailboxVars, IInv, MailboxTypeOK,
                 TypeOK, Slot, Threads, HeardInv, Clean
    <2>3. Flight' = Flight
      BY SceneConstants DEF Flight, SInv, ClearRelease, audioRest, controlVars, setupVars,
         reloadVars, mailboxVars, IInv, MailboxTypeOK, TypeOK, Slot, Threads, HeardInv, Clean
    <2> QED BY <2>1, <2>2, <2>3, SceneConstants DEF FlightInv, Flight, Settled, SInv,
               ClearRelease, audioRest, controlVars, setupVars, reloadVars, mailboxVars, IInv,
               MailboxTypeOK, TypeOK, Slot, Threads, HeardInv, Clean
  <1>4. BlockInv'
    BY SceneConstants DEF BlockInv, RouteInv, FlightInv, MuteInv, BootInv, Settled, Swapping,
       OnTime, SInv, ClearRelease, audioRest, controlVars, setupVars, TypeOK, Threads, HeardInv,
       Clean
  <1> QED BY <1>1, <1>2, <1>3, <1>4 DEF HeardInv

(* It takes the effects.                                                    *)
LEMMA ObserveControlsHeard ==
  ASSUME SInv, SInv', HeardInv, ObserveControls
  PROVE  HeardInv'
  <1>1. RouteInv'
    BY SceneConstants DEF RouteInv, CountInv, Current, AfterWrite, AfterFailure, File, SInv,
       ObserveControls, audioRest, controlVars, setupVars, reloadVars, TypeOK, Threads, HeardInv,
       Clean
  <1>2. SameInv'
    BY SceneConstants DEF SameInv, OrderInv, Flight, SInv, ObserveControls, audioRest, reloadVars,
       mailboxVars, IInv, MailboxTypeOK, TypeOK, Slot, Threads, HeardInv
  <1>3. FlightInv'
    BY SceneConstants DEF FlightInv, RouteInv, SameInv, OrderInv, MuteInv, BootInv, Flight,
       Settled, Swapping, OnTime, SInv, ObserveControls, audioRest, controlVars, setupVars,
       muteVars, reloadVars, mailboxVars, IInv, MailboxTypeOK, TypeOK, Slot, Threads, HeardInv,
       Clean
  <1>4. BlockInv'
    BY SceneConstants DEF BlockInv, RouteInv, FlightInv, MuteInv, BootInv, Settled, Swapping,
       OnTime, SInv, ObserveControls, audioRest, controlVars, setupVars, muteVars, TypeOK,
       Threads, HeardInv, Clean
  <1> QED BY <1>1, <1>2, <1>3, <1>4 DEF HeardInv

(* It plays a block.                                                        *)
LEMMA PlayHeard ==
  ASSUME SInv, SInv', HeardInv, Play
  PROVE  HeardInv'
  <1>1. RouteInv'
    BY SceneConstants DEF RouteInv, CountInv, Current, AfterWrite, AfterFailure, File, SInv, Play,
       Up, Down, audioRest, controlVars, setupVars, reloadVars, TypeOK, Threads, HeardInv, Clean
  <1>2. SameInv'
    BY SceneConstants DEF SameInv, OrderInv, Flight, SInv, Play, Up, Down, audioRest, reloadVars,
       mailboxVars, IInv, MailboxTypeOK, TypeOK, Slot, Threads, HeardInv
  <1>3. FlightInv'
    BY SceneConstants DEF FlightInv, RouteInv, SameInv, OrderInv, MuteInv, BootInv, Flight,
       Settled, Swapping, OnTime, SInv, Play, Up, Down, audioRest, controlVars, setupVars,
       muteVars, reloadVars, mailboxVars, IInv, MailboxTypeOK, TypeOK, Slot, Threads, HeardInv,
       Clean
  <1>4. BlockInv'
    BY SceneConstants DEF BlockInv, RouteInv, FlightInv, MuteInv, BootInv, Settled, Swapping,
       OnTime, SInv, Play, Up, Down, audioRest, controlVars, setupVars, muteVars, TypeOK, Threads,
       HeardInv, Clean
  <1> QED BY <1>1, <1>2, <1>3, <1>4 DEF HeardInv

(* It tells whether that block was silent.                                  *)
LEMMA AcknowledgeHeard ==
  ASSUME SInv, SInv', HeardInv, Acknowledge
  PROVE  HeardInv'
  <1>1. RouteInv'
    BY SceneConstants DEF RouteInv, CountInv, Current, AfterWrite, AfterFailure, File, SInv,
       Acknowledge, audioRest, controlVars, setupVars, reloadVars, TypeOK, Threads, HeardInv,
       Clean
  <1>2. SameInv'
    BY SceneConstants DEF SameInv, OrderInv, Flight, SInv, Acknowledge, audioRest, reloadVars,
       mailboxVars, IInv, MailboxTypeOK, TypeOK, Slot, Threads, HeardInv
  <1>3. FlightInv'
    BY SceneConstants DEF FlightInv, RouteInv, SameInv, OrderInv, MuteInv, BootInv, Flight,
       Settled, Swapping, OnTime, SInv, Acknowledge, audioRest, controlVars, setupVars,
       reloadVars, mailboxVars, IInv, MailboxTypeOK, TypeOK, Slot, Threads, HeardInv, Clean
  <1>4. BlockInv'
    BY SceneConstants DEF BlockInv, RouteInv, FlightInv, MuteInv, BootInv, Settled, Swapping,
       OnTime, SInv, Acknowledge, audioRest, controlVars, setupVars, TypeOK, Threads, HeardInv,
       Clean
  <1> QED BY <1>1, <1>2, <1>3, <1>4 DEF HeardInv

-----------------------------------------------------------------------------
(* Whatever does not touch the files, nor move recall() on, keeps it.       *)
LEMMA FilesFrame ==
  ASSUME FileInv, UNCHANGED <<control, scene, next, ok, saved, disk, effects>>,
         mishaps \subseteq mishaps'
  PROVE  FileInv'
  BY DEF FileInv, Whole

(* Writing routes back publishes nothing yet.                               *)
LEMMA RewriteRoutesFiles ==
  ASSUME SInv, RouteInv, FileInv, NEW t \in Threads, RewriteRoutes(t)
  PROVE  FileInv'
  BY SceneConstants DEF RewriteRoutes, Mishap, controlVars, FileInv, Whole

(* The audio thread is started.                                             *)
LEMMA StartAudioFiles ==
  ASSUME SInv, RouteInv, FileInv, StartAudio
  PROVE  FileInv'
  BY SceneConstants DEF SInv, StartAudio, IdleReload, setupVars, FileInv, Whole

(* A recall asks anew: sceneSilent is cleared before sceneMuted is set.     *)
LEMMA RecallFiles ==
  ASSUME SInv, RouteInv, FileInv, NEW s \in Setups, Recall(s)
  PROVE  FileInv'
  BY SceneConstants DEF Recall, setupVars, FileInv, Whole

(* The outputs are muted.                                                   *)
LEMMA MuteOutputsFiles ==
  ASSUME SInv, RouteInv, FileInv, MuteOutputs
  PROVE  FileInv'
  BY SceneConstants DEF MuteOutputs, setupVars, FileInv, Whole

(* The answer seen is one to this recall.                                   *)
LEMMA SilenceSeenFiles ==
  ASSUME SInv, RouteInv, FileInv, SilenceSeen
  PROVE  FileInv'
  BY SceneConstants DEF SilenceSeen, setupVars, FileInv, Whole

(* Giving up lifts the mute.                                                *)
LEMMA SilenceTimesOutFiles ==
  ASSUME SInv, RouteInv, FileInv, SilenceTimesOut
  PROVE  FileInv'
  BY SceneConstants DEF SilenceTimesOut, Fail, Return, Mishap, setupVars, FileInv, Whole

(* Reading the old files changes nothing else.                              *)
LEMMA ReadOldFilesFiles ==
  ASSUME SInv, RouteInv, FileInv, ReadOldFiles
  PROVE  FileInv'
  BY SceneConstants DEF SInv, ReadOldFiles, setupVars, FileInv, Whole, CountInv

(* Failing to read them lifts the mute.                                     *)
LEMMA ReadOldFilesFailsFiles ==
  ASSUME SInv, RouteInv, FileInv, ReadOldFilesFails
  PROVE  FileInv'
  BY SceneConstants DEF ReadOldFilesFails, Fail, Return, Mishap, setupVars, FileInv, Whole

(* Writing a file.                                                          *)
LEMMA WriteFileFiles ==
  ASSUME SInv, RouteInv, FileInv, WriteFile
  PROVE  FileInv'
  BY SceneConstants DEF SInv, WriteFile, AfterWrite, Current, TypeOK, FileInv, Whole, CountInv

(* A file that cannot be written.                                           *)
LEMMA WriteFailsFiles ==
  ASSUME SInv, RouteInv, FileInv, WriteFails
  PROVE  FileInv'
  BY SceneConstants DEF SInv, WriteFails, AfterWrite, Current, TypeOK, FileInv, Whole

(* A file that is cut short.                                                *)
LEMMA WriteCutShortFiles ==
  ASSUME SInv, RouteInv, FileInv, WriteCutShort
  PROVE  FileInv'
  BY SceneConstants DEF SInv, WriteCutShort, Fault, Mishap, FileInv, Whole

(* An old file is written back.                                             *)
LEMMA UndoFileFiles ==
  ASSUME SInv, RouteInv, FileInv, UndoFile
  PROVE  FileInv'
  BY SceneConstants DEF SInv, UndoFile, Current, TypeOK, FileInv, Whole

(* An old file cannot be written back.                                      *)
LEMMA UndoFileFailsFiles ==
  ASSUME SInv, RouteInv, FileInv, UndoFileFails
  PROVE  FileInv'
  BY SceneConstants DEF UndoFileFails, Mishap, FileInv, Whole

(* A recall that was undone lifts the mute.                                 *)
LEMMA UndoDoneFiles ==
  ASSUME SInv, RouteInv, FileInv, UndoDone
  PROVE  FileInv'
  BY SceneConstants DEF SInv, UndoDone, Fail, Return, Mishap, setupVars, TypeOK, FileInv, Whole

(* The effects are exchanged.                                               *)
LEMMA SwapEffectsFiles ==
  ASSUME SInv, RouteInv, FileInv, SwapEffects
  PROVE  FileInv'
  BY SceneConstants DEF SwapEffects, FileInv, Whole

(* The gains are exchanged.                                                 *)
LEMMA SwapGainsFiles ==
  ASSUME SInv, RouteInv, FileInv, SwapGains
  PROVE  FileInv'
  BY SceneConstants DEF SwapGains, FileInv, Whole

(* The release is ordered.                                                  *)
LEMMA OrderReleaseFiles ==
  ASSUME SInv, RouteInv, FileInv, OrderRelease
  PROVE  FileInv'
  BY SceneConstants DEF SInv, OrderRelease, IdleReload, setupVars, FileInv, Whole

(* A reload that failed lifts the mute.                                     *)
LEMMA ReloadFailedFiles ==
  ASSUME SInv, RouteInv, FileInv, ReloadFailed
  PROVE  FileInv'
  BY SceneConstants DEF ReloadFailed, Fail, Return, Mishap, setupVars, FileInv, Whole

(* The recall returns.                                                      *)
LEMMA SucceedFiles ==
  ASSUME SInv, RouteInv, FileInv, Succeed
  PROVE  FileInv'
  BY SceneConstants DEF Succeed, Return, FileInv, Whole

-----------------------------------------------------------------------------
(* The device starts with one setup, everywhere.                           *)
LEMMA HeardInit == Init => HeardInv /\ FileInv
  <1> SUFFICES ASSUME Init PROVE HeardInv /\ FileInv
    OBVIOUS
  <1> USE SceneAssumption
  <1>1. /\ disk["routing"] = Initial /\ control = "boot" /\ ok /\ step = "off" /\ ~muted
        /\ release = 0 /\ effects = Initial /\ gains = Initial /\ ~loud
        /\ reload["control"].pc = "read"
        /\ \A f \in File : disk[f] = Initial
    BY SceneConstants DEF Init, Threads, IdleReload
  <1>2. /\ slots[front].routes = Initial /\ ~middle.fresh
        /\ slots[front].generation = 0
        /\ graph.generation = 0 /\ graph.routes = Initial
        /\ rt.generation = 0 /\ rt.routes = Initial /\ rt.gains = Initial
    BY DEF Init, MailboxInit, Slot
  <1>3. RouteInv
    BY <1>1 DEF RouteInv
  <1>4. SameInv /\ FlightInv
    BY <1>1, <1>2 DEF SameInv, FlightInv, Flight
  <1>5. BlockInv
    BY <1>1 DEF BlockInv
  <1>6. FileInv
    BY <1>1 DEF FileInv
  <1> QED BY <1>3, <1>4, <1>5, <1>6 DEF HeardInv

(* Every step keeps what is heard together.                                *)
LEMMA HeardStep ==
  ASSUME SInv, SInv', HeardInv, [Next]_vars
  PROVE  HeardInv'
  <1>1. ASSUME NEW s \in Setups, Recall(s) PROVE HeardInv'
    BY <1>1, RecallHeard
  <1>2. CASE ControlNext
    BY <1>2,
       StartAudioHeard, MuteOutputsHeard, SilenceSeenHeard, SilenceTimesOutHeard,
       ReadOldFilesHeard, ReadOldFilesFailsHeard, WriteFileHeard, WriteFailsHeard,
       WriteCutShortHeard, UndoFileHeard, UndoFileFailsHeard, UndoDoneHeard,
       SwapEffectsHeard, SwapGainsHeard, OrderReleaseHeard, ReloadFailedHeard, SucceedHeard
       DEF ControlNext
  <1>3. ASSUME NEW t \in Threads, ReloadNext(t) PROVE HeardInv'
    BY <1>3,
       ReadRoutesHeard, ReadRoutesFailsHeard, RejectRoutesHeard, RewriteRoutesHeard,
       PublishGraphHeard, DeliverGraphHeard
       DEF ReloadNext
  <1>4. CASE AudioNext
    BY <1>4,
       TakeGraphHeard, NoNewGraphHeard, CopyGraphHeard, SnapshotGainsHeard,
       CheckReleaseHeard, UnmuteHeard, ClearReleaseHeard, ObserveControlsHeard, PlayHeard,
       AcknowledgeHeard
       DEF AudioNext
  <1>5. CASE UNCHANGED vars
    <2> USE <1>5 DEF vars, controlVars, setupVars, muteVars, reloadVars, audioVars, mailboxVars,
                     HeardInv, Clean
    <2>1. RouteInv'
      BY DEF RouteInv
    <2>2. SameInv' /\ FlightInv'
      BY DEF SameInv, FlightInv, Flight
    <2>3. BlockInv'
      BY DEF BlockInv, OnTime
    <2> QED BY <2>1, <2>2, <2>3
  <1> QED BY <1>1, <1>2, BluetoothRefreshHeard, BluetoothReturnsHeard, <1>3, <1>4, <1>5 DEF Next

(* The reloads, past their rewriting, and the audio thread touch no file.  *)
LEMMA OthersLeaveFiles ==
  ASSUME SInv,
         \/ \E t \in Threads : ReadRoutes(t) \/ ReadRoutesFails(t) \/ RejectRoutes(t)
                             \/ PublishGraph(t) \/ DeliverGraph(t)
         \/ BluetoothRefresh \/ BluetoothReturns \/ AudioNext
  PROVE  UNCHANGED <<control, scene, next, ok, saved, disk, effects>> /\ mishaps \subseteq mishaps'
  BY DEF ReadRoutes, At, controlVars, setupVars, muteVars, audioVars, mailboxVars,
         ReadRoutesFails, Goto, Fault, Mishap, RejectRoutes, PublishGraph, BeginPublish,
         DeliverGraph, EndPublish, BluetoothRefresh, BluetoothReturns, Leave, IdleReload,
         TakeGraph, Consume, audioRest, reloadVars, NoNewGraph, CopyGraph, EndConsume,
         SnapshotGains, CheckRelease, ReleaseDue, Unmute, ClearRelease, ObserveControls,
         Play, Up, Down, Acknowledge, AudioNext

(* Every step keeps what the files hold.                                   *)
LEMMA FileStep ==
  ASSUME SInv, RouteInv, FileInv, [Next]_vars
  PROVE  FileInv'
  <1>1. ASSUME NEW s \in Setups, Recall(s) PROVE FileInv'
    BY <1>1, RecallFiles
  <1>2. CASE ControlNext
    BY <1>2,
       StartAudioFiles, MuteOutputsFiles, SilenceSeenFiles, SilenceTimesOutFiles,
       ReadOldFilesFiles, ReadOldFilesFailsFiles, WriteFileFiles, WriteFailsFiles,
       WriteCutShortFiles, UndoFileFiles, UndoFileFailsFiles, UndoDoneFiles,
       SwapEffectsFiles, SwapGainsFiles, OrderReleaseFiles, ReloadFailedFiles, SucceedFiles
       DEF ControlNext
  <1>3. ASSUME NEW t \in Threads, RewriteRoutes(t) PROVE FileInv'
    BY <1>3, RewriteRoutesFiles
  <1>4. CASE UNCHANGED vars
    BY <1>4, FilesFrame DEF vars, controlVars, setupVars
  <1> QED BY <1>1, <1>2, <1>3, <1>4, OthersLeaveFiles, FilesFrame DEF Next, ReloadNext

(* Both hold in every state the program reaches.                           *)
THEOREM HeardInvariance == Spec => [](HeardInv /\ FileInv)
  <1>1. SInv /\ SInv' /\ HeardInv /\ FileInv /\ [Next]_vars => (HeardInv /\ FileInv)'
    BY HeardStep, FileStep DEF HeardInv
  <1> QED BY HeardInit, <1>1, SceneInvariance, PTL DEF Spec

(* What is heard is one setup, its routes with its effects and its gains:  *)
(* a block is made with the effects in force, and heard only once the      *)
(* graph the release waits for has been taken, and the gains with it.      *)
THEOREM OneSetupIsHeard == Spec => []HeardIsOneSetup
  <1>1. SInv /\ HeardInv => HeardIsOneSetup
    BY DEF SInv, MuteInv, HeardInv, BlockInv, Clean, HeardIsOneSetup
  <1> QED BY <1>1, HeardInvariance, SceneInvariance, PTL

(* A recall that has returned leaves all four files with the setup in      *)
(* force, whichever write failed and at whichever point it was undone.     *)
THEOREM FilesFollowSetup == Spec => []FilesMatchSetup
  <1>1. FileInv => FilesMatchSetup
    BY DEF FileInv, Whole, FilesMatchSetup
  <1> QED BY <1>1, HeardInvariance, PTL
=============================================================================
