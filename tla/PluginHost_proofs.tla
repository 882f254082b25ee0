-------------------------- MODULE PluginHost_proofs --------------------------
(***************************************************************************)
(* The mailbox protocol of PluginHost for every limit on missed cycles,    *)
(* every width of the request number and any number of resets: one owner   *)
(* of the audio arrays, exactly one block of latency, and nothing heard    *)
(* across a reset.                                                         *)
(***************************************************************************)
EXTENDS PluginHost, TLAPS

Typed(b) == b \in Block \cup {Silence}

(* A stopped or starting host is as prepare() made it.                     *)
FreshInv ==
  /\ status \in {"Stopped", "Starting"} =>
       pc = "idle" /\ inFlight = 0 /\ missed = 0
  /\ status = "Stopped" => response = 0 /\ completed = 0 /\ history = {}
  /\ wpc = "starting" => response = 0 /\ completed = 0 /\ history = {}

(* Who has the request: a number is in flight from the moment it is chosen *)
(* until its answer is seen, and only then can the worker be at work.      *)
HandoverInv ==
  /\ inFlight # 0 => sequence = inFlight
  /\ inFlight # 0 /\ pc # "publish" => request = inFlight
  /\ inFlight = 0 => request = sequence /\ response = request
  /\ pc = "publish" => inFlight # 0 /\ request # sequence /\ response = request
  /\ pc = "fill" => inFlight = 0
  /\ pc = "answer" => inFlight # 0
  /\ pc \in {"check", "answer"} => ~wet
  /\ pc = "emit" /\ wet => inFlight = 0
  /\ wpc \in {"top", "poll"} => response = completed
  /\ wpc = "process" =>
       /\ completed = request /\ response # request
       /\ inFlight # 0 /\ pc # "publish"

(* The faults of a host: it is Ready only while it may still miss a cycle. *)
MissedInv == status = "Ready" \/ pc = "answer" => missed < MaxMissed

(* What the blocks are: the last dry one, the one in the request, the one  *)
(* in its answer, and the memory of the plugin.                            *)
BlocksInv ==
  /\ dry # Silence =>
       /\ dry.from = {localGen}
       /\ dry.age = IF pc \in {"check", "answer", "emit"} THEN 1 ELSE 0
  /\ pc = "fill" => dry # Silence
  /\ inFlight # 0 => input # Silence /\ input.from = {reqGen}
  /\ inFlight # 0 /\ pc # "publish" /\ response = inFlight =>
       output # Silence /\ output.from = {respGen} /\ output.age = input.age
  /\ pc = "emit" /\ wet => output # Silence /\ output.from = {localGen} /\ output.age = 1
  /\ history \subseteq {wgen}
  /\ wpc = "process" => wgen = reqGen

(* An answer still counts as long as its request is one block old.         *)
EligibleInv ==
  inFlight # 0 /\ eligible =>
    /\ pc = "publish" => input.age = 0
    /\ pc = "answer" => input.age = 1
    /\ pc = "idle" /\ status = "Ready" => input.age = 0
    /\ pc = "check" /\ status = "Ready" => input.age = 1
    /\ pc = "emit" => status # "Ready"

IInv == TypeOK /\ FreshInv /\ HandoverInv /\ MissedInv /\ BlocksInv /\ EligibleInv

-----------------------------------------------------------------------------
(* A block is never silence.                                               *)
LEMMA BlockIsNotSilence == \A b \in Block : b # Silence
  BY SilenceAssumption DEF Block

(* Ageing keeps what a block was made from and makes a new one one old.    *)
LEMMA AgedBlock ==
  ASSUME NEW b \in Block \cup {Silence}
  PROVE  /\ Aged(b) \in Block \cup {Silence}
         /\ Aged(b) = Silence <=> b = Silence
         /\ b # Silence => Aged(b).from = b.from
         /\ b # Silence /\ b.age = 0 => Aged(b).age = 1
  <1>1. CASE b = Silence BY <1>1 DEF Aged
  <1>2. CASE b # Silence
    <2>1. b \in Block BY <1>2
    <2>2. Aged(b) = [b EXCEPT !.age = IF @ = 2 THEN 2 ELSE @ + 1]
      BY <1>2 DEF Aged
    <2>3. Aged(b) \in Block
      BY <2>1, <2>2 DEF Block
    <2> QED BY <1>2, <2>1, <2>2, <2>3, BlockIsNotSilence DEF Block
  <1> QED BY <1>1, <1>2

(* A new request number is neither 0 nor the last one.                     *)
LEMMA NextSequenceIsNew ==
  ASSUME sequence \in Sequence
  PROVE  NextSequence \in Sequence /\ NextSequence # 0 /\ NextSequence # sequence
  BY ConstantsAssumption DEF NextSequence, Sequence

-----------------------------------------------------------------------------
(* The first generation and the unused request number.                     *)
LEMMA FreshNumbers == 1 \in Generation /\ 0 \in Sequence /\ 0 \in 0..MaxMissed /\ 0 < MaxMissed
  <1>1. MaxMissed \in Nat /\ MaxMissed # 0 /\ MaxResets \in Nat /\ MaxSequence \in Nat
    BY ConstantsAssumption
  <1> QED BY <1>1 DEF Generation, Sequence

(* A stopped host satisfies the invariant.                                 *)
LEMMA InitInv == Init => IInv
  <1> SUFFICES ASSUME Init PROVE IInv
    OBVIOUS
  <1> USE FreshNumbers DEF Init, Fresh
  <1>1. TypeOK BY DEF TypeOK
  <1>2. FreshInv BY DEF FreshInv
  <1>3. HandoverInv BY DEF HandoverInv
  <1>4. MissedInv BY DEF MissedInv
  <1>5. BlocksInv BY DEF BlocksInv
  <1>6. EligibleInv BY DEF EligibleInv
  <1> QED BY <1>1, <1>2, <1>3, <1>4, <1>5, <1>6 DEF IInv

(* Stopping a host gives a fresh one.                                      *)
LEMMA RenewedKeeps ==
  ASSUME Renewed, status' = "Stopped", wpc' = "none"
  PROVE  IInv'
  <1> USE FreshNumbers DEF Renewed
  <1>1. TypeOK' BY DEF TypeOK
  <1>2. FreshInv' BY DEF FreshInv
  <1>3. HandoverInv' BY DEF HandoverInv
  <1>4. MissedInv' BY DEF MissedInv
  <1>5. BlocksInv' BY DEF BlocksInv
  <1>6. EligibleInv' BY DEF EligibleInv
  <1> QED BY <1>1, <1>2, <1>3, <1>4, <1>5, <1>6 DEF IInv

(* Spawning a worker keeps the invariant.                                  *)
LEMMA PrepareKeeps == IInv /\ Prepare => IInv'
  <1> SUFFICES ASSUME IInv, Prepare PROVE IInv'
    OBVIOUS
  <1>1. TypeOK'
    BY DEF Prepare, IInv, TypeOK, audioVars, hostVars, boxVars
  <1>2. FreshInv'
    BY DEF Prepare, IInv, TypeOK, FreshInv, HandoverInv, audioVars, hostVars,
      boxVars
  <1>3. HandoverInv'
    BY DEF Prepare, IInv, TypeOK, FreshInv, HandoverInv, audioVars, hostVars,
      boxVars
  <1>4. MissedInv'
    BY DEF Prepare, IInv, TypeOK, FreshInv, MissedInv, audioVars, hostVars,
      boxVars
  <1>5. BlocksInv'
    BY DEF Prepare, IInv, TypeOK, FreshInv, HandoverInv, BlocksInv, audioVars,
      hostVars, boxVars
  <1>6. EligibleInv'
    BY DEF Prepare, IInv, TypeOK, FreshInv, HandoverInv, BlocksInv,
      EligibleInv, audioVars, hostVars, boxVars
  <1> QED BY <1>1, <1>2, <1>3, <1>4, <1>5, <1>6 DEF IInv

(* A host that becomes ready is fresh.                                     *)
LEMMA PrepareReadyKeeps == IInv /\ PrepareReady => IInv'
  <1> SUFFICES ASSUME IInv, PrepareReady PROVE IInv'
    OBVIOUS
  <1>1. TypeOK'
    BY FreshNumbers DEF PrepareReady, IInv, TypeOK, audioVars, hostVars,
      boxVars, workerVars
  <1>2. FreshInv'
    BY FreshNumbers DEF PrepareReady, IInv, TypeOK, FreshInv, HandoverInv,
      audioVars, hostVars, boxVars, workerVars
  <1>3. HandoverInv'
    BY FreshNumbers DEF PrepareReady, IInv, TypeOK, FreshInv, HandoverInv,
      audioVars, hostVars, boxVars, workerVars
  <1>4. MissedInv'
    BY FreshNumbers DEF PrepareReady, IInv, TypeOK, FreshInv, MissedInv,
      audioVars, hostVars, boxVars, workerVars
  <1>5. BlocksInv'
    BY FreshNumbers DEF PrepareReady, IInv, TypeOK, FreshInv, HandoverInv,
      BlocksInv, audioVars, hostVars, boxVars, workerVars
  <1>6. EligibleInv'
    BY FreshNumbers DEF PrepareReady, IInv, TypeOK, FreshInv, HandoverInv,
      BlocksInv, EligibleInv, audioVars, hostVars, boxVars, workerVars
  <1> QED BY <1>1, <1>2, <1>3, <1>4, <1>5, <1>6 DEF IInv

(* Reaping keeps the invariant.                                            *)
LEMMA PollReapsKeeps == IInv /\ PollReaps => IInv'
  <1> SUFFICES ASSUME IInv, PollReaps PROVE IInv'
    OBVIOUS
  <1>1. TypeOK'
    BY DEF PollReaps, IInv, TypeOK, audioVars, hostVars, boxVars
  <1>2. FreshInv'
    BY DEF PollReaps, IInv, TypeOK, FreshInv, HandoverInv, audioVars,
      hostVars, boxVars, Attached
  <1>3. HandoverInv'
    BY DEF PollReaps, IInv, TypeOK, FreshInv, HandoverInv, audioVars,
      hostVars, boxVars
  <1>4. MissedInv'
    BY DEF PollReaps, IInv, TypeOK, FreshInv, MissedInv, audioVars, hostVars,
      boxVars
  <1>5. BlocksInv'
    BY DEF PollReaps, IInv, TypeOK, FreshInv, HandoverInv, BlocksInv,
      audioVars, hostVars, boxVars
  <1>6. EligibleInv'
    BY DEF PollReaps, IInv, TypeOK, FreshInv, HandoverInv, BlocksInv,
      EligibleInv, audioVars, hostVars, boxVars
  <1> QED BY <1>1, <1>2, <1>3, <1>4, <1>5, <1>6 DEF IInv

(* Killing the worker keeps the invariant.                                 *)
LEMMA PollKillsKeeps == IInv /\ PollKills => IInv'
  <1> SUFFICES ASSUME IInv, PollKills PROVE IInv'
    OBVIOUS
  <1>1. TypeOK'
    BY DEF PollKills, IInv, TypeOK, audioVars, hostVars, boxVars
  <1>2. FreshInv'
    BY DEF PollKills, IInv, TypeOK, FreshInv, HandoverInv, audioVars,
      hostVars, boxVars
  <1>3. HandoverInv'
    BY DEF PollKills, IInv, TypeOK, FreshInv, HandoverInv, audioVars,
      hostVars, boxVars
  <1>4. MissedInv'
    BY DEF PollKills, IInv, TypeOK, FreshInv, MissedInv, audioVars, hostVars,
      boxVars
  <1>5. BlocksInv'
    BY DEF PollKills, IInv, TypeOK, FreshInv, HandoverInv, BlocksInv,
      audioVars, hostVars, boxVars
  <1>6. EligibleInv'
    BY DEF PollKills, IInv, TypeOK, FreshInv, HandoverInv, BlocksInv,
      EligibleInv, audioVars, hostVars, boxVars
  <1> QED BY <1>1, <1>2, <1>3, <1>4, <1>5, <1>6 DEF IInv

(* The next block comes in: everything is one block older.                 *)
LEMMA BeginProcessKeeps == IInv /\ BeginProcess => IInv'
  <1> SUFFICES ASSUME IInv, BeginProcess PROVE IInv'
    OBVIOUS
  <1>a. /\ dry' \in Block \cup {Silence}
        /\ dry' # Silence => dry # Silence /\ localGen = generation /\ dry'.from = dry.from
        /\ dry' # Silence /\ dry.age = 0 => dry'.age = 1
    BY AgedBlock DEF BeginProcess, IInv, TypeOK
  <1>b. /\ input' \in Block \cup {Silence}
        /\ input' = Silence <=> input = Silence
        /\ input # Silence => input'.from = input.from
        /\ input # Silence /\ input.age = 0 => input'.age = 1
    BY AgedBlock DEF BeginProcess, IInv, TypeOK
  <1>c. /\ output' \in Block \cup {Silence}
        /\ output' = Silence <=> output = Silence
        /\ output # Silence => output'.from = output.from
        /\ output # Silence /\ input # Silence /\ output.age = input.age => output'.age = input'.age
    BY AgedBlock, BlockIsNotSilence DEF BeginProcess, IInv, TypeOK, Aged, Block
  <1>1. TypeOK'
    BY <1>a, <1>b, <1>c DEF BeginProcess, IInv, TypeOK, workerVars
  <1>2. FreshInv'
    BY <1>a, <1>b, <1>c DEF BeginProcess, IInv, TypeOK, FreshInv, HandoverInv,
      workerVars, Attached
  <1>3. HandoverInv'
    BY <1>a, <1>b, <1>c DEF BeginProcess, IInv, TypeOK, FreshInv, HandoverInv,
      workerVars
  <1>4. MissedInv'
    BY <1>a, <1>b, <1>c DEF BeginProcess, IInv, TypeOK, FreshInv, MissedInv,
      workerVars
  <1>5. BlocksInv'
    BY <1>a, <1>b, <1>c DEF BeginProcess, IInv, TypeOK, FreshInv, HandoverInv,
      BlocksInv, workerVars
  <1>6. EligibleInv'
    BY <1>a, <1>b, <1>c DEF BeginProcess, IInv, TypeOK, FreshInv, HandoverInv,
      BlocksInv, EligibleInv, workerVars
  <1> QED BY <1>1, <1>2, <1>3, <1>4, <1>5, <1>6 DEF IInv

(* Looking at the status keeps the invariant.                              *)
LEMMA CheckStatusKeeps == IInv /\ CheckStatus => IInv'
  <1> SUFFICES ASSUME IInv, CheckStatus PROVE IInv'
    OBVIOUS
  <1>1. TypeOK'
    BY DEF CheckStatus, IInv, TypeOK, boxVars, workerVars
  <1>2. FreshInv'
    BY DEF CheckStatus, IInv, TypeOK, FreshInv, HandoverInv, boxVars,
      workerVars
  <1>3. HandoverInv'
    BY DEF CheckStatus, IInv, TypeOK, FreshInv, HandoverInv, boxVars,
      workerVars
  <1>4. MissedInv'
    BY DEF CheckStatus, IInv, TypeOK, FreshInv, MissedInv, boxVars, workerVars
  <1>5. BlocksInv'
    BY DEF CheckStatus, IInv, TypeOK, FreshInv, HandoverInv, BlocksInv,
      boxVars, workerVars
  <1>6. EligibleInv'
    BY DEF CheckStatus, IInv, TypeOK, FreshInv, HandoverInv, BlocksInv,
      EligibleInv, boxVars, workerVars
  <1> QED BY <1>1, <1>2, <1>3, <1>4, <1>5, <1>6 DEF IInv

(* An answer that is heard is one block old and of this generation.        *)
LEMMA AnsweredKeeps == IInv /\ Answered => IInv'
  <1> SUFFICES ASSUME IInv, Answered PROVE IInv'
    OBVIOUS
  <1>1. TypeOK'
    BY FreshNumbers DEF Answered, IInv, TypeOK, boxVars, workerVars
  <1>2. FreshInv'
    BY FreshNumbers DEF Answered, IInv, TypeOK, FreshInv, HandoverInv,
      boxVars, workerVars
  <1>3. HandoverInv'
    BY FreshNumbers DEF Answered, IInv, TypeOK, FreshInv, HandoverInv,
      boxVars, workerVars
  <1>4. MissedInv'
    BY FreshNumbers DEF Answered, IInv, TypeOK, FreshInv, MissedInv, boxVars,
      workerVars
  <1>5. BlocksInv'
    BY FreshNumbers DEF Answered, IInv, TypeOK, FreshInv, HandoverInv,
      BlocksInv, EligibleInv, boxVars, workerVars
  <1>6. EligibleInv'
    BY FreshNumbers DEF Answered, IInv, TypeOK, FreshInv, HandoverInv,
      BlocksInv, EligibleInv, boxVars, workerVars
  <1> QED BY <1>1, <1>2, <1>3, <1>4, <1>5, <1>6 DEF IInv

(* A missed answer is no longer eligible.                                  *)
LEMMA MissedKeeps == IInv /\ Missed => IInv'
  <1> SUFFICES ASSUME IInv, Missed PROVE IInv'
    OBVIOUS
  <1>a. missed + 1 \in 0..MaxMissed
    BY ConstantsAssumption DEF Missed, IInv, TypeOK, MissedInv
  <1>b. status' = "Ready" => missed' < MaxMissed
    BY ConstantsAssumption DEF Missed, IInv, TypeOK
  <1>1. TypeOK'
    BY <1>a, <1>b, ZenonT(60) DEF Missed, IInv, TypeOK, boxVars, workerVars
  <1>2. FreshInv'
    BY <1>a, <1>b DEF Missed, IInv, TypeOK, FreshInv, HandoverInv, boxVars,
      workerVars
  <1>3. HandoverInv'
    BY <1>a, <1>b DEF Missed, IInv, TypeOK, FreshInv, HandoverInv, boxVars,
      workerVars
  <1>4. MissedInv'
    BY <1>a, <1>b DEF Missed, IInv, TypeOK, FreshInv, MissedInv, boxVars,
      workerVars
  <1>5. BlocksInv'
    BY <1>a, <1>b DEF Missed, IInv, TypeOK, FreshInv, HandoverInv, BlocksInv,
      boxVars, workerVars
  <1>6. EligibleInv'
    BY <1>a, <1>b DEF Missed, IInv, TypeOK, FreshInv, HandoverInv, BlocksInv,
      EligibleInv, boxVars, workerVars
  <1> QED BY <1>1, <1>2, <1>3, <1>4, <1>5, <1>6 DEF IInv

(* The block that came in is the last dry one.                             *)
LEMMA EmitKeeps == IInv /\ Emit => IInv'
  <1> SUFFICES ASSUME IInv, Emit PROVE IInv'
    OBVIOUS
  <1>a. dry' \in Block /\ dry' # Silence /\ dry'.from = {localGen} /\ dry'.age = 0
    BY BlockIsNotSilence DEF Emit, IInv, TypeOK, Block
  <1>1. TypeOK'
    BY <1>a DEF Emit, IInv, TypeOK, boxVars, workerVars
  <1>2. FreshInv'
    BY <1>a DEF Emit, IInv, TypeOK, FreshInv, HandoverInv, boxVars, workerVars
  <1>3. HandoverInv'
    BY <1>a DEF Emit, IInv, TypeOK, FreshInv, HandoverInv, boxVars, workerVars
  <1>4. MissedInv'
    BY <1>a DEF Emit, IInv, TypeOK, FreshInv, MissedInv, boxVars, workerVars
  <1>5. BlocksInv'
    BY <1>a DEF Emit, IInv, TypeOK, FreshInv, HandoverInv, BlocksInv, boxVars,
      workerVars
  <1>6. EligibleInv'
    BY <1>a DEF Emit, IInv, TypeOK, FreshInv, HandoverInv, BlocksInv,
      EligibleInv, boxVars, workerVars
  <1> QED BY <1>1, <1>2, <1>3, <1>4, <1>5, <1>6 DEF IInv

(* A request is written while the worker has none.                         *)
LEMMA FillRequestKeeps == IInv /\ FillRequest => IInv'
  <1> SUFFICES ASSUME IInv, FillRequest PROVE IInv'
    OBVIOUS
  <1>a. NextSequence \in Sequence /\ NextSequence # 0 /\ NextSequence # sequence
    BY NextSequenceIsNew DEF IInv, TypeOK
  <1>1. TypeOK'
    BY <1>a DEF FillRequest, IInv, TypeOK, workerVars
  <1>2. FreshInv'
    BY <1>a DEF FillRequest, IInv, TypeOK, FreshInv, HandoverInv, workerVars
  <1>3. HandoverInv'
    BY <1>a DEF FillRequest, IInv, TypeOK, FreshInv, HandoverInv, workerVars
  <1>4. MissedInv'
    BY <1>a DEF FillRequest, IInv, TypeOK, FreshInv, MissedInv, workerVars
  <1>5. BlocksInv'
    BY <1>a DEF FillRequest, IInv, TypeOK, FreshInv, HandoverInv, BlocksInv,
      workerVars
  <1>6. EligibleInv'
    BY <1>a DEF FillRequest, IInv, TypeOK, FreshInv, HandoverInv, BlocksInv,
      EligibleInv, workerVars
  <1> QED BY <1>1, <1>2, <1>3, <1>4, <1>5, <1>6 DEF IInv

(* The worker may take the request.                                        *)
LEMMA PublishRequestKeeps == IInv /\ PublishRequest => IInv'
  <1> SUFFICES ASSUME IInv, PublishRequest PROVE IInv'
    OBVIOUS
  <1>1. TypeOK'
    BY DEF PublishRequest, IInv, TypeOK, HandoverInv, hostVars, workerVars
  <1>2. FreshInv'
    BY DEF PublishRequest, IInv, TypeOK, FreshInv, HandoverInv, hostVars,
      workerVars
  <1>3. HandoverInv'
    BY DEF PublishRequest, IInv, TypeOK, FreshInv, HandoverInv, hostVars,
      workerVars
  <1>4. MissedInv'
    BY DEF PublishRequest, IInv, TypeOK, FreshInv, MissedInv, hostVars,
      workerVars
  <1>5. BlocksInv'
    BY DEF PublishRequest, IInv, TypeOK, FreshInv, HandoverInv, BlocksInv,
      hostVars, workerVars
  <1>6. EligibleInv'
    BY DEF PublishRequest, IInv, TypeOK, FreshInv, HandoverInv, BlocksInv,
      EligibleInv, hostVars, workerVars
  <1> QED BY <1>1, <1>2, <1>3, <1>4, <1>5, <1>6 DEF IInv

(* A reset changes only the generation.                                    *)
LEMMA ResetKeeps == IInv /\ Reset => IInv'
  <1> SUFFICES ASSUME IInv, Reset PROVE IInv'
    OBVIOUS
  <1> USE ConstantsAssumption DEF Generation
  <1>1. TypeOK'
    BY DEF Reset, IInv, TypeOK, workerVars
  <1>2. FreshInv'
    BY DEF Reset, IInv, TypeOK, FreshInv, HandoverInv, workerVars, Attached
  <1>3. HandoverInv'
    BY DEF Reset, IInv, TypeOK, FreshInv, HandoverInv, workerVars
  <1>4. MissedInv'
    BY DEF Reset, IInv, TypeOK, FreshInv, MissedInv, workerVars
  <1>5. BlocksInv'
    BY DEF Reset, IInv, TypeOK, FreshInv, HandoverInv, BlocksInv, workerVars
  <1>6. EligibleInv'
    BY DEF Reset, IInv, TypeOK, FreshInv, HandoverInv, BlocksInv, EligibleInv,
      workerVars
  <1> QED BY <1>1, <1>2, <1>3, <1>4, <1>5, <1>6 DEF IInv

(* A worker starts with nothing answered.                                  *)
LEMMA WorkerReadyKeeps == IInv /\ WorkerReady => IInv'
  <1> SUFFICES ASSUME IInv, WorkerReady PROVE IInv'
    OBVIOUS
  <1>1. TypeOK'
    BY FreshNumbers DEF WorkerReady, IInv, TypeOK, audioVars, hostVars
  <1>2. FreshInv'
    BY FreshNumbers DEF WorkerReady, IInv, TypeOK, FreshInv, HandoverInv,
      audioVars, hostVars
  <1>3. HandoverInv'
    BY FreshNumbers DEF WorkerReady, IInv, TypeOK, FreshInv, HandoverInv,
      audioVars, hostVars
  <1>4. MissedInv'
    BY FreshNumbers DEF WorkerReady, IInv, TypeOK, FreshInv, MissedInv,
      audioVars, hostVars
  <1>5. BlocksInv'
    BY FreshNumbers DEF WorkerReady, IInv, TypeOK, FreshInv, HandoverInv,
      BlocksInv, audioVars, hostVars
  <1>6. EligibleInv'
    BY FreshNumbers DEF WorkerReady, IInv, TypeOK, FreshInv, HandoverInv,
      BlocksInv, EligibleInv, audioVars, hostVars
  <1> QED BY <1>1, <1>2, <1>3, <1>4, <1>5, <1>6 DEF IInv

(* A worker that refuses its module never answers.                         *)
LEMMA WorkerRefusesKeeps == IInv /\ WorkerRefuses => IInv'
  <1> SUFFICES ASSUME IInv, WorkerRefuses PROVE IInv'
    OBVIOUS
  <1>1. TypeOK'
    BY DEF WorkerRefuses, IInv, TypeOK, audioVars, hostVars
  <1>2. FreshInv'
    BY DEF WorkerRefuses, IInv, TypeOK, FreshInv, HandoverInv, audioVars,
      hostVars
  <1>3. HandoverInv'
    BY DEF WorkerRefuses, IInv, TypeOK, FreshInv, HandoverInv, audioVars,
      hostVars
  <1>4. MissedInv'
    BY DEF WorkerRefuses, IInv, TypeOK, FreshInv, MissedInv, audioVars,
      hostVars
  <1>5. BlocksInv'
    BY DEF WorkerRefuses, IInv, TypeOK, FreshInv, HandoverInv, BlocksInv,
      audioVars, hostVars
  <1>6. EligibleInv'
    BY DEF WorkerRefuses, IInv, TypeOK, FreshInv, HandoverInv, BlocksInv,
      EligibleInv, audioVars, hostVars
  <1> QED BY <1>1, <1>2, <1>3, <1>4, <1>5, <1>6 DEF IInv

(* A reset empties the memory of the plugin.                               *)
LEMMA WorkerSeesResetKeeps == IInv /\ WorkerSeesReset => IInv'
  <1> SUFFICES ASSUME IInv, WorkerSeesReset PROVE IInv'
    OBVIOUS
  <1>1. TypeOK'
    BY DEF WorkerSeesReset, IInv, TypeOK, audioVars, hostVars, boxVars
  <1>2. FreshInv'
    BY DEF WorkerSeesReset, IInv, TypeOK, FreshInv, HandoverInv, audioVars,
      hostVars, boxVars
  <1>3. HandoverInv'
    BY DEF WorkerSeesReset, IInv, TypeOK, FreshInv, HandoverInv, audioVars,
      hostVars, boxVars
  <1>4. MissedInv'
    BY DEF WorkerSeesReset, IInv, TypeOK, FreshInv, MissedInv, audioVars,
      hostVars, boxVars
  <1>5. BlocksInv'
    BY DEF WorkerSeesReset, IInv, TypeOK, FreshInv, HandoverInv, BlocksInv,
      audioVars, hostVars, boxVars
  <1>6. EligibleInv'
    BY DEF WorkerSeesReset, IInv, TypeOK, FreshInv, HandoverInv, BlocksInv,
      EligibleInv, audioVars, hostVars, boxVars
  <1> QED BY <1>1, <1>2, <1>3, <1>4, <1>5, <1>6 DEF IInv

(* Waiting keeps the invariant.                                            *)
LEMMA WorkerIdlesKeeps == IInv /\ WorkerIdles => IInv'
  <1> SUFFICES ASSUME IInv, WorkerIdles PROVE IInv'
    OBVIOUS
  <1>1. TypeOK'
    BY DEF WorkerIdles, IInv, TypeOK, audioVars, hostVars, boxVars
  <1>2. FreshInv'
    BY DEF WorkerIdles, IInv, TypeOK, FreshInv, HandoverInv, audioVars,
      hostVars, boxVars
  <1>3. HandoverInv'
    BY DEF WorkerIdles, IInv, TypeOK, FreshInv, HandoverInv, audioVars,
      hostVars, boxVars
  <1>4. MissedInv'
    BY DEF WorkerIdles, IInv, TypeOK, FreshInv, MissedInv, audioVars,
      hostVars, boxVars
  <1>5. BlocksInv'
    BY DEF WorkerIdles, IInv, TypeOK, FreshInv, HandoverInv, BlocksInv,
      audioVars, hostVars, boxVars
  <1>6. EligibleInv'
    BY DEF WorkerIdles, IInv, TypeOK, FreshInv, HandoverInv, BlocksInv,
      EligibleInv, audioVars, hostVars, boxVars
  <1> QED BY <1>1, <1>2, <1>3, <1>4, <1>5, <1>6 DEF IInv

(* The worker takes only a request that is in flight.                      *)
LEMMA WorkerTakesKeeps == IInv /\ WorkerTakes => IInv'
  <1> SUFFICES ASSUME IInv, WorkerTakes PROVE IInv'
    OBVIOUS
  <1>1. TypeOK'
    BY DEF WorkerTakes, IInv, TypeOK, HandoverInv, audioVars, hostVars,
      boxVars
  <1>2. FreshInv'
    BY DEF WorkerTakes, IInv, TypeOK, FreshInv, HandoverInv, audioVars,
      hostVars, boxVars
  <1>3. HandoverInv'
    BY DEF WorkerTakes, IInv, TypeOK, FreshInv, HandoverInv, audioVars,
      hostVars, boxVars
  <1>4. MissedInv'
    BY DEF WorkerTakes, IInv, TypeOK, FreshInv, MissedInv, audioVars,
      hostVars, boxVars
  <1>5. BlocksInv'
    BY DEF WorkerTakes, IInv, TypeOK, FreshInv, HandoverInv, BlocksInv,
      audioVars, hostVars, boxVars
  <1>6. EligibleInv'
    BY DEF WorkerTakes, IInv, TypeOK, FreshInv, HandoverInv, BlocksInv,
      EligibleInv, audioVars, hostVars, boxVars
  <1> QED BY <1>1, <1>2, <1>3, <1>4, <1>5, <1>6 DEF IInv

(* The answer is made from blocks of one generation.                       *)
LEMMA WorkerAnswersKeeps == IInv /\ WorkerAnswers => IInv'
  <1> SUFFICES ASSUME IInv, WorkerAnswers PROVE IInv'
    OBVIOUS
  <1>a. input # Silence /\ input \in Block /\ input.from = {reqGen} /\ wgen = reqGen
    BY DEF WorkerAnswers, IInv, TypeOK, HandoverInv, BlocksInv
  <1>b. history' = {reqGen}
    BY <1>a DEF WorkerAnswers, IInv, BlocksInv
  <1>c. output' \in Block /\ output' # Silence /\ output'.from = {respGen'} /\ output'.age = input.age
    BY <1>a, <1>b, BlockIsNotSilence DEF WorkerAnswers, IInv, TypeOK, Block
  <1>1. TypeOK'
    BY <1>a, <1>b, <1>c DEF WorkerAnswers, IInv, TypeOK, audioVars, hostVars
  <1>2. FreshInv'
    BY <1>a, <1>b, <1>c DEF WorkerAnswers, IInv, TypeOK, FreshInv,
      HandoverInv, audioVars, hostVars
  <1>3. HandoverInv'
    BY <1>a, <1>b, <1>c DEF WorkerAnswers, IInv, TypeOK, FreshInv,
      HandoverInv, audioVars, hostVars
  <1>4. MissedInv'
    BY <1>a, <1>b, <1>c DEF WorkerAnswers, IInv, TypeOK, FreshInv, MissedInv,
      audioVars, hostVars
  <1>5. BlocksInv'
    BY <1>a, <1>b, <1>c DEF WorkerAnswers, IInv, TypeOK, FreshInv,
      HandoverInv, BlocksInv, audioVars, hostVars
  <1>6. EligibleInv'
    BY <1>a, <1>b, <1>c DEF WorkerAnswers, IInv, TypeOK, FreshInv,
      HandoverInv, BlocksInv, EligibleInv, audioVars, hostVars
  <1> QED BY <1>1, <1>2, <1>3, <1>4, <1>5, <1>6 DEF IInv

(* A death keeps the invariant.                                            *)
LEMMA WorkerDiesKeeps == IInv /\ WorkerDies => IInv'
  <1> SUFFICES ASSUME IInv, WorkerDies PROVE IInv'
    OBVIOUS
  <1>1. TypeOK'
    BY DEF WorkerDies, IInv, TypeOK, audioVars, hostVars, boxVars
  <1>2. FreshInv'
    BY DEF WorkerDies, IInv, TypeOK, FreshInv, HandoverInv, audioVars,
      hostVars, boxVars
  <1>3. HandoverInv'
    BY DEF WorkerDies, IInv, TypeOK, FreshInv, HandoverInv, audioVars,
      hostVars, boxVars
  <1>4. MissedInv'
    BY DEF WorkerDies, IInv, TypeOK, FreshInv, MissedInv, audioVars, hostVars,
      boxVars
  <1>5. BlocksInv'
    BY DEF WorkerDies, IInv, TypeOK, FreshInv, HandoverInv, BlocksInv,
      audioVars, hostVars, boxVars
  <1>6. EligibleInv'
    BY DEF WorkerDies, IInv, TypeOK, FreshInv, HandoverInv, BlocksInv,
      EligibleInv, audioVars, hostVars, boxVars
  <1> QED BY <1>1, <1>2, <1>3, <1>4, <1>5, <1>6 DEF IInv

(* Every step keeps the invariant.                                         *)
LEMMA NextKeeps == IInv /\ [Next]_vars => IInv'
  <1> SUFFICES ASSUME IInv, [Next]_vars PROVE IInv'
    OBVIOUS
  <1>1. CASE Prepare BY <1>1, PrepareKeeps
  <1>2. CASE PrepareReady BY <1>2, PrepareReadyKeeps
  <1>3. CASE PollReaps BY <1>3, PollReapsKeeps
  <1>4. CASE PollKills BY <1>4, PollKillsKeeps
  <1>5. CASE BeginProcess BY <1>5, BeginProcessKeeps
  <1>6. CASE CheckStatus BY <1>6, CheckStatusKeeps
  <1>7. CASE Answered BY <1>7, AnsweredKeeps
  <1>8. CASE Missed BY <1>8, MissedKeeps
  <1>9. CASE Emit BY <1>9, EmitKeeps
  <1>10. CASE FillRequest BY <1>10, FillRequestKeeps
  <1>11. CASE PublishRequest BY <1>11, PublishRequestKeeps
  <1>12. CASE Reset BY <1>12, ResetKeeps
  <1>13. CASE WorkerReady BY <1>13, WorkerReadyKeeps
  <1>14. CASE WorkerRefuses BY <1>14, WorkerRefusesKeeps
  <1>15. CASE WorkerSeesReset BY <1>15, WorkerSeesResetKeeps
  <1>16. CASE WorkerIdles BY <1>16, WorkerIdlesKeeps
  <1>17. CASE WorkerTakes BY <1>17, WorkerTakesKeeps
  <1>18. CASE WorkerAnswers BY <1>18, WorkerAnswersKeeps
  <1>19. CASE WorkerDies BY <1>19, WorkerDiesKeeps
  <1>20. CASE PrepareFails BY <1>20, RenewedKeeps DEF PrepareFails
  <1>21. CASE Stop BY <1>21, RenewedKeeps DEF Stop
  <1>22. CASE UNCHANGED vars
    BY <1>22 DEF IInv, TypeOK, FreshInv, HandoverInv, MissedInv, BlocksInv,
      EligibleInv, vars, audioVars, hostVars, boxVars, workerVars
  <1> QED
    BY <1>1, <1>2, <1>3, <1>4, <1>5, <1>6, <1>7, <1>8, <1>9, <1>10, <1>11,
      <1>12, <1>13, <1>14, <1>15, <1>16, <1>17, <1>18, <1>19, <1>20, <1>21,
      <1>22
    DEF Next, Control, Process, Worker

(* The protocol of the mailbox: its inductive invariant.                   *)
THEOREM Invariance == Spec => []IInv
  BY InitInv, NextKeeps, PTL DEF Spec

(* "Exactly one producer/consumer transaction may own the audio arrays at  *)
(* a time", for every width of the request number.                         *)
THEOREM ArraysHaveOneOwner == Spec => []OneOwner
  <1>1. IInv => OneOwner
    BY DEF IInv, TypeOK, HandoverInv, OneOwner
  <1> QED BY <1>1, Invariance, PTL

(* process() puts out silence or the block of the call before.             *)
THEOREM LatencyIsOneBlock == Spec => []OneBlockLatency
  <1>1. IInv => OneBlockLatency
    BY DEF IInv, BlocksInv, OneBlockLatency, Heard
  <1> QED BY <1>1, Invariance, PTL

(* Blocks are handed over one at a time, and in time.                      *)
THEOREM BlocksAreHandedOver == Spec => []HandsBlocksOver
  BY ArraysHaveOneOwner, LatencyIsOneBlock, PTL DEF HandsBlocksOver

(* Nothing that came in before a reset is heard after it.                  *)
THEOREM ResetIsComplete == Spec => []ResetForgets
  <1>1. IInv => ResetForgets
    BY DEF IInv, BlocksInv, ResetForgets, Heard
  <1> QED BY <1>1, Invariance, PTL

(* The state is well typed; no host misses more cycles than the limit.     *)
THEOREM TypeCorrect == Spec => []TypeOK
  <1>1. IInv => TypeOK
    BY DEF IInv
  <1> QED BY <1>1, Invariance, PTL

=============================================================================
