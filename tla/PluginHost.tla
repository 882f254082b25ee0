----------------------------- MODULE PluginHost -----------------------------
(***************************************************************************)
(* One effect plugin running in a process of its own: PluginHost           *)
(* (src/audio/plugin_host.cpp), the shared mailbox                         *)
(* (include/audio/plugin_ipc.hpp) and the loop of the worker process       *)
(* (src/plugin_worker/main.cpp).                                           *)
(*                                                                         *)
(* Three processes: the audio thread calls process() for every block and   *)
(* reset() in between, the control thread calls prepare(), poll() and      *)
(* stop(), and the worker answers one request at a time.  None waits for   *)
(* another one, so every load and store of the mailbox is a step.          *)
(*                                                                         *)
(* A block of audio is what the properties tell about it: how many calls   *)
(* of process() ago it came in, and the reset generations of all the       *)
(* blocks it was made from.                                                *)
(***************************************************************************)
EXTENDS Integers, FiniteSets

CONSTANTS
  MaxMissed,     \* kMaxMissedCycles
  MaxSequence,   \* UINT32_MAX, the last request number before it wraps
  MaxResets,     \* bound on the calls of reset() in the life of a host
  Silence        \* a block of zeros

ASSUME ConstantsAssumption ==
  /\ MaxMissed \in Nat \ {0}
  /\ MaxSequence \in Nat /\ MaxSequence >= 2
  /\ MaxResets \in Nat

Generation == 1..(MaxResets + 1)
Sequence == 0..MaxSequence

ASSUME SilenceAssumption ==
  \A age \in 0..2, gens \in SUBSET Generation : Silence # [age |-> age, from |-> gens]

VARIABLES
  \* PluginHost
  status,        \* status_
  generation,    \* generation_
  localGen,      \* local_generation_
  sequence,      \* sequence_
  inFlight,      \* in_flight_: the request not yet acknowledged, or 0
  missed,        \* missed_
  eligible,      \* eligible_: its answer is still in time
  dry,           \* dry_, or Silence while dry_valid_ is false
  pc,            \* where the audio thread is in process()
  ready, wet,    \* its local variables
  \* Mailbox
  state,         \* state
  request,       \* request
  response,      \* response
  boxGen,        \* generation
  reqGen,        \* request_generation
  respGen,       \* response_generation
  input, output, \* input, output
  \* The worker process
  wpc,           \* where it is in its loop; "dead" until it is reaped
  wgen,          \* its local generation
  completed,     \* completed
  history        \* generations of the blocks in the plugin's memory

hostVars == <<generation, localGen, sequence, inFlight, missed, eligible, dry, ready, wet>>
audioVars == <<hostVars, pc>>
boxVars == <<state, request, response, boxGen, reqGen, respGen, input, output>>
workerVars == <<wpc, wgen, completed, history>>
vars == <<status, audioVars, boxVars, workerVars>>

Block == [age : 0..2, from : SUBSET Generation]

(* A block is one more call of process() old; 2 is "too old".              *)
Aged(b) == IF b = Silence THEN b ELSE [b EXCEPT !.age = IF @ = 2 THEN 2 ELSE @ + 1]

Alive == wpc \in {"starting", "top", "poll", "process"}

(* What prepare() makes of the host and the mailbox before it spawns the   *)
(* worker, and what stop() leaves.                                         *)
Fresh ==
  /\ generation = 1 /\ localGen = 1
  /\ sequence = 0 /\ inFlight = 0 /\ missed = 0
  /\ eligible = FALSE /\ dry = Silence
  /\ pc = "idle" /\ ready = FALSE /\ wet = FALSE
  /\ state = "starting"
  /\ request = 0 /\ response = 0
  /\ boxGen = 1 /\ reqGen = 1 /\ respGen = 1
  /\ input = Silence /\ output = Silence
  /\ wgen = 1 /\ completed = 0 /\ history = {}

Init == status = "Stopped" /\ wpc = "none" /\ Fresh

Renewed ==
  /\ generation' = 1 /\ localGen' = 1
  /\ sequence' = 0 /\ inFlight' = 0 /\ missed' = 0
  /\ eligible' = FALSE /\ dry' = Silence
  /\ pc' = "idle" /\ ready' = FALSE /\ wet' = FALSE
  /\ state' = "starting"
  /\ request' = 0 /\ response' = 0
  /\ boxGen' = 1 /\ reqGen' = 1 /\ respGen' = 1
  /\ input' = Silence /\ output' = Silence
  /\ wgen' = 1 /\ completed' = 0 /\ history' = {}

-----------------------------------------------------------------------------
(* The control thread.                                                     *)

(* prepare() maps a new mailbox and spawns a worker.                       *)
Prepare ==
  /\ status = "Stopped"
  /\ status' = "Starting"
  /\ wpc' = "starting"
  /\ UNCHANGED <<audioVars, boxVars, wgen, completed, history>>

PrepareReady ==
  /\ status = "Starting"
  /\ state = "ready"
  /\ status' = "Ready"
  /\ UNCHANGED <<audioVars, boxVars, workerVars>>

(* The worker reports a fault, exits, or is not ready in time: prepare()   *)
(* stops it and fails, and its caller drops the host.                      *)
PrepareFails ==
  /\ status = "Starting"
  /\ status' = "Stopped"
  /\ wpc' = "none"
  /\ Renewed

(* Between prepare() and stop() the effect owns the host.                  *)
Attached == status \in {"Ready", "Fault"}

(* poll() reaps a worker that exited.                                      *)
PollReaps ==
  /\ Attached
  /\ wpc = "dead"
  /\ wpc' = "none"
  /\ status' = "Fault"
  /\ UNCHANGED <<audioVars, boxVars, wgen, completed, history>>

(* poll() kills the worker of a host that faulted.                         *)
PollKills ==
  /\ status = "Fault"
  /\ Alive
  /\ wpc' = "dead"
  /\ UNCHANGED <<status, audioVars, boxVars, wgen, completed, history>>

(* stop(), called once the audio thread has released the host.             *)
Stop ==
  /\ Attached
  /\ pc = "idle"
  /\ status' = "Stopped"
  /\ wpc' = "none"
  /\ Renewed

-----------------------------------------------------------------------------
(* The audio thread.                                                       *)

(* process(): another block comes in.  After a reset neither the last dry  *)
(* block nor the answer to the last request may be heard.                  *)
BeginProcess ==
  /\ pc = "idle" /\ Attached
  /\ pc' = "check"
  /\ localGen' = generation
  /\ dry' = IF localGen = generation THEN Aged(dry) ELSE Silence
  /\ eligible' = (eligible /\ localGen = generation)
  /\ input' = Aged(input) /\ output' = Aged(output)
  /\ wet' = FALSE
  /\ UNCHANGED <<status, generation, sequence, inFlight, missed, ready, state, request,
                 response, boxGen, reqGen, respGen, workerVars>>

(* (The mailbox state needs no second look: a worker that was ready never  *)
(* leaves that state, since every request has a valid number of frames.)   *)
CheckStatus ==
  /\ pc = "check"
  /\ ready' = (status = "Ready")
  /\ pc' = IF status = "Ready" /\ inFlight # 0 THEN "answer" ELSE "emit"
  /\ UNCHANGED <<status, generation, localGen, sequence, inFlight, missed, eligible, dry,
                 wet, boxVars, workerVars>>

(* Mutant of Answered: an answer is heard however late it comes.           *)
AnsweredLate ==
  /\ pc = "answer"
  /\ response = inFlight
  /\ wet' = (respGen = localGen)
  /\ inFlight' = 0
  /\ missed' = 0
  /\ pc' = "emit"
  /\ UNCHANGED <<status, generation, localGen, sequence, eligible, dry, ready, boxVars, workerVars>>

(* The request of an earlier block is answered; the answer is heard only   *)
(* if it is in time and of this generation.                                *)
Answered ==
  /\ pc = "answer"
  /\ response = inFlight
  /\ wet' = (eligible /\ respGen = localGen)
  /\ inFlight' = 0
  /\ missed' = 0
  /\ pc' = "emit"
  /\ UNCHANGED <<status, generation, localGen, sequence, eligible, dry, ready, boxVars, workerVars>>

(* Mutant of Missed: missed answers are not counted.                       *)
MissedUncounted ==
  /\ pc = "answer"
  /\ response # inFlight
  /\ eligible' = FALSE
  /\ pc' = "emit"
  /\ UNCHANGED <<status, generation, localGen, sequence, inFlight, missed, dry, ready, wet,
                 boxVars, workerVars>>

Missed ==
  /\ pc = "answer"
  /\ response # inFlight
  /\ eligible' = FALSE
  /\ missed' = missed + 1
  /\ IF missed' >= MaxMissed THEN status' = "Fault" /\ ready' = FALSE
                             ELSE UNCHANGED <<status, ready>>
  /\ pc' = "emit"
  /\ UNCHANGED <<generation, localGen, sequence, inFlight, dry, wet, boxVars, workerVars>>

(* The block that is heard, while the audio thread copies it out.          *)
Heard == IF wet THEN output ELSE dry

(* The block that came in replaces the last dry one.                       *)
Emit ==
  /\ pc = "emit"
  /\ dry' = [age |-> 0, from |-> {localGen}]
  /\ pc' = IF ready /\ inFlight = 0 THEN "fill" ELSE "idle"
  /\ UNCHANGED <<status, generation, localGen, sequence, inFlight, missed, eligible, ready, wet,
                 boxVars, workerVars>>

(* Request numbers wrap past 0, which means that nothing is in flight.     *)
NextSequence == IF sequence = MaxSequence THEN 1 ELSE sequence + 1

(* The block goes into the mailbox...                                      *)
FillRequest ==
  /\ pc = "fill"
  /\ input' = dry
  /\ reqGen' = localGen
  /\ sequence' = NextSequence
  /\ inFlight' = sequence'
  /\ eligible' = TRUE
  /\ pc' = "publish"
  /\ UNCHANGED <<status, generation, localGen, missed, dry, ready, wet, state, request,
                 response, boxGen, respGen, output, workerVars>>

(* ... and is handed to the worker.                                        *)
PublishRequest ==
  /\ pc = "publish"
  /\ request' = sequence
  /\ pc' = "idle"
  /\ UNCHANGED <<status, hostVars, state, response, boxGen, reqGen, respGen, input, output,
                 workerVars>>

(* reset(): the effect was disabled, or the graph goes to sleep.           *)
Reset ==
  /\ pc = "idle" /\ Attached
  /\ generation <= MaxResets
  /\ generation' = generation + 1
  /\ boxGen' = generation'
  /\ UNCHANGED <<status, localGen, sequence, inFlight, missed, eligible, dry, pc, ready, wet,
                 state, request, response, reqGen, respGen, input, output, workerVars>>

-----------------------------------------------------------------------------
(* The worker process.                                                     *)

WorkerReady ==
  /\ wpc = "starting"
  /\ wgen' = boxGen
  /\ completed' = 0
  /\ state' = "ready"
  /\ wpc' = "top"
  /\ UNCHANGED <<status, audioVars, request, response, boxGen, reqGen, respGen, input, output,
                 history>>

(* fail(): the module cannot be loaded.                                    *)
WorkerRefuses ==
  /\ wpc = "starting"
  /\ state' = "fault"
  /\ wpc' = "dead"
  /\ UNCHANGED <<status, audioVars, request, response, boxGen, reqGen, respGen, input, output,
                 wgen, completed, history>>

(* The plugin forgets what it heard when its generation changes.           *)
WorkerSeesReset ==
  /\ wpc = "top"
  /\ history' = IF boxGen = wgen THEN history ELSE {}
  /\ wgen' = boxGen
  /\ wpc' = "poll"
  /\ UNCHANGED <<status, audioVars, boxVars, completed>>

WorkerIdles ==
  /\ wpc = "poll"
  /\ request = completed
  /\ wpc' = "top"
  /\ UNCHANGED <<status, audioVars, boxVars, wgen, completed, history>>

(* Mutant of WorkerTakes: requests of old workers are taken.               *)
WorkerTakesAnyGeneration ==
  /\ wpc = "poll"
  /\ request # completed
  /\ completed' = request
  /\ wpc' = "process"
  /\ UNCHANGED <<status, audioVars, boxVars, wgen, history>>

(* It takes a request.  `completed' is read again only after the answer.   *)
WorkerTakes ==
  /\ wpc = "poll"
  /\ request # completed
  /\ history' = IF wgen = reqGen THEN history ELSE {}
  /\ wgen' = reqGen
  /\ completed' = request
  /\ wpc' = "process"
  /\ UNCHANGED <<status, audioVars, boxVars>>

WorkerAnswers ==
  /\ wpc = "process"
  /\ history' = history \cup input.from
  /\ output' = [age |-> input.age, from |-> history']
  /\ respGen' = reqGen
  /\ response' = completed
  /\ wpc' = "top"
  /\ UNCHANGED <<status, audioVars, state, request, boxGen, reqGen, input, wgen, completed>>

(* The plugin crashes or breaks the sandbox at any point.                  *)
WorkerDies ==
  /\ Alive
  /\ wpc' = "dead"
  /\ UNCHANGED <<status, audioVars, boxVars, wgen, completed, history>>

-----------------------------------------------------------------------------
Control == Prepare \/ PrepareReady \/ PrepareFails \/ PollReaps \/ PollKills \/ Stop
Process == \/ BeginProcess \/ CheckStatus \/ Answered \/ Missed \/ Emit
           \/ FillRequest \/ PublishRequest
Worker == \/ WorkerReady \/ WorkerRefuses \/ WorkerSeesReset \/ WorkerIdles
          \/ WorkerTakes \/ WorkerAnswers \/ WorkerDies

Next == Control \/ Process \/ Reset \/ Worker

Spec == Init /\ [][Next]_vars

(* The main loop polls every host and prepare() gives up in time; the      *)
(* audio thread runs every block of an enabled effect.  Nothing is assumed *)
(* of the worker.                                                          *)
Fairness == /\ WF_vars(PrepareReady \/ PrepareFails)
            /\ WF_vars(PollReaps) /\ WF_vars(PollKills)
            /\ WF_vars(Process)

FairSpec == Spec /\ Fairness

-----------------------------------------------------------------------------
(* The type of the state.                                                  *)
TypeOK ==
  /\ status \in {"Stopped", "Starting", "Ready", "Fault"}
  /\ generation \in Generation /\ localGen \in Generation
  /\ sequence \in Sequence /\ inFlight \in Sequence
  /\ missed \in 0..MaxMissed
  /\ eligible \in BOOLEAN /\ ready \in BOOLEAN /\ wet \in BOOLEAN
  /\ dry \in Block \cup {Silence}
  /\ pc \in {"idle", "check", "answer", "emit", "fill", "publish"}
  /\ state \in {"starting", "ready", "fault"}
  /\ request \in Sequence /\ response \in Sequence
  /\ boxGen \in Generation /\ reqGen \in Generation /\ respGen \in Generation
  /\ input \in Block \cup {Silence} /\ output \in Block \cup {Silence}
  /\ wpc \in {"none", "starting", "top", "poll", "process", "dead"}
  /\ wgen \in Generation
  /\ completed \in Sequence
  /\ history \subseteq Generation

(* "Exactly one producer/consumer transaction may own the audio arrays at  *)
(* a time" (plugin_ipc.hpp): while the audio thread copies the output or   *)
(* writes a request, the worker does not touch the arrays, however late it *)
(* was and however often the request numbers have wrapped.                 *)
OneOwner ==
  (pc = "emit" /\ wet) \/ pc \in {"fill", "publish"} => wpc # "process"

(* "Exactly one block of latency": what process() puts out is silence or   *)
(* the block of the call before, processed or dry.  A late answer is never *)
(* played, whichever call finds it.                                        *)
OneBlockLatency == pc = "emit" => Heard = Silence \/ Heard.age = 1

(* Blocks are handed over one at a time, and in time.                      *)
HandsBlocksOver == OneOwner /\ OneBlockLatency

(* Nothing that came in before a reset is heard after it: not the block    *)
(* then in flight, nor the last dry one, nor anything in the memory of the *)
(* plugin, although the worker sees the reset at its own pace.             *)
ResetForgets == pc = "emit" => Heard = Silence \/ Heard.from = {localGen}

(* A worker that hangs or exits is noticed by the audio thread or by       *)
(* poll(), killed and reaped, and nobody ever waits for it.                *)
StuckWorkerReaped ==
  /\ request # response ~> request = response \/ wpc = "none"
  /\ wpc = "dead" ~> wpc # "dead"

=============================================================================
