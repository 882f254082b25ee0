-------------------------- MODULE BluetoothManager --------------------------
(***************************************************************************)
(* The worker thread of src/bluetooth/context.cpp and the requests of the  *)
(* web interface: pairing, scanning, dialling and hanging up, the paired   *)
(* devices and their file, the AVRCP sessions beside the audio links.      *)
(*                                                                         *)
(* A request is a word under `mutex` that the worker takes at the top of a *)
(* turn of its loop.  The worker answers it, services timers, may dial a   *)
(* device by itself, publishes what its links are, and handles the events  *)
(* poll() reports in the order of its code.  Requests see only what was    *)
(* published.  The inside of a link is module AvdtpLink; here it is one    *)
(* word, and the radio moves it.                                           *)
(***************************************************************************)
EXTENDS Naturals, FiniteSets

CONSTANTS
    Device,             \* Bluetooth addresses
    MaxLinks,           \* BT_MAX_LINKS
    MaxDevices,         \* BT_MAX_DEVICES
    Budget              \* bounds: [request, event], those of the user and of the radio

ASSUME ManagerAssumption ==
    /\ IsFiniteSet(Device) /\ MaxLinks \in Nat /\ MaxDevices \in Nat
    /\ Budget \in [{"request", "event"} -> Nat]

VARIABLES
    dev,                \* devices[]: what is remembered of each address
    linkOf,             \* links[] and the channel of each, of the worker alone
    session,            \* mediaSessions[]: the AVRCP channel of each device
    status,             \* linkStatus[]: links as published
    ask,                \* request, pairTarget, scanning, pairing, connectQueued
    adapter,            \* adapterReady
    place, job,         \* the worker: its place in the loop, the request it took
    agreed,             \* devices whose pairing AudioX let go on
    save,               \* savePaired(): where each thread is in it
    temp, stale,        \* devices whose line is out of date: in the copy a thread
                        \* writes, and in bluetooth_paired.txt
    unsaved,            \* history: a save failed since the last good one
    credit              \* what is left of Budget

deviceVars == <<dev, agreed>>
linkVars   == <<linkOf, session>>
fileVars   == <<temp, stale, unsaved>>
managerVars == <<dev, linkOf, session, status, ask, adapter, place, job, agreed, save,
                 temp, stale, unsaved, credit>>

Charge(kind) == credit[kind] > 0 /\ credit' = [credit EXCEPT ![kind] = @ - 1]

All  == "all"               \* requestDisconnect() without an address
Thread == {"worker", "user"}

Unlisted == [state |-> "none", auto |-> FALSE, held |-> FALSE, roles |-> {}]
NoJob    == [kind |-> "none", device |-> All]

Paired(d)  == dev[d].state = "paired"
Listed     == {d \in Device : dev[d].state # "none"}
Links      == {d \in Device : linkOf[d] # "none"}
Sessions   == {d \in Device : session[d] # "none"}
Dialling   == {"dialin", "dialout"}
Connecting == Dialling \cup {"starting"}
Outputs    == {"dialout", "starting", "output"}    \* wantOutput or outUp
Occupied   == ask.kind # "none" \/ ask.scanning \/ ask.pairing

\* What savePaired() writes of a device.
Entry(r) == IF r.state = "paired" THEN <<r.auto, r.roles>> ELSE <<>>

\* A device changes in memory: its line in the file, and in a copy that was
\* taken before, is out of date.
Remember(d, r) ==
    /\ dev' = [dev EXCEPT ![d] = r]
    /\ IF Entry(r) = Entry(dev[d]) THEN UNCHANGED <<temp, stale>>
       ELSE /\ stale' = stale \cup {d}
            /\ temp' = [t \in Thread |-> IF save[t] = "writing" THEN temp[t] \cup {d} ELSE {}]
    /\ UNCHANGED unsaved

ManagerInit ==
    /\ dev \in [Device -> {Unlisted} \cup       \* loadPaired()
                [state : {"paired"}, auto : {TRUE}, held : {FALSE}, roles : {{}, {"sink"}}]]
    /\ Cardinality(Listed) <= MaxDevices
    /\ linkOf = [d \in Device |-> "none"]
    /\ session = [d \in Device |-> "none"]
    /\ status = [d \in Device |-> "none"]
    /\ ask = [kind |-> "none", device |-> All, scanning |-> FALSE, pairing |-> FALSE,
              queued |-> FALSE]
    /\ adapter = FALSE /\ place = "top" /\ job = NoJob /\ agreed = {}
    /\ save = [t \in Thread |-> "no"] /\ temp = [t \in Thread |-> {}]
    /\ stale = {} /\ unsaved = FALSE
    /\ credit = Budget

-----------------------------------------------------------------------------
(* savePaired(): under pairedFileMutex, the devices are copied under       *)
(* `mutex` into a new file, which then replaces the old one.               *)

\* Mutant: the file is written without pairedFileMutex.
BeginSaveUnlocked(t) ==
    /\ save[t] = "wanted"
    /\ save' = [save EXCEPT ![t] = "writing"]
    /\ UNCHANGED <<deviceVars, linkVars, status, ask, adapter, place, job, fileVars>>

BeginSave(t) ==
    /\ save[t] = "wanted" /\ \A u \in Thread : save[u] # "writing"
    /\ save' = [save EXCEPT ![t] = "writing"]
    /\ UNCHANGED <<deviceVars, linkVars, status, ask, adapter, place, job, fileVars>>

EndSave(t) ==
    /\ save[t] = "writing"
    /\ save' = [save EXCEPT ![t] = "no"]
    /\ \/ stale' = temp[t] /\ unsaved' = FALSE
       \/ stale' = stale /\ unsaved' = TRUE         \* it failed
    /\ temp' = [temp EXCEPT ![t] = {}]
    /\ UNCHANGED <<deviceVars, linkVars, status, ask, adapter, place, job>>

Want(t) == save' = [save EXCEPT ![t] = "wanted"]

-----------------------------------------------------------------------------
(* Requests.  Each is one critical section; a busy worker refuses most.    *)

User == save["user"] = "no"         \* the thread is not inside requestAutoConnect()

Ask(kind, d) ==
    /\ ask' = [ask EXCEPT !.kind = kind, !.device = d,
                  !.scanning = @ \/ kind = "scan", !.pairing = @ \/ kind = "pair",
                  !.queued = @ \/ kind = "connect"]
    /\ UNCHANGED <<linkVars, status, adapter, place, job, agreed, save, fileVars>>

\* Scanning and pairing need a worker that carries no audio.
NoAudio == ~Occupied /\ ~ask.queued /\ \A d \in Device : status[d] = "none"

RequestScan == User /\ NoAudio /\ Ask("scan", ask.device) /\ UNCHANGED dev
RequestPair(d) == User /\ NoAudio /\ Ask("pair", d) /\ UNCHANGED dev

RequestConnect(d) ==
    /\ User /\ Paired(d) /\ ~Occupied /\ ~ask.queued
    /\ status[d] = "none" /\ \A e \in Device : status[e] # "connecting"
    /\ Cardinality({e \in Device : status[e] # "none"}) < MaxLinks
    /\ dev' = [dev EXCEPT ![d].held = FALSE]
    /\ Ask("connect", d)

RequestDisconnect(d) ==
    /\ User /\ ~Occupied
    /\ \E e \in Device : status[e] # "none" /\ d \in {e, All}
    /\ Ask("disconnect", d) /\ UNCHANGED dev

RequestUnpair(d) ==
    /\ User /\ Paired(d) /\ ~Occupied /\ ~ask.queued
    /\ Ask("unpair", d) /\ UNCHANGED dev

\* Not queued: the caller changes the device, and then saves it.
RequestAutoConnect(d, enabled) ==
    /\ User /\ Paired(d)
    /\ Remember(d, [dev[d] EXCEPT !.auto = enabled, !.held = @ /\ ~enabled])
    /\ Want("user")
    /\ UNCHANGED <<linkVars, status, ask, adapter, place, job, agreed>>

-----------------------------------------------------------------------------
(* A turn of threadMain().                                                 *)

AtWork == save["worker"] = "no"     \* the thread is not inside savePaired()

GoesTo(kind) == CASE kind \in {"scan", "pair"} -> kind
                  [] kind = "none" -> "timers"
                  [] OTHER -> "serve"

TakeRequest ==
    /\ AtWork /\ place = "top"
    /\ job' = [kind |-> ask.kind, device |-> ask.device]
    /\ ask' = [ask EXCEPT !.kind = "none", !.device = IF ask.pairing THEN @ ELSE All]
    /\ place' = IF adapter THEN GoesTo(ask.kind) ELSE "adapter"
    /\ UNCHANGED <<deviceVars, linkVars, status, adapter, save, fileVars>>

\* bringUpAdapter() is tried for a request, and from time to time.
BringUp ==
    /\ AtWork /\ place = "adapter"
    /\ \/ adapter' = TRUE
       \/ job.kind = "none" /\ UNCHANGED adapter
    /\ place' = GoesTo(job.kind)
    /\ UNCHANGED <<deviceVars, linkVars, status, ask, job, save, fileVars>>

BringUpFails ==
    /\ AtWork /\ place = "adapter"
    /\ ask' = [ask EXCEPT !.scanning = FALSE, !.pairing = FALSE]
    /\ job' = NoJob /\ place' = "timers"
    /\ UNCHANGED <<deviceVars, linkVars, status, adapter, save, fileVars>>

\* runScan(): paired devices stay listed, the others must answer.
RunScan(found) ==
    /\ AtWork /\ place = "scan"
    /\ LET paired == {d \in Device : Paired(d)}
       IN \E new \in SUBSET (found \ paired) :
            /\ Cardinality(paired \cup new) <= MaxDevices
            /\ new = found \ paired \/ Cardinality(paired \cup new) = MaxDevices
            /\ dev' = [d \in Device |-> IF d \in paired THEN dev[d]
                                        ELSE IF d \notin new THEN Unlisted
                                        ELSE [Unlisted EXCEPT !.state = "found"]]
    /\ ask' = [ask EXCEPT !.scanning = FALSE]
    /\ place' = "timers"
    /\ UNCHANGED <<linkVars, status, adapter, job, agreed, save, fileVars>>

\* runPair() waits for the kernel to authenticate, and answers the controller
\* meanwhile; a key, a refusal or a timeout ends it.
PairEnds ==
    /\ AtWork /\ place = "pair"
    /\ ask' = [ask EXCEPT !.pairing = FALSE]
    /\ place' = "timers"
    /\ UNCHANGED <<deviceVars, linkVars, status, adapter, job, save, fileVars>>

\* beginConnect(): for the roles the device has; both when none is known.
Dial(d) ==
    /\ Paired(d) /\ linkOf[d] = "none" /\ Cardinality(Links) < MaxLinks
    /\ linkOf' = [linkOf EXCEPT ![d] = IF dev[d].roles = {"source"} THEN "dialin" ELSE "dialout"]

ServeConnect ==
    /\ AtWork /\ place = "serve" /\ job.kind = "connect"
    /\ Dial(job.device) \/ UNCHANGED linkOf
    /\ place' = "timers"
    /\ UNCHANGED <<deviceVars, session, status, ask, adapter, job, save, fileVars>>

Dropped(S) == [d \in Device |-> IF d \in S THEN "none" ELSE session[d]]

\* The links of the target are closed, and their devices held.
ServeDisconnect ==
    /\ AtWork /\ place = "serve" /\ job.kind = "disconnect"
    /\ LET S == IF job.device = All THEN Device ELSE {job.device}
       IN /\ session' = Dropped(S)
          /\ linkOf' = [d \in Device |-> IF d \in S THEN "none" ELSE linkOf[d]]
          /\ dev' = [d \in Device |-> IF d \in S /\ linkOf[d] # "none" /\ dev[d].state # "none"
                                      THEN [dev[d] EXCEPT !.held = TRUE] ELSE dev[d]]
    /\ place' = "timers"
    /\ UNCHANGED <<status, ask, adapter, job, agreed, save, fileVars>>

ServeUnpair ==
    /\ AtWork /\ place = "serve" /\ job.kind = "unpair"
    /\ LET d == job.device
       IN /\ session' = Dropped({d})
          /\ linkOf' = [linkOf EXCEPT ![d] = "none"]
          /\ Remember(d, [dev[d] EXCEPT !.state = IF @ = "paired" THEN "found" ELSE @,
                                         !.held = \/ @
                                                  \/ linkOf[d] # "none" /\ dev[d].state # "none"])
    /\ Want("worker")
    /\ place' = "timers"
    /\ UNCHANGED <<status, ask, adapter, job, agreed>>

\* runAutoConnect(): one page at a time, and none while an input may play.
AutoConnect(d) ==
    /\ AtWork /\ place = "timers" /\ job.kind = "none" /\ adapter
    /\ \A e \in Device : linkOf[e] \notin Connecting \cup {"input"}
    /\ ~ask.scanning /\ ~ask.pairing
    /\ dev[d].auto /\ ~dev[d].held
    /\ Dial(d)
    /\ UNCHANGED place
    /\ UNCHANGED <<deviceVars, session, status, ask, adapter, job, save, fileVars>>

\* publishLinkStatus(); after a scan or a pairing the turn ends here.
Publish ==
    /\ AtWork /\ place = "timers"
    /\ status' = [d \in Device |-> IF linkOf[d] = "none" THEN "none"
                                   ELSE IF linkOf[d] \in Connecting THEN "connecting" ELSE "used"]
    /\ ask' = [ask EXCEPT !.queued = @ /\ ask.kind = "connect"]
    /\ place' = IF job.kind \in {"scan", "pair"} THEN "top" ELSE "poll"
    /\ job' = NoJob
    /\ UNCHANGED <<deviceVars, linkVars, adapter, save, fileVars>>

\* The events poll() reports; the order of the code among them is left open.
Poll == AtWork /\ adapter /\ place = "poll" /\ UNCHANGED place

EndTurn ==
    /\ AtWork /\ place = "poll" /\ place' = "top"
    /\ UNCHANGED <<deviceVars, linkVars, status, ask, adapter, job, save, fileVars>>

-----------------------------------------------------------------------------
(* The controller's events (handleAgentEvent), also during runPair().      *)

AgentStep ==
    /\ AtWork /\ adapter /\ place \in {"pair", "poll"}
    /\ UNCHANGED place

PairingAllowed(d) == (ask.pairing /\ ask.device = d) \/ Paired(d)

\* An IO capability or PIN request: the pairing goes on, or is rejected.
PairingRequested(d) ==
    /\ AgentStep
    /\ agreed' = IF PairingAllowed(d) THEN agreed \cup {d} ELSE agreed \ {d}
    /\ UNCHANGED <<dev, linkVars, status, ask, adapter, job, save, fileVars>>

\* LINK_KEY_NOTIFY: the device is paired from now on, if there is room for it.
LinkKey(d) ==
    /\ AgentStep /\ d \in agreed
    /\ agreed' = agreed \ {d}
    /\ \E phone \in SUBSET {"source"} :
        Remember(d, IF dev[d].state = "none" /\ Cardinality(Listed) >= MaxDevices THEN dev[d]
                    ELSE [dev[d] EXCEPT !.state = "paired", !.auto = @ \/ ~Paired(d),
                                        !.roles = @ \cup phone])
    /\ Want("worker")
    /\ UNCHANGED <<linkVars, status, ask, adapter, job>>

\* setDeviceRoles(): what is learnt of a paired device is saved.
SetRoles(d, roles) ==
    IF dev[d].state = "none" \/ dev[d].roles = roles THEN UNCHANGED <<dev, save, fileVars>>
    ELSE /\ Remember(d, [dev[d] EXCEPT !.roles = roles])
         /\ IF Paired(d) THEN Want("worker") ELSE UNCHANGED save

\* A phone calls: CONN_REQUEST carries its class.
PhoneCalls(d) ==
    /\ AgentStep
    /\ SetRoles(d, dev[d].roles \cup {"source"})
    /\ UNCHANGED <<agreed, linkVars, status, ask, adapter, job>>

-----------------------------------------------------------------------------
(* AVRCP sessions: of paired devices, MaxLinks at most.                    *)

\* connectMediaChannel(): as a link comes up.
SessionDialled(d, linked) ==
    session' = IF session[d] = "none" /\ Paired(d) /\ Cardinality(Sessions) < MaxLinks /\ linked
               THEN [session EXCEPT ![d] = "dialling"] ELSE session

SessionAccepted(d) ==
    /\ Poll
    /\ Paired(d)
    /\ session[d] = "dialling" \/ (session[d] = "none" /\ Cardinality(Sessions) < MaxLinks)
    /\ session' = [session EXCEPT ![d] = "up"]
    /\ UNCHANGED <<deviceVars, linkOf, status, ask, adapter, job, save, fileVars>>

\* Connected, refused, broken or timed out.
SessionPolled(d) ==
    /\ Poll
    /\ session[d] # "none"
    /\ \E s \in {"none", "up"} : session' = [session EXCEPT ![d] = s]
    /\ UNCHANGED <<deviceVars, linkOf, status, ask, adapter, job, save, fileVars>>

-----------------------------------------------------------------------------
(* The audio links.                                                        *)

\* closeLink(), for another reason than a request.
LinkCloses(d, hold) ==
    /\ linkOf[d] # "none"
    /\ linkOf' = [linkOf EXCEPT ![d] = "none"]
    /\ session' = Dropped({d})
    /\ dev' = [dev EXCEPT ![d].held = \/ @
                                      \/ hold /\ linkOf[d] \notin Outputs /\ dev[d].state # "none"]

LinkTimesOut(d) ==
    /\ AtWork /\ place = "timers" /\ UNCHANGED place
    /\ job.kind \notin {"scan", "pair"}
    /\ LinkCloses(d, FALSE)
    /\ UNCHANGED <<status, ask, adapter, job, agreed, save, fileVars>>

\* The channel breaks, or the device hangs up: deliberate, unless it is dialled.
LinkLost(d, deliberate) ==
    /\ Poll
    /\ deliberate => linkOf[d] \notin Dialling
    /\ LinkCloses(d, deliberate)
    /\ UNCHANGED <<status, ask, adapter, job, agreed, save, fileVars>>

\* noteOutputChannelResult(): refused for the second time, it is an input.
DialRefused(d) ==
    /\ Poll
    /\ linkOf[d] = "dialout" /\ dev[d].roles = {}
    /\ linkOf' = [linkOf EXCEPT ![d] = "none"] /\ session' = Dropped({d})
    /\ SetRoles(d, {"source"})
    /\ UNCHANGED <<status, ask, adapter, job, agreed>>

DialAnswered(d) ==
    /\ Poll
    /\ linkOf[d] \in Dialling
    /\ linkOf' = [linkOf EXCEPT ![d] = IF @ = "dialin" THEN "input" ELSE "starting"]
    /\ SessionDialled(d, TRUE)
    /\ UNCHANGED <<deviceVars, status, ask, adapter, job, save, fileVars>>

\* Discovery, an output that starts or ends beside an input, an input that is
\* configured: each may teach AudioX the device's roles.
LinkChanges(d) ==
    /\ Poll
    /\ linkOf[d] \in {"starting", "output", "input"}
    /\ \E l \in {"starting", "output", "input"} \ {linkOf[d]} :
         /\ l = "output" => linkOf[d] = "starting"
         /\ linkOf[d] = "output" => l = "input"
         /\ linkOf' = [linkOf EXCEPT ![d] = l]
         /\ SetRoles(d, CASE l = "output" -> dev[d].roles \cup {"sink"}
                          [] l = "input"  -> IF linkOf[d] = "starting" THEN {"source"}
                                             ELSE dev[d].roles \cup {"source"}
                          [] OTHER        -> dev[d].roles \cup {"sink"})
    /\ UNCHANGED <<session, status, ask, adapter, job, agreed>>

\* acceptA2dpChannel(): a device that calls in is held no longer.
Accept(d) ==
    /\ Poll
    /\ IF linkOf[d] = "none" THEN Cardinality(Links) < MaxLinks ELSE linkOf[d] \in Dialling
    /\ linkOf' = [linkOf EXCEPT ![d] = IF @ = "dialout" \/ (@ = "none" /\ "sink" \in dev[d].roles)
                                   THEN "starting" ELSE "input"]
    /\ dev' = [dev EXCEPT ![d].held = @ /\ linkOf[d] # "none"]
    /\ SessionDialled(d, TRUE)
    /\ UNCHANGED <<status, ask, adapter, job, agreed, save, fileVars>>

-----------------------------------------------------------------------------
UserStep ==
    /\ Charge("request")
    /\ \/ RequestScan
       \/ \E d \in Device : \/ RequestPair(d) \/ RequestConnect(d) \/ RequestUnpair(d)
                            \/ \E enabled \in BOOLEAN : RequestAutoConnect(d, enabled)
       \/ \E d \in Device \cup {All} : RequestDisconnect(d)

Turn ==
    /\ UNCHANGED credit
    /\ \/ TakeRequest \/ BringUp \/ BringUpFails \/ PairEnds
       \/ \E found \in SUBSET Device : RunScan(found)
       \/ ServeConnect \/ ServeDisconnect \/ ServeUnpair
       \/ Publish \/ EndTurn

Save(t) == UNCHANGED credit /\ (BeginSave(t) \/ EndSave(t))

Radio ==
    /\ Charge("event")
    /\ \E d \in Device :
        \/ AutoConnect(d) \/ PairingRequested(d) \/ LinkKey(d) \/ PhoneCalls(d)
        \/ SessionAccepted(d) \/ SessionPolled(d)
        \/ LinkTimesOut(d) \/ DialRefused(d) \/ DialAnswered(d) \/ LinkChanges(d) \/ Accept(d)
        \/ \E deliberate \in BOOLEAN : LinkLost(d, deliberate)

ManagerNext == UserStep \/ Turn \/ Radio \/ \E t \in Thread : Save(t)

ManagerSpec == ManagerInit /\ [][ManagerNext]_managerVars

-----------------------------------------------------------------------------
(* Properties.                                                             *)

DeviceType == [state : {"none", "found", "paired"}, auto : BOOLEAN, held : BOOLEAN,
               roles : SUBSET {"source", "sink"}]

ManagerTyped ==
    /\ dev \in [Device -> DeviceType] /\ stale \subseteq Device
    /\ temp \in [Thread -> SUBSET Device]
    /\ linkOf \in [Device -> Connecting \cup {"none", "output", "input"}]
    /\ session \in [Device -> {"none", "dialling", "up"}]
    /\ status \in [Device -> {"none", "connecting", "used"}]
    /\ save \in [Thread -> {"no", "wanted", "writing"}]
    /\ Cardinality(Links) <= MaxLinks /\ Cardinality(Listed) <= MaxDevices

\* When no thread is about to save, and the last save was not a failure, the
\* file holds what is remembered, whatever pairings, forgotten devices, learnt
\* roles and changes of auto-connect crossed on two threads (savePaired() and
\* its callers).
FileFollowsMemory ==
    (\A t \in Thread : save[t] = "no") /\ ~unsaved => stale = {}

\* Only a paired device has an AVRCP session, whose keys run the user's scripts:
\* also one that is forgotten while its session is up or being dialled, with or
\* without an audio link (acceptMediaChannel, BT_REQUEST_UNPAIR).
SessionsArePaired == \A d \in Device : session[d] # "none" => Paired(d)

\* The web interface is never left waiting: while it shows a scan or a pairing,
\* the request is still queued or the worker is about to end it, also when there
\* is no adapter (threadMain() and bringUpAdapter()).
BusyIsOwed ==
    /\ ask.scanning => ask.kind = "scan" \/ (job.kind = "scan" /\ place \in {"adapter", "scan"})
    /\ ask.pairing  => ask.kind = "pair" \/ (job.kind = "pair" /\ place \in {"adapter", "pair"})
    /\ ask.kind = "connect" => ask.queued

\* bluetooth_paired.txt follows the devices in memory, media sessions belong to
\* paired devices, and what the interface shows as busy has work that ends it:
\* the three together are what the worker and the web thread agree on.
DevicesAgree == FileFollowsMemory /\ SessionsArePaired /\ BusyIsOwed
=============================================================================
