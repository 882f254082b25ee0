------------------------------ MODULE AvdtpLink ------------------------------
(***************************************************************************)
(* One link of src/bluetooth/context.cpp: the AVDTP signalling channel to  *)
(* a device and the two streams it carries, the input (device -> AudioX)   *)
(* and the output (AudioX -> device), with the audio slots the link owns.  *)
(*                                                                         *)
(* Every handler runs on the Bluetooth worker and is one action; the       *)
(* device, the radio and the audio thread are the environment.  A handler  *)
(* is an operator from a link to the SET of links it may leave behind: a   *)
(* send or a connect has several outcomes.                                 *)
(*                                                                         *)
(* The device is arbitrary: it answers or not, accepts or rejects, and     *)
(* sends any command at any time.  Clock comparisons are choices: a        *)
(* deadline that is set may have passed, or not yet.                       *)
(***************************************************************************)
EXTENDS Naturals, Sequences, FiniteSets

CONSTANT MaxWire        \* bound: messages queued in each direction

VARIABLES
    link,               \* BluetoothLink, its channels, and its audio slots
    sound               \* BluetoothOutputStream.signalActive, of the audio thread

avdtpVars == <<link, sound>>

None == "none"
Signal == {"discover", "getcaps", "setconf", "open", "start", "suspend"}
Endpoint == {"sink", "source"}      \* AudioX's SEIDs 1 and 2

Command == [signal : Signal, live : BOOLEAN]
Answer  == [kind : {"answer"}, signal : Signal, live : BOOLEAN,
            ok : BOOLEAN, ends : SUBSET Endpoint]
Request == [kind : {"setconf", "reconfigure", "open", "start", "suspend", "close", "abort"},
            ends : SUBSET Endpoint \ {{}}]

\* resetLink(): "used" is FALSE, no descriptor is open, nothing is wanted.
Unused ==
    [used |-> FALSE, sig |-> None, connecting |-> FALSE, deadline |-> FALSE,
     wantOut |-> FALSE, wantIn |-> FALSE, discovered |-> FALSE, remote |-> {},
     pend |-> None, pendIn |-> FALSE, unsent |-> FALSE,
     inConf |-> FALSE, inOpen |-> FALSE, inStream |-> FALSE, inRemote |-> FALSE,
     inMedia |-> None,
     outStarting |-> FALSE, outConf |-> FALSE, outOpen |-> FALSE, outUp |-> FALSE,
     outStream |-> FALSE, outMedia |-> None, suspReq |-> FALSE, startReq |-> FALSE,
     suspOk |-> TRUE, packet |-> FALSE,
     inPeer |-> FALSE, outPeer |-> FALSE, outActive |-> FALSE,
     toDev |-> <<>>, fromDev |-> <<>>]

LinkType ==
    [used : BOOLEAN, sig : {None, "dialing", "up"}, connecting : BOOLEAN,
     deadline : BOOLEAN, wantOut : BOOLEAN, wantIn : BOOLEAN,
     discovered : BOOLEAN, remote : SUBSET Endpoint,
     pend : Signal \cup {None}, pendIn : BOOLEAN, unsent : BOOLEAN,
     inConf : BOOLEAN, inOpen : BOOLEAN, inStream : BOOLEAN, inRemote : BOOLEAN,
     inMedia : {None, "dialing", "up"},
     outStarting : BOOLEAN, outConf : BOOLEAN, outOpen : BOOLEAN, outUp : BOOLEAN,
     outStream : BOOLEAN, outMedia : {None, "dialing", "up"},
     suspReq : BOOLEAN, startReq : BOOLEAN, suspOk : BOOLEAN, packet : BOOLEAN,
     inPeer : BOOLEAN, outPeer : BOOLEAN, outActive : BOOLEAN,
     toDev : Seq(Command), fromDev : Seq(Answer \cup Request)]

LinkTyped == link \in LinkType /\ sound \in BOOLEAN

LinkInit == link = Unused /\ sound = FALSE

-----------------------------------------------------------------------------
(* Closing.                                                                *)

\* The transaction number of a command AudioX gives up is not used again
\* while its answer may still arrive: the answer is not taken for another.
GiveUp(q) == [i \in DOMAIN q |-> [q[i] EXCEPT !.live = FALSE]]
GiveUpAnswers(q) ==
    [i \in DOMAIN q |-> IF q[i].kind = "answer" THEN [q[i] EXCEPT !.live = FALSE] ELSE q[i]]

DropCommand(s, input) ==
    IF s.pend = None \/ s.pendIn # input THEN s
    ELSE [s EXCEPT !.pend = None, !.unsent = FALSE,
                   !.toDev = GiveUp(@), !.fromDev = GiveUpAnswers(@)]

\* closeLink(): both slots are released with the link.
CloseLink(s) == Unused

CloseInput(s) ==
    [DropCommand(s, TRUE) EXCEPT
        !.inConf = FALSE, !.inOpen = FALSE, !.inStream = FALSE,
        !.inRemote = FALSE, !.inMedia = None, !.wantIn = FALSE, !.inPeer = FALSE]

LinkIdle(s) == ~s.wantOut /\ ~s.outUp /\ ~s.wantIn /\ ~s.inConf

\* closeInputStream() followed by the linkIdle() test of its callers.
EndInput(s) == LET t == CloseInput(s) IN IF LinkIdle(t) THEN CloseLink(t) ELSE t

\* closeOutputStream(): a link without an input goes with its output.
CloseOutput(s) ==
    IF ~s.wantIn /\ ~s.inConf THEN CloseLink(s)
    ELSE [DropCommand(s, FALSE) EXCEPT
            !.outStarting = FALSE, !.outConf = FALSE, !.outOpen = FALSE,
            !.outUp = FALSE, !.outStream = FALSE, !.outMedia = None,
            !.suspReq = FALSE, !.startReq = FALSE, !.packet = FALSE,
            !.wantOut = FALSE, !.connecting = FALSE, !.deadline = FALSE,
            !.outActive = FALSE, !.outPeer = FALSE]

-----------------------------------------------------------------------------
(* Commands AudioX sends: one outstanding at a time.                       *)

Busy(s) == s.pend # None \/ s.unsent

Transmit(s, signal) ==
    [s EXCEPT !.toDev = Append(@, [signal |-> signal, live |-> TRUE])]

\* sendCommand(): sent, kept for POLLOUT (EAGAIN), or the channel is broken.
SendCommand(s, signal, input) ==
    IF s.sig # "up" \/ Busy(s) THEN {s}
    ELSE LET t == [s EXCEPT !.pend = signal, !.pendIn = input]
         IN (IF Len(s.toDev) < MaxWire THEN {Transmit(t, signal)} ELSE {})
            \cup {[t EXCEPT !.unsent = TRUE], CloseLink(s)}

FlushCommand(s) ==
    (IF Len(s.toDev) < MaxWire
     THEN {Transmit([s EXCEPT !.unsent = FALSE], s.pend)} ELSE {})
    \cup {CloseLink(s)}

\* driveLink(): the next step AudioX still has to take on this link.  The
\* waits for discoverAtMs and inInitiateAtMs may be over or not.
DriveLink(s) ==
    IF ~s.used \/ s.sig # "up" \/ Busy(s) THEN {s}
    ELSE IF ~s.discovered
    THEN IF ~s.wantOut /\ (s.inRemote \/ s.inConf) THEN {s}
         ELSE {s} \cup SendCommand(s, "discover", FALSE)
    ELSE IF s.wantOut /\ ~s.outUp
    THEN IF ~s.outStarting /\ "sink" \in s.remote
         THEN SendCommand([s EXCEPT !.outStarting = TRUE], "getcaps", FALSE)
         ELSE {s}
    ELSE IF s.wantIn /\ "source" \in s.remote /\ ~s.inConf /\ ~s.inRemote
    THEN {s} \cup SendCommand(s, "getcaps", TRUE)
    ELSE {s}

Drive(S) == UNION {DriveLink(s) : s \in S}

-----------------------------------------------------------------------------
(* Answers of the device to the outstanding command.                       *)

\* handleSignalingConnected(), once the channel is up.
Connected(s) ==
    DriveLink(IF ~s.wantOut THEN [s EXCEPT !.connecting = FALSE, !.deadline = FALSE] ELSE s)

\* Mutant: an output found on a device that called in is not timed.
DiscoveredUntimed(s, ends) ==
    LET out == "sink" \in ends
        in  == "source" \in ends \/ s.inConf
        t == [s EXCEPT !.discovered = TRUE, !.remote = ends, !.wantOut = out, !.wantIn = in]
    IN IF ~out /\ ~in THEN CloseLink(t)
       ELSE IF ~out /\ s.connecting
            THEN [t EXCEPT !.connecting = FALSE, !.deadline = FALSE]
       ELSE t

\* handleDiscoverResponse(): the endpoints found decide what the link is for.
Discovered(s, ends) ==
    LET out == "sink" \in ends
        in  == "source" \in ends \/ s.inConf
        t == [s EXCEPT !.discovered = TRUE, !.remote = ends, !.wantOut = out, !.wantIn = in]
    IN IF ~out /\ ~in THEN CloseLink(t)
       ELSE IF out /\ ~s.connecting /\ ~s.outUp
            THEN [t EXCEPT !.connecting = TRUE, !.deadline = TRUE]
       ELSE IF ~out /\ s.connecting
            THEN [t EXCEPT !.connecting = FALSE, !.deadline = FALSE]
       ELSE t

\* connectMedia(), and handleMediaConnected() when it connects at once: the
\* output is started, unless its MTU cannot be read.
MediaUp(s, input) ==
    IF input THEN {[s EXCEPT !.inMedia = "up"]}
    ELSE SendCommand([s EXCEPT !.outMedia = "up"], "start", FALSE)
         \cup {CloseOutput([s EXCEPT !.outMedia = "up"])}

ConnectMedia(s, input) ==
    IF (IF input THEN s.inMedia ELSE s.outMedia) # None THEN {s}
    ELSE MediaUp(s, input)
         \cup (IF input THEN {[s EXCEPT !.inMedia = "dialing"], EndInput(s)}
                        ELSE {[s EXCEPT !.outMedia = "dialing"], CloseOutput(s)})

\* The stream starts, or resumes: outUp is set once, and releases the slot.
OutputStarted(s) ==
    LET t == [s EXCEPT !.outStream = TRUE, !.startReq = FALSE, !.suspReq = FALSE,
                       !.outActive = TRUE]
    IN IF s.outUp THEN t
       ELSE [t EXCEPT !.outUp = TRUE, !.connecting = FALSE, !.deadline = FALSE,
                      !.outPeer = TRUE]

\* Mutant: the request stays marked as outstanding.
OutputSuspendedOnly(s) ==
    [s EXCEPT !.outStream = FALSE, !.suspOk = TRUE, !.startReq = FALSE, !.outActive = FALSE]

\* The device has accepted AudioX's SUSPEND.
OutputSuspended(s) ==
    [s EXCEPT !.outStream = FALSE, !.suspReq = FALSE, !.suspOk = TRUE,
              !.startReq = FALSE, !.outActive = FALSE]

\* handleOutputResponse(): a rejected SUSPEND is remembered, any other
\* rejection ends the output.
OutputAnswered(s, m) ==
    IF ~m.ok
    THEN IF m.signal = "suspend" THEN {[s EXCEPT !.suspOk = FALSE, !.suspReq = FALSE]}
         ELSE {CloseOutput(s)}
    ELSE CASE m.signal = "getcaps" -> SendCommand(s, "setconf", FALSE) \cup {CloseOutput(s)}
           [] m.signal = "setconf" -> SendCommand([s EXCEPT !.outConf = TRUE], "open", FALSE)
           [] m.signal = "open"    -> ConnectMedia([s EXCEPT !.outOpen = TRUE], FALSE)
           [] m.signal = "start"   -> {OutputStarted(s)}
           [] m.signal = "suspend" -> {OutputSuspended(s)}
           [] OTHER -> {s}

\* handleInputResponse(): nothing is undone that the device configured itself.
InputAnswered(s, m) ==
    IF ~m.ok THEN {IF s.inRemote THEN s ELSE EndInput(s)}
    ELSE CASE m.signal = "getcaps" ->
                IF s.inRemote \/ s.inConf THEN {s}
                ELSE SendCommand(s, "setconf", TRUE) \cup {EndInput(s)}
           [] m.signal = "setconf" ->
                IF s.inRemote THEN {s} ELSE SendCommand([s EXCEPT !.inConf = TRUE], "open", TRUE)
           [] m.signal = "open" -> ConnectMedia([s EXCEPT !.inOpen = TRUE], TRUE)
           [] OTHER -> {s}

\* handleResponse(), for an answer that carries the outstanding transaction.
LinkAnswered(s, m) ==
    LET t == [s EXCEPT !.pend = None, !.unsent = FALSE]
    IN IF m.signal = "discover"
       THEN DriveLink(IF m.ok THEN Discovered(t, m.ends) ELSE CloseLink(t))
       ELSE Drive(IF s.pendIn THEN InputAnswered(t, m) ELSE OutputAnswered(t, m))

-----------------------------------------------------------------------------
(* Commands of the device (handleAvdtpCommand).                            *)

\* SET_CONFIGURATION, or RECONFIGURE of a stream that does not play.
Configure(s) ==
    LET t == [s EXCEPT !.inConf = TRUE, !.inRemote = TRUE, !.wantIn = TRUE]
    IN IF s.wantOut THEN t ELSE [t EXCEPT !.connecting = FALSE, !.deadline = FALSE]

\* START and SUSPEND name several endpoints, and are checked as a whole.
Startable(s, ends) ==
    /\ "source" \in ends => s.outConf /\ s.outOpen
    /\ "sink" \in ends => s.inOpen

StartInput(s) == [s EXCEPT !.inStream = TRUE, !.inPeer = TRUE]

StartStreams(s, ends) ==
    LET t == IF "source" \in ends
             THEN [s EXCEPT !.startReq = FALSE, !.outStream = TRUE, !.outActive = TRUE] ELSE s
    IN IF "sink" \in ends THEN StartInput(t) ELSE t

SuspendStreams(s, ends) ==
    LET t == IF "source" \in ends
             THEN [s EXCEPT !.outStream = FALSE, !.suspReq = FALSE, !.startReq = FALSE,
                            !.outActive = FALSE] ELSE s
    IN IF "sink" \in ends THEN [t EXCEPT !.inStream = FALSE, !.inPeer = FALSE] ELSE t

Commanded(s, m) ==
    CASE m.kind = "setconf" -> IF s.inConf THEN s ELSE Configure(s)
      [] m.kind = "reconfigure" -> IF ~s.inOpen \/ s.inStream THEN s ELSE Configure(s)
      [] m.kind = "open" -> IF ~s.inConf THEN s ELSE [s EXCEPT !.inOpen = TRUE]
      [] m.kind = "start" -> IF Startable(s, m.ends) THEN StartStreams(s, m.ends) ELSE s
      [] m.kind = "suspend" -> IF Startable(s, m.ends) THEN SuspendStreams(s, m.ends) ELSE s
      [] OTHER -> IF "source" \in m.ends THEN IF s.outConf THEN CloseOutput(s) ELSE s
                  ELSE IF m.kind = "close" /\ ~s.inConf THEN s
                  ELSE CloseInput(s)

-----------------------------------------------------------------------------
(* Playing.                                                                *)

\* flushOutputPacket(): sent, not yet (EAGAIN), or the stream is broken.
FlushPacket(s) == {[s EXCEPT !.packet = FALSE], s, CloseOutput(s)}

\* The part of pumpOutputAudio() after the stream is known to be wanted: it
\* resumes a suspended stream once PCM is queued, or encodes one packet.  The
\* stream is given up when its queue overruns, or its frames do not fit.
PumpPacket(s, queued) ==
    IF s.packet \/ s.outMedia = None \/ s.suspReq \/ (s.pend # None /\ ~s.pendIn) THEN {s}
    ELSE IF ~queued THEN {s}
    ELSE {CloseOutput(s)}
         \cup (IF s.outStream THEN FlushPacket([s EXCEPT !.packet = TRUE])
               ELSE IF Busy(s) THEN {s}
               ELSE {[t EXCEPT !.startReq = t.pend = "start"] : t \in SendCommand(s, "start", FALSE)})

\* pumpOutputAudio(): silence for long enough suspends the stream, sound
\* resumes it.
Pump(s, audible, queued) ==
    IF ~s.outUp THEN {s}
    ELSE IF s.outStream
    THEN PumpPacket(s, queued)
         \cup (IF ~audible /\ s.suspOk /\ ~s.suspReq /\ ~Busy(s) /\ ~s.packet
               THEN {[t EXCEPT !.suspReq = t.pend = "suspend"] : t \in SendCommand(s, "suspend", FALSE)}
               ELSE {})
    ELSE IF ~audible THEN {[s EXCEPT !.outActive = FALSE]}
    ELSE IF (s.pend # None /\ ~s.pendIn) \/ s.startReq THEN {s}
    ELSE PumpPacket([s EXCEPT !.outActive = TRUE], queued)

-----------------------------------------------------------------------------
(* The worker's actions.                                                   *)

LinkBecomes(S) == link' \in S /\ UNCHANGED sound

\* acceptA2dpChannel(): a device calls in.  A first channel makes a link, of
\* a kind its known roles decide; a channel that crosses AudioX's own call
\* replaces it; a second one carries the input's media.
AcceptSignaling(ends) ==
    /\ ~link.used
    /\ LET speaker == ends = {"sink"}
           out == "sink" \in ends
       IN LinkBecomes(DriveLink([Unused EXCEPT !.used = TRUE, !.sig = "up",
                                !.wantOut = out, !.wantIn = ~speaker,
                                !.connecting = out, !.deadline = out]))

AcceptCrossed ==
    /\ link.sig = "dialing"
    /\ LinkBecomes(Connected([link EXCEPT !.sig = "up"]))

AcceptMedia ==
    /\ link.sig = "up" /\ link.inOpen /\ link.inMedia = None
    /\ LinkBecomes({[link EXCEPT !.inMedia = "up"]})

\* beginConnect(): AudioX calls a paired device, for the roles it is known
\* to have; both when none is known.
BeginConnect(ends) ==
    /\ ~link.used
    /\ LET t == [Unused EXCEPT !.used = TRUE, !.sig = "dialing",
                               !.connecting = TRUE, !.deadline = TRUE,
                               !.wantOut = ends # {"source"}, !.wantIn = "source" \in ends]
       IN LinkBecomes({t} \cup Connected([t EXCEPT !.sig = "up"]))

\* handleSignalingConnected(): the call is answered, or fails.
SignalingConnected ==
    /\ link.sig = "dialing"
    /\ LinkBecomes({CloseLink(link)} \cup Connected([link EXCEPT !.sig = "up"]))

\* handleSignalingReadable(): an answer counts only for the outstanding command.
SignalingReadable ==
    /\ link.sig = "up" /\ link.fromDev # <<>>
    /\ LET m == Head(link.fromDev)
           s == [link EXCEPT !.fromDev = Tail(@)]
       IN LinkBecomes(IF m.kind # "answer" THEN {Commanded(s, m)}
                 ELSE IF m.live /\ m.signal = s.pend THEN LinkAnswered(s, m)
                 ELSE {s})

\* The device, or the user (BT_REQUEST_DISCONNECT), ends the connection.
HangUp == link.used /\ LinkBecomes({CloseLink(link)})

\* flushCommand(), when the channel can be written again.
CommandWritable == link.unsent /\ LinkBecomes(FlushCommand(link))

\* serviceLinkTimers(): the connection, or an answer, takes too long.
ConnectTimeout ==
    /\ link.used /\ link.connecting /\ link.deadline
    /\ LinkBecomes({CloseLink(link)})
AnswerTimeout ==
    /\ link.used /\ link.pend # None /\ link.sig = "up"
    /\ LinkBecomes({CloseLink(link)})
\* ... or nothing is late, and the next step is taken.
Service == LinkBecomes(DriveLink(link))

InMediaPolled ==
    /\ link.inMedia = "dialing"
    /\ LinkBecomes({EndInput(link)} \cup MediaUp(link, TRUE))

OutMediaPolled ==
    /\ link.outMedia = "dialing"
    /\ LinkBecomes({CloseOutput(link)} \cup MediaUp(link, FALSE))

\* readInputMedia(): media before START starts the stream; the channel ends.
InputMedia ==
    /\ link.inMedia = "up"
    /\ LinkBecomes({EndInput(link), IF link.inOpen /\ ~link.inStream THEN StartInput(link) ELSE link})

\* The output's media channel can be written (POLLOUT), or is gone (POLLHUP).
OutMediaWritable == link.outMedia = "up" /\ link.packet /\ LinkBecomes(FlushPacket(link))
OutMediaClosed == link.outMedia = "up" /\ ~link.packet /\ LinkBecomes({CloseOutput(link)})

PumpOutput(queued) == LinkBecomes(Pump(link, sound, queued))

-----------------------------------------------------------------------------
(* The device and the audio thread.                                        *)

DeviceAnswers ==
    /\ link.toDev # <<>> /\ Len(link.fromDev) < MaxWire
    /\ \E ok \in BOOLEAN, ends \in SUBSET Endpoint :
         LET c == Head(link.toDev)
         IN /\ ends # {} => c.signal = "discover"
            /\ link' = [link EXCEPT !.toDev = Tail(@),
                   !.fromDev = Append(@, [kind |-> "answer", signal |-> c.signal,
                                          live |-> c.live, ok |-> ok, ends |-> ends])]
    /\ UNCHANGED sound

DeviceCommands ==
    /\ link.sig = "up" /\ Len(link.fromDev) < MaxWire
    /\ \E m \in Request :
         /\ m.kind \in {"setconf", "reconfigure", "open"} => m.ends = {"sink"}
         /\ m.kind \in {"close", "abort"} => Cardinality(m.ends) = 1
         /\ link' = [link EXCEPT !.fromDev = Append(@, m)]
    /\ UNCHANGED sound

SoundChanges == sound' = ~sound /\ UNCHANGED link

Environment == DeviceAnswers \/ DeviceCommands \/ SoundChanges

Steps ==
    \/ \E ends \in SUBSET Endpoint : AcceptSignaling(ends) \/ BeginConnect(ends)
    \/ AcceptCrossed \/ AcceptMedia \/ SignalingConnected \/ SignalingReadable
    \/ HangUp \/ CommandWritable \/ Service
    \/ InMediaPolled \/ OutMediaPolled \/ InputMedia
    \/ OutMediaWritable \/ OutMediaClosed
    \/ \E queued \in BOOLEAN : PumpOutput(queued)

LinkNext == Environment \/ Steps \/ ConnectTimeout \/ AnswerTimeout

LinkSpec == LinkInit /\ [][LinkNext]_avdtpVars

\* threadMain() services the timers of every link on every turn of its loop,
\* and pumps every output before and after it handles a message: pumping is
\* tried between any two messages of the device (strong fairness).  The audio
\* thread fills the queue of an active slot within milliseconds, before the
\* device suspends the stream over and over, and the radio sends the packet it
\* was given, or the channel breaks.
LinkFairness ==
    /\ WF_avdtpVars(ConnectTimeout) /\ WF_avdtpVars(AnswerTimeout)
    /\ SF_avdtpVars(PumpOutput(TRUE)) /\ SF_avdtpVars(OutMediaWritable)

LinkFairSpec == LinkSpec /\ LinkFairness

-----------------------------------------------------------------------------
(* Properties.                                                             *)

\* A link whose output or signalling channel is still to be set up is always
\* timed: it carries a deadline, whatever answers, commands and failures came
\* in between (serviceLinkTimers tests "connecting" and "deadlineMs").
SetupIsTimed ==
    /\ link.sig = "dialing" => link.connecting
    /\ link.wantOut /\ ~link.outUp => link.connecting
    /\ link.connecting => link.deadline /\ (link.wantOut \/ link.sig = "dialing")
    /\ link.unsent => link.pend # None

\* The audio slots say what the link says: the input slot names the device
\* exactly while its stream plays, the output slot exactly while the output
\* is up, and PCM is only taken for a stream that is configured.
SlotsFollowLink ==
    /\ link.inPeer = link.inStream
    /\ link.outPeer = link.outUp
    /\ link.outActive => link.outConf /\ link.outOpen
    /\ link.inStream => link.inOpen /\ link.inConf
    /\ link.outUp => link.outConf /\ link.outOpen

\* Both: a stream that is being set up has a deadline, and the audio slots are
\* those of the streams that are up (resetLink, closeLink, closeOutputStream and
\* closeInputStream, from every handler that calls them).
LinkIsSound == SetupIsTimed /\ SlotsFollowLink

\* An output that is up is never muted for good while there is sound to send:
\* whatever START and SUSPEND of both ends cross, and whatever is rejected or
\* lost, the stream starts again or the output is given up (pumpOutputAudio,
\* outStartRequested and outSuspendRequested).
SoundResumes == []<>~(link.outUp /\ sound /\ ~link.outStream)
=============================================================================
