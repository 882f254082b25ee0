-------------------------- MODULE Bluetooth_proofs --------------------------
(***************************************************************************)
(* Three promises of the Bluetooth code, each for every value of its       *)
(* constants:                                                              *)
(*   InputStream: what the audio thread reads of a stream is whole and of  *)
(*     that stream, for every size of the ring, the margin, a push and a   *)
(*     block, under the two inequalities of StreamAssumption;              *)
(*   AvdtpLink: a stream that is being set up is timed, and the audio      *)
(*     slots are those of the streams that are up, whatever a device       *)
(*     answers or sends and however many messages are on the way;          *)
(*   BluetoothManager: the devices, their links, their sessions and the    *)
(*     file of paired devices agree, for every set of devices.             *)
(***************************************************************************)
EXTENDS InputStream, AvdtpLink, BluetoothManager, FiniteSetTheorems, TLAPS

-----------------------------------------------------------------------------
(* The ring of an input stream.                                            *)

\* The writer's side: a push lies between write and last, and the beginning
\* of the newest stream is not ahead of the writer.
WriterInv ==
    /\ wpc # "push" => top = write
    /\ wpc = "push" => write <= top /\ top <= last /\ last <= write + MaxPush
    /\ startIndex <= write /\ began <= startIndex /\ since <= began
    /\ wpc # "announce" => began = startIndex

\* The reader's side: read never passes write, a reader that is not about to
\* restart is inside the stream it has seen, and its block has been written.
ReaderInv ==
    /\ read <= write
    /\ rpc # "restart" => since <= read
    /\ rpc = "load" => readIndex = read
    /\ rpc = "read" => /\ read <= readIndex /\ readIndex <= at
                       /\ readIndex + available <= write

\* Why no slot is written while it is read: the skip leaves Margin frames, and
\* a push that counted frames as free before the reader went back adds MaxPush
\* at most; a later one counts from read, which is not ahead of the block.
RoomInv ==
    rpc = "read" => /\ write <= readIndex + Ring
                    /\ wpc = "push" => last <= readIndex + Ring

\* What both threads keep.
StreamInv == TypeOK /\ WriterInv /\ ReaderInv /\ RoomInv

\* The invariant holds before the first push and the first block.
LEMMA StreamStarts == Init => StreamInv
  <1> SUFFICES ASSUME Init PROVE StreamInv
    OBVIOUS
  <1>1. TypeOK
    BY DEF Init, TypeOK
  <1>2. WriterInv
    BY StreamAssumption DEF Init, WriterInv
  <1>3. ReaderInv /\ RoomInv
    BY DEF Init, ReaderInv, RoomInv
  <1> QED
    BY <1>1, <1>2, <1>3 DEF StreamInv

\* A worker's step keeps the invariant.
LEMMA WorkerInv ==
  ASSUME StreamInv,
         Mark \/ Announce \/ WriteFrame \/ EndPush \/ \E frames \in 1..MaxPush : BeginPush(frames)
  PROVE  StreamInv'
  <1> USE StreamAssumption DEF StreamInv, TypeOK, WriterInv, ReaderInv, RoomInv, readerVars
  <1>1. CASE Mark
    BY <1>1 DEF Mark
  <1>2. CASE Announce
    BY <1>2 DEF Announce
  <1>3. CASE WriteFrame
    BY <1>3 DEF WriteFrame
  <1>4. CASE EndPush
    BY <1>4 DEF EndPush
  <1>5. ASSUME NEW frames \in 1..MaxPush, BeginPush(frames)
        PROVE  StreamInv'
    <2>1. /\ Free(write, read) \in Nat
          /\ Free(write, read) = 0 \/ write + Free(write, read) = read + Ring
      BY DEF Free
    <2>2. /\ last' \in Nat /\ write <= last' /\ last' <= write + frames
          /\ last' = write \/ last' <= read + Ring
      BY <1>5, <2>1 DEF BeginPush
    <2> QED
      BY <1>5, <2>2 DEF BeginPush
  <1> QED
    BY <1>1, <1>2, <1>3, <1>4, <1>5

\* A step of the audio thread keeps the invariant.
LEMMA ReaderStepInv ==
  ASSUME StreamInv, BeginRender \/ Restart \/ LoadWrite \/ ReadFrame \/ EndRender
  PROVE  StreamInv'
  <1> USE StreamAssumption DEF StreamInv, TypeOK, WriterInv, ReaderInv, RoomInv, workerVars
  <1>1. CASE BeginRender
    BY <1>1 DEF BeginRender
  <1>2. CASE Restart
    <2>1. TypeOK'
      BY <1>2 DEF Restart
    <2>2. WriterInv'
      BY <1>2 DEF Restart
    <2>3. ReaderInv' /\ RoomInv'
      <3>1. since <= startIndex /\ startIndex <= write
        OBVIOUS
      <3>2. /\ readIndex' = startIndex /\ read' = startIndex /\ rpc' = "load"
            /\ since' = since /\ write' = write
        BY <1>2 DEF Restart
      <3> QED
        BY <3>1, <3>2
    <2> QED
      BY <2>1, <2>2, <2>3
  <1>3. CASE LoadWrite
    <2> DEFINE a == write - readIndex
    <2>1. a \in Nat /\ readIndex + a = write
      BY <1>3 DEF LoadWrite
    <2>2. CASE ~primed /\ a < Target
      BY <1>3, <2>2 DEF LoadWrite
    <2>3. CASE ~(~primed /\ a < Target)
      <3>1. /\ primed' = TRUE /\ available' = (IF TooFar(a) THEN Target ELSE a)
            /\ readIndex' = write - available' /\ at' = readIndex' /\ rpc' = "read"
            /\ UNCHANGED <<read, seen, since, workerVars>>
        BY <1>3, <2>3 DEF LoadWrite
      <3>2. available' \in Nat /\ available' <= a /\ available' + Margin <= Ring
        <4>1. available' = IF TooFar(a) THEN Target ELSE a
          BY <3>1
        <4> HIDE DEF a
        <4>2. CASE TooFar(a)
          BY <2>1, <4>1, <4>2 DEF TooFar
        <4>3. CASE ~TooFar(a)
          BY <2>1, <4>1, <4>3 DEF TooFar
        <4> QED
          BY <4>2, <4>3
      <3>3. readIndex' \in Nat /\ readIndex' + available' = write /\ readIndex <= readIndex'
        BY <2>1, <3>1, <3>2
      <3>4. rpc = "load"
        BY <1>3 DEF LoadWrite
      <3>5. TypeOK'
        BY <3>1, <3>2, <3>3
      <3>6. WriterInv'
        BY <3>1
      <3>7. ReaderInv'
        BY <3>1, <3>3, <3>4
      <3>8. RoomInv'
        <4>1. last <= write + MaxPush \/ wpc # "push"
          OBVIOUS
        <4> QED
          BY <3>1, <3>2, <3>3, <4>1
      <3> QED
        BY <3>5, <3>6, <3>7, <3>8 DEF StreamInv
    <2> QED
      BY <2>2, <2>3
  <1>4. CASE ReadFrame
    BY <1>4 DEF ReadFrame, Reading
  <1>5. CASE EndRender
    BY <1>5 DEF EndRender
  <1> QED
    BY <1>1, <1>2, <1>3, <1>4, <1>5

\* StreamInv is inductive (both threads of BluetoothInputStream).
THEOREM StreamInvariance == Spec => []StreamInv
  <1>1. Init => StreamInv
    BY StreamStarts
  <1>2. StreamInv /\ [Next]_vars => StreamInv'
    <2> SUFFICES ASSUME StreamInv, [Next]_vars PROVE StreamInv'
      OBVIOUS
    <2>1. CASE UNCHANGED vars
      BY <2>1 DEF vars, workerVars, readerVars, StreamInv, TypeOK, WriterInv, ReaderInv, RoomInv
    <2> QED
      BY <2>1, WorkerInv, ReaderStepInv DEF Next
  <1> QED
    BY <1>1, <1>2, PTL DEF Spec

\* A frame the audio thread reads is whole (push() against render()).
THEOREM WholeFrames == Spec => []FramesAreWhole
  <1>1. StreamInv => FramesAreWhole
    BY StreamAssumption DEF StreamInv, TypeOK, WriterInv, ReaderInv, RoomInv, FramesAreWhole,
       Reading
  <1> QED
    BY <1>1, StreamInvariance, PTL

\* Nothing of the device before is played after the restart has been seen.
THEOREM NoOldFrames == Spec => []OldStreamIsOver
  <1>1. StreamInv => OldStreamIsOver
    BY StreamAssumption DEF StreamInv, TypeOK, ReaderInv, OldStreamIsOver, Reading
  <1> QED
    BY <1>1, StreamInvariance, PTL

\* Both: what the audio thread plays of the ring was written whole by the device
\* that feeds it (render() against push() and start()).
THEOREM StreamStaysSound == Spec => []StreamIsSound
  <1>1. FramesAreWhole /\ OldStreamIsOver => StreamIsSound
    BY DEF StreamIsSound
  <1> QED
    BY <1>1, WholeFrames, NoOldFrames, PTL

-----------------------------------------------------------------------------
(* A link.                                                                 *)

(* A link has the members of BluetoothLink.                                *)
IsLink(s) == DOMAIN s = DOMAIN Unused /\ s.pendIn \in BOOLEAN

(* What LinkIsSound asks of a link.                                        *)
Timed(s) ==
  /\ s.sig = "dialing" => s.connecting
  /\ s.wantOut /\ ~s.outUp => s.connecting
  /\ s.connecting => s.deadline /\ (s.wantOut \/ s.sig = "dialing")
  /\ s.unsent => s.pend # None

Slotted(s) ==
  /\ s.inPeer = s.inStream
  /\ s.outPeer = s.outUp
  /\ s.outActive => s.outConf /\ s.outOpen
  /\ s.inStream => s.inOpen /\ s.inConf
  /\ s.outUp => s.outConf /\ s.outOpen

(* What it rests on: nothing of the output is set up before the signalling *)
(* channel is, and what the outstanding command is about has been reached. *)
Reached(s) ==
  /\ s.sig # "up" => s.outMedia = None /\ ~s.outUp
  /\ s.outMedia # None => s.outConf /\ s.outOpen
  /\ s.inOpen => s.inConf
  /\ s.pend = "open" => IF s.pendIn THEN s.inConf ELSE s.outConf
  /\ s.pend = "start" /\ ~s.pendIn => s.outConf /\ s.outOpen

\* What every handler keeps.
GoodLink(s) == IsLink(s) /\ Timed(s) /\ Slotted(s) /\ Reached(s)

\* A link nobody uses is sound: closeLink() may always be called.
LEMMA UnusedIsGood == GoodLink(Unused)
  BY DEF GoodLink, IsLink, Timed, Slotted, Reached, Unused, None

\* A command given up takes its claim with it.
LEMMA DropCommandKeeps ==
  ASSUME NEW s, GoodLink(s), NEW input \in BOOLEAN
  PROVE  GoodLink(DropCommand(s, input))
  BY DEF GoodLink, IsLink, Timed, Slotted, Reached, Unused, None, DropCommand

(* Nothing is outstanding for the stream whose command was dropped.        *)
LEMMA CommandIsGivenUp ==
  ASSUME NEW s, IsLink(s), NEW input \in BOOLEAN
  PROVE  LET t == DropCommand(s, input) IN t.pend = None \/ t.pendIn # input
  BY DEF IsLink, Unused, None, DropCommand

\* closeInputStream(): what the input had reached, and its slot, go at once.
LEMMA CloseInputKeeps ==
  ASSUME NEW s, GoodLink(s)
  PROVE  GoodLink(CloseInput(s))
  <1> DEFINE t == DropCommand(s, TRUE)
             u == CloseInput(s)
  <1>1. GoodLink(t) /\ (t.pend = None \/ t.pendIn # TRUE)
    BY DropCommandKeeps, CommandIsGivenUp DEF GoodLink
  <1>2. u = [t EXCEPT !.inConf = FALSE, !.inOpen = FALSE, !.inStream = FALSE,
        !.inRemote = FALSE, !.inMedia = None, !.wantIn = FALSE, !.inPeer = FALSE]
    BY DEF CloseInput
  <1> HIDE DEF t, u
  <1>3. IsLink(u)
    BY <1>1, <1>2 DEF GoodLink, IsLink, Unused
  <1>4. /\ u.inConf = FALSE /\ u.inOpen = FALSE /\ u.inStream = FALSE /\ u.inPeer = FALSE
        /\ u.sig = t.sig /\ u.connecting = t.connecting /\ u.deadline = t.deadline
        /\ u.wantOut = t.wantOut /\ u.outUp = t.outUp /\ u.unsent = t.unsent /\ u.pend = t.pend
        /\ u.pendIn = t.pendIn /\ u.outPeer = t.outPeer /\ u.outActive = t.outActive
        /\ u.outConf = t.outConf /\ u.outOpen = t.outOpen /\ u.outMedia = t.outMedia
    BY <1>1, <1>2 DEF GoodLink, IsLink, Unused
  <1>5. Timed(u) /\ Slotted(u) /\ Reached(u)
    BY <1>1, <1>4 DEF GoodLink, Timed, Slotted, Reached, None
  <1> QED
    BY <1>3, <1>5 DEF GoodLink, u

\* ... and the link with it, when nothing else needs it.
LEMMA EndInputKeeps ==
  ASSUME NEW s, GoodLink(s)
  PROVE  GoodLink(EndInput(s))
  BY CloseInputKeeps, UnusedIsGood DEF EndInput, CloseLink

\* closeOutputStream(), on a link whose signalling channel is up.
LEMMA CloseOutputKeeps ==
  ASSUME NEW s, GoodLink(s), s.sig = "up"
  PROVE  GoodLink(CloseOutput(s))
  <1> DEFINE t == DropCommand(s, FALSE)
             u == CloseOutput(s)
  <1>1. GoodLink(t) /\ (t.pend = None \/ t.pendIn # FALSE)
    BY DropCommandKeeps, CommandIsGivenUp DEF GoodLink
  <1>2. t.sig = "up"
    BY DEF GoodLink, IsLink, Unused, DropCommand
  <1>3. CASE ~s.wantIn /\ ~s.inConf
    BY <1>3, UnusedIsGood DEF CloseOutput, CloseLink
  <1>4. CASE ~(~s.wantIn /\ ~s.inConf)
    <2>1. u = [t EXCEPT
            !.outStarting = FALSE, !.outConf = FALSE, !.outOpen = FALSE,
            !.outUp = FALSE, !.outStream = FALSE, !.outMedia = None,
            !.suspReq = FALSE, !.startReq = FALSE, !.packet = FALSE,
            !.wantOut = FALSE, !.connecting = FALSE, !.deadline = FALSE,
            !.outActive = FALSE, !.outPeer = FALSE]
      BY <1>4 DEF CloseOutput
    <2> HIDE DEF t, u
    <2>2. IsLink(u)
      BY <1>1, <2>1 DEF GoodLink, IsLink, Unused
    <2>3. /\ u.outConf = FALSE /\ u.outOpen = FALSE /\ u.outUp = FALSE
          /\ u.outMedia = None /\ u.wantOut = FALSE
          /\ u.connecting = FALSE /\ u.outActive = FALSE /\ u.outPeer = FALSE
          /\ u.sig = t.sig /\ u.unsent = t.unsent /\ u.pend = t.pend /\ u.pendIn = t.pendIn
          /\ u.inConf = t.inConf /\ u.inOpen = t.inOpen
          /\ u.inStream = t.inStream /\ u.inPeer = t.inPeer
      BY <1>1, <2>1 DEF GoodLink, IsLink, Unused
    <2>5. Timed(u) /\ Slotted(u) /\ Reached(u)
      BY <1>1, <1>2, <2>3 DEF GoodLink, IsLink, Timed, Slotted, Reached, None
    <2> QED
      BY <2>2, <2>5 DEF GoodLink, u
  <1> QED
    BY <1>3, <1>4

\* The output is up, and its slot taken, once it is configured and open.
LEMMA OutputStartedKeeps ==
  ASSUME NEW s, GoodLink(s), s.outConf, s.outOpen, s.sig = "up"
  PROVE  GoodLink(OutputStarted(s))
  <1> DEFINE t == [s EXCEPT !.outStream = TRUE, !.startReq = FALSE, !.suspReq = FALSE,
                       !.outActive = TRUE]
  <1>1. GoodLink(t) /\ t.outConf /\ t.outOpen /\ t.sig = "up" /\ t.outUp = s.outUp
   BY DEF GoodLink, IsLink, Timed, Slotted, Reached, Unused, None
  <1> HIDE DEF t
  <1>2. OutputStarted(s) = IF s.outUp THEN t
       ELSE [t EXCEPT !.outUp = TRUE, !.connecting = FALSE, !.deadline = FALSE,
                      !.outPeer = TRUE]
    BY DEF OutputStarted, t
  <1>3. CASE s.outUp
    BY <1>1, <1>2, <1>3
  <1>4. CASE ~s.outUp
    BY <1>1, <1>2, <1>4 DEF GoodLink, IsLink, Timed, Slotted, Reached, Unused, None
  <1> QED
    BY <1>3, <1>4
(* A command is sent, kept, or ends the link.                              *)
LEMMA SendCommandKeeps ==
  ASSUME NEW s, GoodLink(s), NEW signal \in Signal, NEW input \in BOOLEAN,
         signal = "open" => IF input THEN s.inConf ELSE s.outConf,
         signal = "start" => ~input /\ s.outConf /\ s.outOpen
  PROVE  \A t \in SendCommand(s, signal, input) : GoodLink(t)
  <1> DEFINE t == [s EXCEPT !.pend = signal, !.pendIn = input]
             u == Transmit(t, signal)
             v == [t EXCEPT !.unsent = TRUE]
  <1>1. GoodLink(t) /\ t.pend # None
    BY DEF GoodLink, IsLink, Timed, Slotted, Reached, Unused, None, Signal
  <1>2. SendCommand(s, signal, input) \subseteq {s, u, v, CloseLink(s)}
    BY DEF SendCommand
  <1> HIDE DEF t
  <1>3. GoodLink(u)
    BY <1>1 DEF GoodLink, IsLink, Timed, Slotted, Reached, Unused, None, Transmit
  <1>4. GoodLink(v)
    BY <1>1 DEF GoodLink, IsLink, Timed, Slotted, Reached, Unused, None
  <1> QED
    BY <1>2, <1>3, <1>4, UnusedIsGood DEF CloseLink

\* A kept command is sent later, or the channel is broken.
LEMMA FlushCommandKeeps ==
  ASSUME NEW s, GoodLink(s), NEW t \in FlushCommand(s)
  PROVE  GoodLink(t)
  <1> DEFINE u == Transmit([s EXCEPT !.unsent = FALSE], s.pend)
  <1>1. GoodLink(u)
    BY DEF GoodLink, IsLink, Timed, Slotted, Reached, Unused, None, Transmit
  <1> QED
    BY <1>1, UnusedIsGood DEF FlushCommand, CloseLink

(* The next step of AudioX.                                                *)
LEMMA DriveLinkKeeps ==
  ASSUME NEW s, GoodLink(s)
  PROVE  \A t \in DriveLink(s) : GoodLink(t)
  <1> DEFINE u == [s EXCEPT !.outStarting = TRUE]
  <1>1. GoodLink(u)
    BY DEF GoodLink, IsLink, Timed, Slotted, Reached, Unused, None
  <1>2. \A t \in SendCommand(s, "discover", FALSE) \cup SendCommand(u, "getcaps", FALSE)
                   \cup SendCommand(s, "getcaps", TRUE) : GoodLink(t)
    BY <1>1, SendCommandKeeps DEF Signal
  <1>3. DriveLink(s) \subseteq {s} \cup SendCommand(s, "discover", FALSE)
           \cup SendCommand(u, "getcaps", FALSE) \cup SendCommand(s, "getcaps", TRUE)
    BY DEF DriveLink
  <1> QED
    BY <1>2, <1>3

\* A link without an output to set up is not timed any more.
LEMMA ConnectedKeeps ==
  ASSUME NEW s, GoodLink(s), s.sig = "dialing"
  PROVE  \A t \in Connected([s EXCEPT !.sig = "up"]) : GoodLink(t)
  <1> DEFINE u == [s EXCEPT !.sig = "up"]
             v == [u EXCEPT !.connecting = FALSE, !.deadline = FALSE]
  <1>1. CASE u.wantOut
    <2>1. GoodLink(u)
      BY <1>1 DEF GoodLink, IsLink, Timed, Slotted, Reached, Unused, None
    <2> QED
      BY <1>1, <2>1, DriveLinkKeeps DEF Connected
  <1>2. CASE ~u.wantOut
    <2>1. GoodLink(v)
      BY <1>2 DEF GoodLink, IsLink, Timed, Slotted, Reached, Unused, None
    <2> QED
      BY <1>2, <2>1, DriveLinkKeeps DEF Connected
  <1> QED
    BY <1>1, <1>2

(* The endpoints found start the deadline, or end it.                      *)
LEMMA DiscoveredKeeps ==
  ASSUME NEW s, GoodLink(s), s.sig = "up", NEW ends
  PROVE  GoodLink(Discovered(s, ends))
  <1> DEFINE out == "sink" \in ends
             in  == "source" \in ends \/ s.inConf
             t == [s EXCEPT !.discovered = TRUE, !.remote = ends, !.wantOut = out, !.wantIn = in]
             u == [t EXCEPT !.connecting = TRUE, !.deadline = TRUE]
             v == [t EXCEPT !.connecting = FALSE, !.deadline = FALSE]
  <1>1. CASE ~out /\ ~in
    BY <1>1, UnusedIsGood DEF Discovered, CloseLink
  <1>2. CASE (out \/ in) /\ out /\ ~s.connecting /\ ~s.outUp
    <2>1. GoodLink(u)
      BY <1>2 DEF GoodLink, IsLink, Timed, Slotted, Reached, Unused, None
    <2>2. Discovered(s, ends) = u
      BY <1>2 DEF Discovered, GoodLink, IsLink, Unused
    <2> QED
      BY <2>1, <2>2
  <1>3. CASE in /\ ~out /\ s.connecting
    <2>1. GoodLink(v)
      BY <1>3 DEF GoodLink, IsLink, Timed, Slotted, Reached, Unused, None
    <2>2. Discovered(s, ends) = v
      BY <1>3 DEF Discovered, GoodLink, IsLink, Unused
    <2> QED
      BY <2>1, <2>2
  <1>4. CASE (out /\ (s.connecting \/ s.outUp)) \/ (in /\ ~out /\ ~s.connecting)
    <2>1. GoodLink(t)
      BY <1>4 DEF GoodLink, IsLink, Timed, Slotted, Reached, Unused, None
    <2>2. Discovered(s, ends) = t
      BY <1>4 DEF Discovered, GoodLink, IsLink, Unused
    <2> QED
      BY <2>1, <2>2
  <1> QED
    BY <1>1, <1>2, <1>3, <1>4
\* The media channel of an output is up only after OPEN.
LEMMA MediaUpKeeps ==
  ASSUME NEW s, GoodLink(s), s.sig = "up", NEW input \in BOOLEAN, ~input => s.outConf /\ s.outOpen
  PROVE  \A t \in MediaUp(s, input) : GoodLink(t)
  <1> DEFINE u == [s EXCEPT !.inMedia = "up"]
             v == [s EXCEPT !.outMedia = "up"]
  <1>1. CASE input
    <2>1. GoodLink(u)
      BY DEF GoodLink, IsLink, Timed, Slotted, Reached, Unused, None
    <2> QED
      BY <1>1, <2>1 DEF MediaUp
  <1>2. CASE ~input
    <2>1. GoodLink(v) /\ v.sig = "up" /\ v.outConf /\ v.outOpen
      BY <1>2 DEF GoodLink, IsLink, Timed, Slotted, Reached, Unused, None
    <2> HIDE DEF v
    <2>2. \A t \in SendCommand(v, "start", FALSE) : GoodLink(t)
      BY <2>1, SendCommandKeeps DEF Signal
    <2>3. GoodLink(CloseOutput(v))
      BY <2>1, CloseOutputKeeps
    <2> QED
      BY <1>2, <2>2, <2>3 DEF MediaUp, v
  <1> QED
    BY <1>1, <1>2

\* ... and dialled only after OPEN.
LEMMA ConnectMediaKeeps ==
  ASSUME NEW s, GoodLink(s), s.sig = "up", NEW input \in BOOLEAN, ~input => s.outConf /\ s.outOpen
  PROVE  \A t \in ConnectMedia(s, input) : GoodLink(t)
  <1> DEFINE u == [s EXCEPT !.inMedia = "dialing"]
             v == [s EXCEPT !.outMedia = "dialing"]
  <1>1. GoodLink(u)
    BY DEF GoodLink, IsLink, Timed, Slotted, Reached, Unused, None
  <1>2. ~input => GoodLink(v)
    BY DEF GoodLink, IsLink, Timed, Slotted, Reached, Unused, None
  <1>3. GoodLink(EndInput(s)) /\ GoodLink(CloseOutput(s))
    BY EndInputKeeps, CloseOutputKeeps
  <1> QED
    BY <1>1, <1>2, <1>3, MediaUpKeeps DEF ConnectMedia

(* An answer of the device moves the stream on, or ends it.                *)
LEMMA OutputAnsweredKeeps ==
  ASSUME NEW s, GoodLink(s), s.sig = "up", NEW m,
         m.signal = "open" => s.outConf, m.signal = "start" => s.outConf /\ s.outOpen
  PROVE  \A t \in OutputAnswered(s, m) : GoodLink(t)
  <1> DEFINE rejected == [s EXCEPT !.suspOk = FALSE, !.suspReq = FALSE]
             conf == [s EXCEPT !.outConf = TRUE]
             open == [s EXCEPT !.outOpen = TRUE]
  <1>1. GoodLink(rejected) /\ GoodLink(conf) /\ conf.outConf
    BY DEF GoodLink, IsLink, Timed, Slotted, Reached, Unused, None
  <1>2. m.signal = "open" => GoodLink(open) /\ open.sig = "up" /\ open.outConf /\ open.outOpen
    BY DEF GoodLink, IsLink, Timed, Slotted, Reached, Unused, None
  <1>3. GoodLink(OutputSuspended(s))
    BY DEF GoodLink, IsLink, Timed, Slotted, Reached, Unused, None, OutputSuspended
  <1>4. GoodLink(CloseOutput(s)) /\ (m.signal = "start" => GoodLink(OutputStarted(s)))
    BY CloseOutputKeeps, OutputStartedKeeps
  <1>5. /\ \A t \in SendCommand(s, "setconf", FALSE) : GoodLink(t)
        /\ \A t \in SendCommand(conf, "open", FALSE) : GoodLink(t)
    BY <1>1, SendCommandKeeps DEF Signal
  <1>6. m.signal = "open" => \A t \in ConnectMedia(open, FALSE) : GoodLink(t)
    BY <1>2, ConnectMediaKeeps
  <1> HIDE DEF rejected, conf, open
  <1>7. CASE ~m.ok
    BY <1>1, <1>4, <1>7 DEF OutputAnswered, rejected
  <1>8. CASE m.ok
    <2>1. CASE m.signal = "getcaps"
      BY <1>4, <1>5, <1>8, <2>1 DEF OutputAnswered
    <2>2. CASE m.signal = "setconf"
      BY <1>5, <1>8, <2>2 DEF OutputAnswered, conf
    <2>3. CASE m.signal = "open"
      BY <1>6, <1>8, <2>3 DEF OutputAnswered, open
    <2>4. CASE m.signal = "start"
      BY <1>4, <1>8, <2>4 DEF OutputAnswered
    <2>5. CASE m.signal = "suspend"
      BY <1>3, <1>8, <2>5 DEF OutputAnswered
    <2>6. CASE m.signal \notin {"getcaps", "setconf", "open", "start", "suspend"}
      BY <1>8, <2>6 DEF OutputAnswered
    <2> QED
      BY <2>1, <2>2, <2>3, <2>4, <2>5, <2>6
  <1> QED
    BY <1>7, <1>8

\* The same of the input.
LEMMA InputAnsweredKeeps ==
  ASSUME NEW s, GoodLink(s), s.sig = "up", NEW m, m.signal = "open" => s.inConf
  PROVE  \A t \in InputAnswered(s, m) : GoodLink(t)
  <1> DEFINE conf == [s EXCEPT !.inConf = TRUE]
             open == [s EXCEPT !.inOpen = TRUE]
  <1>1. GoodLink(conf) /\ conf.inConf
    BY DEF GoodLink, IsLink, Timed, Slotted, Reached, Unused, None
  <1>2. m.signal = "open" => GoodLink(open) /\ open.sig = "up"
    BY DEF GoodLink, IsLink, Timed, Slotted, Reached, Unused, None
  <1>3. GoodLink(EndInput(s))
    BY EndInputKeeps
  <1>4. /\ \A t \in SendCommand(s, "setconf", TRUE) : GoodLink(t)
        /\ \A t \in SendCommand(conf, "open", TRUE) : GoodLink(t)
    BY <1>1, SendCommandKeeps DEF Signal
  <1>5. m.signal = "open" => \A t \in ConnectMedia(open, TRUE) : GoodLink(t)
    BY <1>2, ConnectMediaKeeps
  <1> HIDE DEF conf, open
  <1>6. CASE ~m.ok
    BY <1>3, <1>6 DEF InputAnswered
  <1>7. CASE m.ok
    <2>1. CASE m.signal = "getcaps"
      BY <1>3, <1>4, <1>7, <2>1 DEF InputAnswered
    <2>2. CASE m.signal = "setconf"
      BY <1>4, <1>7, <2>2 DEF InputAnswered, conf
    <2>3. CASE m.signal = "open"
      BY <1>5, <1>7, <2>3 DEF InputAnswered, open
    <2>4. CASE m.signal \notin {"getcaps", "setconf", "open"}
      BY <1>7, <2>4 DEF InputAnswered
    <2> QED
      BY <2>1, <2>2, <2>3, <2>4
  <1> QED
    BY <1>6, <1>7

\* handleResponse(): the answer is to the command that is outstanding.
LEMMA LinkAnsweredKeeps ==
  ASSUME NEW s, GoodLink(s), s.sig = "up", NEW m, m.signal = s.pend
  PROVE  \A t \in LinkAnswered(s, m) : GoodLink(t)
  <1> DEFINE t == [s EXCEPT !.pend = None, !.unsent = FALSE]
  <1>1. GoodLink(t) /\ t.sig = "up"
    BY DEF GoodLink, IsLink, Timed, Slotted, Reached, Unused, None
  <1>2. /\ m.signal = "open" => IF s.pendIn THEN t.inConf ELSE t.outConf
        /\ m.signal = "start" /\ ~s.pendIn => t.outConf /\ t.outOpen
    BY DEF GoodLink, IsLink, Reached, Unused
  <1> HIDE DEF t
  <1>3. CASE m.signal = "discover"
    <2>1. GoodLink(IF m.ok THEN Discovered(t, m.ends) ELSE CloseLink(t))
      BY <1>1, DiscoveredKeeps, UnusedIsGood DEF CloseLink
    <2> QED
      BY <1>3, <2>1, DriveLinkKeeps DEF LinkAnswered, t
  <1>4. CASE m.signal # "discover"
    <2> DEFINE S == IF s.pendIn THEN InputAnswered(t, m) ELSE OutputAnswered(t, m)
    <2>1. \A u \in S : GoodLink(u)
      BY <1>1, <1>2, InputAnsweredKeeps, OutputAnsweredKeeps
    <2>2. LinkAnswered(s, m) = Drive(S)
      BY <1>4 DEF LinkAnswered, t
    <2> HIDE DEF S
    <2> QED
      BY <2>1, <2>2, DriveLinkKeeps DEF Drive
  <1> QED
    BY <1>3, <1>4
-----------------------------------------------------------------------------
(* The commands of the device.                                             *)
\* A device that configures its input ends the deadline of no output.
LEMMA ConfigureKeeps ==
  ASSUME NEW s, GoodLink(s), s.sig = "up"
  PROVE  GoodLink(Configure(s))
  <1> DEFINE t == [s EXCEPT !.inConf = TRUE, !.inRemote = TRUE, !.wantIn = TRUE]
             u == [t EXCEPT !.connecting = FALSE, !.deadline = FALSE]
  <1>1. GoodLink(t) /\ t.sig = "up" /\ t.wantOut = s.wantOut
    BY DEF GoodLink, IsLink, Timed, Slotted, Reached, Unused, None
  <1> HIDE DEF t
  <1>2. ~s.wantOut => GoodLink(u)
    BY <1>1 DEF GoodLink, IsLink, Timed, Slotted, Reached, Unused, None
  <1> QED
    BY <1>1, <1>2 DEF Configure, t

\* The input plays, and its slot is taken, only once it is open.
LEMMA StartInputKeeps ==
  ASSUME NEW s, GoodLink(s), s.inOpen
  PROVE  GoodLink(StartInput(s))
  BY DEF GoodLink, IsLink, Timed, Slotted, Reached, Unused, None, StartInput

\* START is checked for all its endpoints before any is started.
LEMMA StartStreamsKeeps ==
  ASSUME NEW s, GoodLink(s), NEW ends, Startable(s, ends)
  PROVE  GoodLink(StartStreams(s, ends))
  <1> DEFINE u == [s EXCEPT !.startReq = FALSE, !.outStream = TRUE, !.outActive = TRUE]
             t == IF "source" \in ends THEN u ELSE s
  <1>1. "source" \in ends => GoodLink(u) /\ u.inOpen = s.inOpen
    BY DEF GoodLink, IsLink, Timed, Slotted, Reached, Unused, None, Startable
  <1>2. GoodLink(t) /\ t.inOpen = s.inOpen
    BY <1>1
  <1>3. StartStreams(s, ends) = IF "sink" \in ends THEN StartInput(t) ELSE t
    BY DEF StartStreams
  <1> HIDE DEF t
  <1> QED
    BY <1>2, <1>3, StartInputKeeps DEF Startable

\* SUSPEND stops what it names.
LEMMA SuspendStreamsKeeps ==
  ASSUME NEW s, GoodLink(s), NEW ends
  PROVE  GoodLink(SuspendStreams(s, ends))
  <1> DEFINE u == [s EXCEPT !.outStream = FALSE, !.suspReq = FALSE, !.startReq = FALSE,
                            !.outActive = FALSE]
             t == IF "source" \in ends THEN u ELSE s
             v == [t EXCEPT !.inStream = FALSE, !.inPeer = FALSE]
  <1>1. GoodLink(u)
    BY DEF GoodLink, IsLink, Timed, Slotted, Reached, Unused, None
  <1>2. GoodLink(t)
    BY <1>1
  <1>3. SuspendStreams(s, ends) = IF "sink" \in ends THEN v ELSE t
    BY DEF SuspendStreams
  <1> HIDE DEF t
  <1>4. GoodLink(v)
    BY <1>2 DEF GoodLink, IsLink, Timed, Slotted, Reached, Unused, None
  <1> QED
    BY <1>2, <1>3, <1>4

\* Whatever command the device sends, in whatever state of the link.
LEMMA CommandedKeeps ==
  ASSUME NEW s, GoodLink(s), s.sig = "up", NEW m
  PROVE  GoodLink(Commanded(s, m))
  <1> DEFINE open == [s EXCEPT !.inOpen = TRUE]
  <1>1. s.inConf => GoodLink(open)
    BY DEF GoodLink, IsLink, Timed, Slotted, Reached, Unused, None
  <1>2. GoodLink(Configure(s)) /\ GoodLink(CloseOutput(s)) /\ GoodLink(CloseInput(s))
    BY ConfigureKeeps, CloseOutputKeeps, CloseInputKeeps
  <1>3. Startable(s, m.ends) =>
          GoodLink(StartStreams(s, m.ends)) /\ GoodLink(SuspendStreams(s, m.ends))
    BY StartStreamsKeeps, SuspendStreamsKeeps
  <1> QED
    BY <1>1, <1>2, <1>3 DEF Commanded

-----------------------------------------------------------------------------
(* Playing.                                                                *)
\* A packet is sent, or its stream is closed.
LEMMA FlushPacketKeeps ==
  ASSUME NEW s, GoodLink(s), s.sig = "up"
  PROVE  \A t \in FlushPacket(s) : GoodLink(t)
  <1>1. GoodLink([s EXCEPT !.packet = FALSE])
    BY DEF GoodLink, IsLink, Timed, Slotted, Reached, Unused, None
  <1> QED
    BY <1>1, CloseOutputKeeps DEF FlushPacket

\* A resumed stream was configured and open.
LEMMA PumpPacketKeeps ==
  ASSUME NEW s, GoodLink(s), NEW queued
  PROVE  \A t \in PumpPacket(s, queued) : GoodLink(t)
  <1>1. CASE s.outMedia = None
    BY <1>1 DEF PumpPacket
  <1>2. CASE s.outMedia # None
    <2> DEFINE u == [s EXCEPT !.packet = TRUE]
               marked(t) == [t EXCEPT !.startReq = t.pend = "start"]
               T == SendCommand(s, "start", FALSE)
               S == {marked(t) : t \in T}
    <2>1. s.sig = "up" /\ s.outConf /\ s.outOpen
      BY <1>2 DEF GoodLink, Reached
    <2>2. GoodLink(u) /\ u.sig = "up"
      BY <2>1 DEF GoodLink, IsLink, Timed, Slotted, Reached, Unused, None
    <2>3. \A t \in FlushPacket(u) : GoodLink(t)
      BY <2>2, FlushPacketKeeps
    <2>4. \A t \in T : GoodLink(t)
      BY <2>1, SendCommandKeeps DEF Signal
    <2>5. ASSUME NEW t, GoodLink(t)
          PROVE  GoodLink(marked(t))
      BY <2>5 DEF GoodLink, IsLink, Timed, Slotted, Reached, Unused, None
    <2>6. PumpPacket(s, queued) \subseteq {s, CloseOutput(s)} \cup FlushPacket(u) \cup S
      BY DEF PumpPacket
    <2>7. GoodLink(CloseOutput(s))
      BY <2>1, CloseOutputKeeps
    <2> HIDE DEF T, marked
    <2>8. \A t \in S : GoodLink(t)
      BY <2>4, <2>5
    <2> QED
      BY <2>3, <2>6, <2>7, <2>8
  <1> QED
    BY <1>1, <1>2

\* pumpOutputAudio(): PCM is taken only for an output that is up.
LEMMA PumpKeeps ==
  ASSUME NEW s, GoodLink(s), NEW audible, NEW queued
  PROVE  \A t \in Pump(s, audible, queued) : GoodLink(t)
  <1> DEFINE off == [s EXCEPT !.outActive = FALSE]
             on == [s EXCEPT !.outActive = TRUE]
             marked(t) == [t EXCEPT !.suspReq = t.pend = "suspend"]
             T == SendCommand(s, "suspend", FALSE)
             S == {marked(t) : t \in T}
  <1>1. GoodLink(off) /\ (s.outUp => GoodLink(on))
    BY DEF GoodLink, IsLink, Timed, Slotted, Reached, Unused, None
  <1>2. \A t \in PumpPacket(s, queued) : GoodLink(t)
    BY PumpPacketKeeps
  <1>3. s.outUp => \A t \in PumpPacket(on, queued) : GoodLink(t)
    BY <1>1, PumpPacketKeeps
  <1>4. \A t \in T : GoodLink(t)
    BY SendCommandKeeps DEF Signal
  <1>5. ASSUME NEW t, GoodLink(t)
        PROVE  GoodLink(marked(t))
    BY <1>5 DEF GoodLink, IsLink, Timed, Slotted, Reached, Unused, None
  <1>6. /\ Pump(s, audible, queued) \subseteq {s, off} \cup PumpPacket(s, queued) \cup S
                                              \cup PumpPacket(on, queued)
        /\ ~s.outUp => Pump(s, audible, queued) = {s}
    BY DEF Pump
  <1> HIDE DEF T, marked
  <1>7. \A t \in S : GoodLink(t)
    BY <1>4, <1>5
  <1> QED
    BY <1>1, <1>2, <1>3, <1>6, <1>7

-----------------------------------------------------------------------------
\* The device and the audio thread do not touch the link.
LEMMA EnvironmentKeeps ==
  ASSUME GoodLink(link), Environment
  PROVE  GoodLink(link')
  <1>1. CASE DeviceAnswers
    BY <1>1 DEF DeviceAnswers, GoodLink, IsLink, Timed, Slotted, Reached, Unused, None
  <1>2. CASE DeviceCommands
    <2>1. PICK m : link' = [link EXCEPT !.fromDev = Append(@, m)]
      BY <1>2 DEF DeviceCommands
    <2> QED
      BY <2>1 DEF GoodLink, IsLink, Timed, Slotted, Reached, Unused, None
  <1>3. CASE SoundChanges
    BY <1>3 DEF SoundChanges
  <1> QED
    BY <1>1, <1>2, <1>3 DEF Environment

\* Every handler of the worker keeps a link sound.
LEMMA StepKeeps ==
  ASSUME GoodLink(link), Steps \/ ConnectTimeout \/ AnswerTimeout
  PROVE  GoodLink(link')
  <1>1. ASSUME NEW ends, AcceptSignaling(ends)
        PROVE  GoodLink(link')
    <2> DEFINE u == [Unused EXCEPT !.used = TRUE, !.sig = "up",
                                !.wantOut = "sink" \in ends, !.wantIn = ends # {"sink"},
                                !.connecting = "sink" \in ends, !.deadline = "sink" \in ends]
    <2>1. GoodLink(u)
      BY DEF GoodLink, IsLink, Timed, Slotted, Reached, Unused, None
    <2>2. link' \in DriveLink(u)
      BY <1>1 DEF AcceptSignaling, LinkBecomes
    <2> QED
      BY <2>1, <2>2, DriveLinkKeeps
  <1>2. ASSUME NEW ends, BeginConnect(ends)
        PROVE  GoodLink(link')
    <2> DEFINE u == [Unused EXCEPT !.used = TRUE, !.sig = "dialing",
                               !.connecting = TRUE, !.deadline = TRUE,
                               !.wantOut = ends # {"source"}, !.wantIn = "source" \in ends]
    <2>1. GoodLink(u) /\ u.sig = "dialing"
      BY DEF GoodLink, IsLink, Timed, Slotted, Reached, Unused, None
    <2>2. link' \in {u} \cup Connected([u EXCEPT !.sig = "up"])
      BY <1>2 DEF BeginConnect, LinkBecomes
    <2> HIDE DEF u
    <2> QED
      BY <2>1, <2>2, ConnectedKeeps
  <1>3. CASE AcceptCrossed \/ SignalingConnected
    BY <1>3, ConnectedKeeps, UnusedIsGood DEF AcceptCrossed, SignalingConnected, LinkBecomes,
       CloseLink
  <1>4. CASE AcceptMedia
    <2>1. GoodLink([link EXCEPT !.inMedia = "up"])
      BY DEF GoodLink, IsLink, Timed, Slotted, Reached, Unused, None
    <2> QED
      BY <1>4, <2>1 DEF AcceptMedia, LinkBecomes
  <1>5. CASE SignalingReadable
    <2> DEFINE m == Head(link.fromDev)
               s == [link EXCEPT !.fromDev = Tail(@)]
    <2>1. GoodLink(s) /\ s.sig = "up"
      BY <1>5 DEF SignalingReadable, GoodLink, IsLink, Timed, Slotted, Reached, Unused, None
    <2>2. link' \in IF m.kind # "answer" THEN {Commanded(s, m)}
                    ELSE IF m.live /\ m.signal = s.pend THEN LinkAnswered(s, m) ELSE {s}
      BY <1>5 DEF SignalingReadable, LinkBecomes
    <2> HIDE DEF m, s
    <2> QED
      BY <2>1, <2>2, CommandedKeeps, LinkAnsweredKeeps
  <1>6. CASE HangUp \/ ConnectTimeout \/ AnswerTimeout
    BY <1>6, UnusedIsGood DEF HangUp, ConnectTimeout, AnswerTimeout, LinkBecomes, CloseLink
  <1>7. CASE CommandWritable
    BY <1>7, FlushCommandKeeps DEF CommandWritable, LinkBecomes
  <1>8. CASE Service
    BY <1>8, DriveLinkKeeps DEF Service, LinkBecomes
  <1>9. CASE InMediaPolled
    <2>1. link' \in {EndInput(link), [link EXCEPT !.inMedia = "up"]}
      BY <1>9 DEF InMediaPolled, MediaUp, LinkBecomes
    <2>2. GoodLink([link EXCEPT !.inMedia = "up"])
      BY DEF GoodLink, IsLink, Timed, Slotted, Reached, Unused, None
    <2> QED
      BY <2>1, <2>2, EndInputKeeps
  <1>10. CASE OutMediaPolled
    <2>1. link.sig = "up" /\ link.outConf /\ link.outOpen
      BY <1>10 DEF OutMediaPolled, GoodLink, Reached, None
    <2> QED
      BY <1>10, <2>1, CloseOutputKeeps, MediaUpKeeps DEF OutMediaPolled, LinkBecomes
  <1>11. CASE InputMedia
    BY <1>11, EndInputKeeps, StartInputKeeps DEF InputMedia, LinkBecomes
  <1>12. CASE OutMediaWritable \/ OutMediaClosed
    <2>1. link.sig = "up"
      BY <1>12 DEF OutMediaWritable, OutMediaClosed, GoodLink, Reached, None
    <2> QED
      BY <1>12, <2>1, FlushPacketKeeps, CloseOutputKeeps DEF OutMediaWritable, OutMediaClosed,
         LinkBecomes
  <1>13. ASSUME NEW queued \in BOOLEAN, PumpOutput(queued)
         PROVE  GoodLink(link')
    BY <1>13, PumpKeeps DEF PumpOutput, LinkBecomes
  <1> QED
    BY <1>1, <1>2, <1>3, <1>4, <1>5, <1>6, <1>7, <1>8, <1>9, <1>10, <1>11, <1>12, <1>13 DEF Steps

\* A stream that is being set up is timed and the slots follow the link
\* (every handler of src/bluetooth/context.cpp that changes a link).
THEOREM LinkStaysSound == LinkSpec => []LinkIsSound
  <1>1. LinkInit => GoodLink(link)
    BY UnusedIsGood DEF LinkInit
  <1>2. GoodLink(link) /\ [LinkNext]_avdtpVars => GoodLink(link)'
    BY EnvironmentKeeps, StepKeeps DEF LinkNext, avdtpVars
  <1>3. GoodLink(link) => LinkIsSound
    BY DEF GoodLink, Timed, Slotted, LinkIsSound, SetupIsTimed, SlotsFollowLink
  <1> QED
    BY <1>1, <1>2, <1>3, PTL DEF LinkSpec

-----------------------------------------------------------------------------
(* The devices.                                                            *)

(* The words of the web interface, of a link, and the places of the loop.  *)
Requests == {"none", "scan", "pair", "connect", "disconnect", "unpair"}
LinkStates == {"none", "dialin", "dialout", "starting", "output", "input"}
Places == {"top", "adapter", "scan", "pair", "serve", "timers", "poll"}

(* The types of what the worker and the user share; a request that names a *)
(* device is about one.                                                    *)
RequestTypes ==
  /\ status \in [Device -> {"none", "connecting", "used"}]
  /\ ask \in [kind : Requests, device : Device \cup {All}, scanning : BOOLEAN,
              pairing : BOOLEAN, queued : BOOLEAN]
  /\ job \in [kind : Requests, device : Device \cup {All}]
  /\ ask.kind \in {"pair", "connect", "unpair"} => ask.device \in Device
  /\ job.kind \in {"pair", "connect", "unpair"} => job.device \in Device
  /\ place \in Places /\ adapter \in BOOLEAN
  /\ credit \in [{"request", "event"} -> Nat]

(* The types of the devices, of their links and of their sessions.         *)
DeviceTypes ==
  /\ dev \in [Device -> DeviceType] /\ agreed \subseteq Device
  /\ linkOf \in [Device -> LinkStates]
  /\ session \in [Device -> {"none", "dialling", "up"}]

(* The types of what the two threads that save share.                      *)
FileTypes ==
  /\ stale \subseteq Device /\ temp \in [Thread -> SUBSET Device]
  /\ save \in [Thread -> {"no", "wanted", "writing"}] /\ unsaved \in BOOLEAN

(* A line of the file is out of date only while somebody is to save or a   *)
(* save has failed, a line of the copy that is being written only while    *)
(* the other thread is to save again.                                      *)
SavesFollow ==
  /\ \A t \in Thread : save[t] # "writing" => temp[t] = {}
  /\ stale # {} => unsaved \/ \E t \in Thread : save[t] # "no"
  /\ \A t \in Thread : temp[t] # {} => \E u \in Thread : save[u] = "wanted"

(* No more links and no more devices than there is room for.               *)
Limits == Cardinality(Links) <= MaxLinks /\ Cardinality(Listed) <= MaxDevices

(* What every step of the manager keeps: the types, with them what a save  *)
(* owes the file, and the parts of DevicesAgree.                           *)
ManagerInv ==
  /\ RequestTypes /\ DeviceTypes /\ FileTypes
  /\ SavesFollow /\ SessionsArePaired /\ BusyIsOwed /\ Limits

-----------------------------------------------------------------------------
(* The links keep to their limit when none is added...                     *)
LEMMA NoMoreLinks ==
  ASSUME Limits, \A e \in Device : linkOf'[e] # "none" => linkOf[e] # "none"
  PROVE  Cardinality(Links)' <= MaxLinks
  <1>1. IsFiniteSet(Links) /\ Links' \subseteq Links
    BY ManagerAssumption, FS_Subset DEF Links
  <1>2. Cardinality(Links') <= Cardinality(Links) /\ IsFiniteSet(Links')
    BY <1>1, FS_Subset
  <1>3. Cardinality(Links) \in Nat /\ Cardinality(Links') \in Nat
    BY <1>1, <1>2, FS_CardinalityType
  <1> QED BY <1>2, <1>3, ManagerAssumption DEF Limits

(* ... and when one is added for which there was room.                     *)
LEMMA OneMoreLink ==
  ASSUME NEW d \in Device, Cardinality(Links) < MaxLinks,
         \A e \in Device \ {d} : linkOf'[e] # "none" => linkOf[e] # "none"
  PROVE  Cardinality(Links)' <= MaxLinks
  <1>1. IsFiniteSet(Links) /\ Links' \subseteq Links \cup {d}
    BY ManagerAssumption, FS_Subset DEF Links
  <1>2. /\ IsFiniteSet(Links \cup {d}) /\ Cardinality(Links) \in Nat
        /\ Cardinality(Links \cup {d}) <= Cardinality(Links) + 1
    <2>1. Cardinality(Links) \in Nat
      BY <1>1, FS_CardinalityType
    <2>2. /\ IsFiniteSet(Links \cup {d})
          /\ \/ Cardinality(Links \cup {d}) = Cardinality(Links)
             \/ Cardinality(Links \cup {d}) = Cardinality(Links) + 1
      BY <1>1, FS_AddElement
    <2> QED BY <2>1, <2>2
  <1>3. Cardinality(Links') <= Cardinality(Links \cup {d}) /\ IsFiniteSet(Links')
    BY <1>1, <1>2, FS_Subset
  <1>4. Cardinality(Links \cup {d}) \in Nat /\ Cardinality(Links') \in Nat
    BY <1>2, <1>3, FS_CardinalityType
  <1> QED BY <1>2, <1>3, <1>4, ManagerAssumption

(* So does the list of devices when none is added...                       *)
LEMMA NoMoreListed ==
  ASSUME Limits, \A e \in Device : dev'[e].state # "none" => dev[e].state # "none"
  PROVE  Cardinality(Listed)' <= MaxDevices
  <1>1. IsFiniteSet(Listed) /\ Listed' \subseteq Listed
    BY ManagerAssumption, FS_Subset DEF Listed
  <1>2. Cardinality(Listed') <= Cardinality(Listed) /\ IsFiniteSet(Listed')
    BY <1>1, FS_Subset
  <1>3. Cardinality(Listed) \in Nat /\ Cardinality(Listed') \in Nat
    BY <1>1, <1>2, FS_CardinalityType
  <1> QED BY <1>2, <1>3, ManagerAssumption DEF Limits

(* ... and when one is added for which there was room.                     *)
LEMMA OneMoreListed ==
  ASSUME NEW d \in Device, Cardinality(Listed) < MaxDevices,
         \A e \in Device \ {d} : dev'[e].state # "none" => dev[e].state # "none"
  PROVE  Cardinality(Listed)' <= MaxDevices
  <1>1. IsFiniteSet(Listed) /\ Listed' \subseteq Listed \cup {d}
    BY ManagerAssumption, FS_Subset DEF Listed
  <1>2. /\ IsFiniteSet(Listed \cup {d}) /\ Cardinality(Listed) \in Nat
        /\ Cardinality(Listed \cup {d}) <= Cardinality(Listed) + 1
    <2>1. Cardinality(Listed) \in Nat
      BY <1>1, FS_CardinalityType
    <2>2. /\ IsFiniteSet(Listed \cup {d})
          /\ \/ Cardinality(Listed \cup {d}) = Cardinality(Listed)
             \/ Cardinality(Listed \cup {d}) = Cardinality(Listed) + 1
      BY <1>1, FS_AddElement
    <2> QED BY <2>1, <2>2
  <1>3. Cardinality(Listed') <= Cardinality(Listed \cup {d}) /\ IsFiniteSet(Listed')
    BY <1>1, <1>2, FS_Subset
  <1>4. Cardinality(Listed \cup {d}) \in Nat /\ Cardinality(Listed') \in Nat
    BY <1>2, <1>3, FS_CardinalityType
  <1> QED BY <1>2, <1>3, <1>4, ManagerAssumption

-----------------------------------------------------------------------------
(* Remember() and the save its caller asks for: the lines that are out of  *)
(* date are owed to the thread that is to save.                            *)
LEMMA RememberedIsOwed ==
  ASSUME FileTypes, SavesFollow, dev \in [Device -> DeviceType],
         NEW d \in Device, NEW r \in DeviceType, Remember(d, r),
         NEW t \in Thread, save[t] = "no", Want(t)
  PROVE  /\ FileTypes' /\ SavesFollow' /\ dev' \in [Device -> DeviceType]
         /\ dev'[d] = r /\ \A e \in Device \ {d} : dev'[e] = dev[e]
  <1>1. /\ dev' \in [Device -> DeviceType]
        /\ dev'[d] = r /\ \A e \in Device \ {d} : dev'[e] = dev[e]
    BY DEF Remember
  <1>2. /\ save' \in [Thread -> {"no", "wanted", "writing"}] /\ save'[t] = "wanted"
        /\ \A u \in Thread \ {t} : save'[u] = save[u]
    BY DEF Want, FileTypes
  <1>3. /\ stale' \subseteq Device /\ unsaved' = unsaved /\ temp' \in [Thread -> SUBSET Device]
        /\ \A u \in Thread : save[u] # "writing" => temp'[u] = {}
    BY DEF Remember, FileTypes, SavesFollow
  <1> QED BY <1>1, <1>2, <1>3 DEF FileTypes, SavesFollow

(* setDeviceRoles() changes the roles of a device only.                    *)
LEMMA RolesAreOwed ==
  ASSUME FileTypes, SavesFollow, dev \in [Device -> DeviceType], AtWork,
         NEW d \in Device, NEW roles \in SUBSET {"source", "sink"}, SetRoles(d, roles)
  PROVE  /\ FileTypes' /\ SavesFollow' /\ dev' \in [Device -> DeviceType]
         /\ \A e \in Device : dev'[e].state = dev[e].state
  <1>1. CASE UNCHANGED <<dev, save, fileVars>>
    BY <1>1 DEF FileTypes, SavesFollow, fileVars
  <1>2. CASE ~UNCHANGED <<dev, save, fileVars>>
    <2> DEFINE r == [dev[d] EXCEPT !.roles = roles]
    <2>1. Remember(d, r) /\ IF Paired(d) THEN Want("worker") ELSE UNCHANGED save
      BY <1>2 DEF SetRoles
    <2>2. r \in DeviceType /\ r.state = dev[d].state
      BY DEF DeviceType
    <2> HIDE DEF r
    <2>3. CASE Paired(d)
      <3>1. "worker" \in Thread /\ save["worker"] = "no" /\ Want("worker")
        BY <2>1, <2>3 DEF AtWork, Thread
      <3> QED BY <2>1, <2>2, <3>1, RememberedIsOwed
    <2>4. CASE ~Paired(d)
      <3>1. Entry(r) = Entry(dev[d])
        BY <2>2, <2>4 DEF Entry, Paired
      <3>2. UNCHANGED <<temp, stale, unsaved, save>> /\ dev' = [dev EXCEPT ![d] = r]
        BY <2>1, <2>4, <3>1 DEF Remember
      <3> QED BY <2>2, <3>2 DEF FileTypes, SavesFollow
    <2> QED BY <2>3, <2>4
  <1> QED BY <1>1, <1>2

(* One thread writes at a time; the copy it takes is up to date.           *)
LEMMA BeginSaveKeeps ==
  ASSUME ManagerInv, NEW t \in Thread, BeginSave(t), credit' \in [{"request", "event"} -> Nat]
  PROVE  ManagerInv'
  <1>1. RequestTypes'
    BY DEF BeginSave, ManagerInv, RequestTypes
  <1>2. DeviceTypes'
    BY DEF BeginSave, ManagerInv, DeviceTypes, deviceVars, linkVars
  <1>3. FileTypes'
    BY DEF BeginSave, ManagerInv, FileTypes, fileVars
  <1>4. SavesFollow'
    BY DEF BeginSave, ManagerInv, SavesFollow, fileVars
  <1>5. SessionsArePaired'
    BY DEF BeginSave, ManagerInv, SessionsArePaired, Paired, deviceVars, linkVars
  <1>6. BusyIsOwed'
    BY DEF BeginSave, ManagerInv, BusyIsOwed
  <1>7. Limits'
    BY DEF BeginSave, ManagerInv, Limits, Links, Listed, deviceVars, linkVars
  <1> QED BY <1>1, <1>2, <1>3, <1>4, <1>5, <1>6, <1>7 DEF ManagerInv

(* The file is the copy, which is out of date only while the other thread  *)
(* is to save.                                                             *)
LEMMA EndSaveKeeps ==
  ASSUME ManagerInv, NEW t \in Thread, EndSave(t), credit' \in [{"request", "event"} -> Nat]
  PROVE  ManagerInv'
  <1>1. RequestTypes'
    BY DEF EndSave, ManagerInv, RequestTypes
  <1>2. DeviceTypes'
    BY DEF EndSave, ManagerInv, DeviceTypes, deviceVars, linkVars
  <1>3. FileTypes'
    BY DEF EndSave, ManagerInv, FileTypes
  <1>4. SavesFollow'
    BY DEF EndSave, ManagerInv, SavesFollow, FileTypes
  <1>5. SessionsArePaired'
    BY DEF EndSave, ManagerInv, SessionsArePaired, Paired, deviceVars, linkVars
  <1>6. BusyIsOwed'
    BY DEF EndSave, ManagerInv, BusyIsOwed
  <1>7. Limits'
    BY DEF EndSave, ManagerInv, Limits, Links, Listed, deviceVars, linkVars
  <1> QED BY <1>1, <1>2, <1>3, <1>4, <1>5, <1>6, <1>7 DEF ManagerInv

(* A scan is asked for when nothing else is.                               *)
LEMMA RequestScanKeeps ==
  ASSUME ManagerInv, RequestScan, credit' \in [{"request", "event"} -> Nat]
  PROVE  ManagerInv'
  <1>1. RequestTypes'
    BY DEF RequestScan, Ask, NoAudio, Occupied, ManagerInv, RequestTypes, Requests
  <1>2. DeviceTypes'
    BY DEF RequestScan, Ask, ManagerInv, DeviceTypes, linkVars
  <1>3. FileTypes'
    BY DEF RequestScan, Ask, ManagerInv, FileTypes, fileVars
  <1>4. SavesFollow'
    BY DEF RequestScan, Ask, ManagerInv, SavesFollow, fileVars
  <1>5. SessionsArePaired'
    BY DEF RequestScan, Ask, ManagerInv, SessionsArePaired, Paired, linkVars
  <1>6. BusyIsOwed'
    BY DEF RequestScan, Ask, NoAudio, Occupied, ManagerInv, BusyIsOwed, RequestTypes
  <1>7. Limits'
    BY DEF RequestScan, Ask, ManagerInv, Limits, Links, Listed, linkVars
  <1> QED BY <1>1, <1>2, <1>3, <1>4, <1>5, <1>6, <1>7 DEF ManagerInv

(* So is a pairing.                                                        *)
LEMMA RequestPairKeeps ==
  ASSUME ManagerInv, NEW d \in Device, RequestPair(d), credit' \in [{"request", "event"} -> Nat]
  PROVE  ManagerInv'
  <1>1. RequestTypes'
    BY DEF RequestPair, Ask, ManagerInv, RequestTypes, Requests
  <1>2. DeviceTypes'
    BY DEF RequestPair, Ask, ManagerInv, DeviceTypes, linkVars
  <1>3. FileTypes'
    BY DEF RequestPair, Ask, ManagerInv, FileTypes, fileVars
  <1>4. SavesFollow'
    BY DEF RequestPair, Ask, ManagerInv, SavesFollow, fileVars
  <1>5. SessionsArePaired'
    BY DEF RequestPair, Ask, ManagerInv, SessionsArePaired, Paired, linkVars
  <1>6. BusyIsOwed'
    BY DEF RequestPair, Ask, NoAudio, Occupied, ManagerInv, BusyIsOwed, RequestTypes
  <1>7. Limits'
    BY DEF RequestPair, Ask, ManagerInv, Limits, Links, Listed, linkVars
  <1> QED BY <1>1, <1>2, <1>3, <1>4, <1>5, <1>6, <1>7 DEF ManagerInv

(* A device that is to be dialled is held no longer.                       *)
LEMMA RequestConnectKeeps ==
  ASSUME ManagerInv, NEW d \in Device, RequestConnect(d),
         credit' \in [{"request", "event"} -> Nat]
  PROVE  ManagerInv'
  <1>1. RequestTypes'
    BY DEF RequestConnect, Ask, ManagerInv, RequestTypes, Requests
  <1>2. DeviceTypes'
    BY DEF RequestConnect, Ask, Occupied, Paired, ManagerInv, DeviceTypes, LinkStates, DeviceType,
       deviceVars, linkVars, fileVars
  <1>3. FileTypes'
    BY DEF RequestConnect, Ask, ManagerInv, FileTypes, fileVars
  <1>4. SavesFollow'
    BY DEF RequestConnect, Ask, ManagerInv, SavesFollow, fileVars
  <1>5. SessionsArePaired'
    BY DEF RequestConnect, Ask, ManagerInv, SessionsArePaired, Paired, linkVars
  <1>6. BusyIsOwed'
    BY DEF RequestConnect, Ask, Occupied, ManagerInv, BusyIsOwed, RequestTypes
  <1>7. Limits'
    <2>1. linkOf' = linkOf /\ \A e \in Device : dev'[e].state = dev[e].state
      BY DEF RequestConnect, Ask, linkVars
    <2> QED BY <2>1, NoMoreLinks, NoMoreListed DEF ManagerInv, Limits
  <1> QED BY <1>1, <1>2, <1>3, <1>4, <1>5, <1>6, <1>7 DEF ManagerInv

(* A link that is to be closed is asked for by its device, or all are.     *)
LEMMA RequestDisconnectKeeps ==
  ASSUME ManagerInv, NEW d \in Device \cup {All}, RequestDisconnect(d),
         credit' \in [{"request", "event"} -> Nat]
  PROVE  ManagerInv'
  <1>1. RequestTypes'
    BY DEF RequestDisconnect, Ask, ManagerInv, RequestTypes, Requests
  <1>2. DeviceTypes'
    BY DEF RequestDisconnect, Ask, ManagerInv, DeviceTypes, linkVars
  <1>3. FileTypes'
    BY DEF RequestDisconnect, Ask, ManagerInv, FileTypes, fileVars
  <1>4. SavesFollow'
    BY DEF RequestDisconnect, Ask, ManagerInv, SavesFollow, fileVars
  <1>5. SessionsArePaired'
    BY DEF RequestDisconnect, Ask, ManagerInv, SessionsArePaired, Paired, linkVars
  <1>6. BusyIsOwed'
    BY DEF RequestDisconnect, Ask, Occupied, ManagerInv, BusyIsOwed, RequestTypes
  <1>7. Limits'
    BY DEF RequestDisconnect, Ask, ManagerInv, Limits, Links, Listed, linkVars
  <1> QED BY <1>1, <1>2, <1>3, <1>4, <1>5, <1>6, <1>7 DEF ManagerInv

(* A paired device is to be forgotten.                                     *)
LEMMA RequestUnpairKeeps ==
  ASSUME ManagerInv, NEW d \in Device, RequestUnpair(d), credit' \in [{"request", "event"} -> Nat]
  PROVE  ManagerInv'
  <1>1. RequestTypes'
    BY DEF RequestUnpair, Ask, ManagerInv, RequestTypes, Requests
  <1>2. DeviceTypes'
    BY DEF RequestUnpair, Ask, ManagerInv, DeviceTypes, linkVars
  <1>3. FileTypes'
    BY DEF RequestUnpair, Ask, ManagerInv, FileTypes, fileVars
  <1>4. SavesFollow'
    BY DEF RequestUnpair, Ask, ManagerInv, SavesFollow, fileVars
  <1>5. SessionsArePaired'
    BY DEF RequestUnpair, Ask, ManagerInv, SessionsArePaired, Paired, linkVars
  <1>6. BusyIsOwed'
    BY DEF RequestUnpair, Ask, Occupied, ManagerInv, BusyIsOwed, RequestTypes
  <1>7. Limits'
    BY DEF RequestUnpair, Ask, ManagerInv, Limits, Links, Listed, linkVars
  <1> QED BY <1>1, <1>2, <1>3, <1>4, <1>5, <1>6, <1>7 DEF ManagerInv

(* The caller changes a paired device, and saves it.                       *)
LEMMA RequestAutoConnectKeeps ==
  ASSUME ManagerInv, NEW d \in Device, NEW enabled \in BOOLEAN, RequestAutoConnect(d, enabled),
         credit' \in [{"request", "event"} -> Nat]
  PROVE  ManagerInv'
  <1>1. /\ FileTypes' /\ SavesFollow' /\ dev' \in [Device -> DeviceType]
        /\ \A e \in Device : dev'[e].state = dev[e].state
    <2> DEFINE r == [dev[d] EXCEPT !.auto = enabled, !.held = @ /\ ~enabled]
    <2>1. r \in DeviceType /\ r.state = dev[d].state
      BY DEF ManagerInv, DeviceTypes, DeviceType
    <2>2. "user" \in Thread /\ save["user"] = "no" /\ Remember(d, r) /\ Want("user")
      BY DEF RequestAutoConnect, User, Thread
    <2> HIDE DEF r
    <2> QED BY <2>1, <2>2, RememberedIsOwed DEF ManagerInv, DeviceTypes
  <1>2. RequestTypes'
    BY DEF RequestAutoConnect, ManagerInv, RequestTypes
  <1>3. DeviceTypes'
    BY <1>1 DEF RequestAutoConnect, ManagerInv, DeviceTypes, deviceVars, linkVars
  <1>4. FileTypes'
    BY <1>1
  <1>5. SavesFollow'
    BY <1>1
  <1>6. SessionsArePaired'
    BY <1>1 DEF RequestAutoConnect, ManagerInv, SessionsArePaired, Paired, deviceVars, linkVars
  <1>7. BusyIsOwed'
    BY DEF RequestAutoConnect, ManagerInv, BusyIsOwed, RequestTypes, deviceVars, linkVars,
       fileVars
  <1>8. Limits'
    BY <1>1, NoMoreLinks, NoMoreListed DEF RequestAutoConnect, ManagerInv, Limits, linkVars
  <1> QED BY <1>2, <1>3, <1>4, <1>5, <1>6, <1>7, <1>8 DEF ManagerInv

(* The worker takes what is asked for.                                     *)
LEMMA TakeRequestKeeps ==
  ASSUME ManagerInv, TakeRequest, credit' \in [{"request", "event"} -> Nat]
  PROVE  ManagerInv'
  <1>1. RequestTypes'
    BY DEF TakeRequest, GoesTo, ManagerInv, RequestTypes, Requests, Places
  <1>2. DeviceTypes'
    BY DEF TakeRequest, ManagerInv, DeviceTypes, deviceVars, linkVars
  <1>3. FileTypes'
    BY DEF TakeRequest, ManagerInv, FileTypes, fileVars
  <1>4. SavesFollow'
    BY DEF TakeRequest, ManagerInv, SavesFollow, fileVars
  <1>5. SessionsArePaired'
    BY DEF TakeRequest, ManagerInv, SessionsArePaired, Paired, deviceVars, linkVars
  <1>6. BusyIsOwed'
    BY DEF TakeRequest, GoesTo, ManagerInv, BusyIsOwed
  <1>7. Limits'
    BY DEF TakeRequest, ManagerInv, Limits, Links, Listed, deviceVars, linkVars
  <1> QED BY <1>1, <1>2, <1>3, <1>4, <1>5, <1>6, <1>7 DEF ManagerInv

(* The adapter is there, or not yet.                                       *)
LEMMA BringUpKeeps ==
  ASSUME ManagerInv, BringUp, credit' \in [{"request", "event"} -> Nat]
  PROVE  ManagerInv'
  <1>1. RequestTypes'
    BY DEF BringUp, GoesTo, ManagerInv, RequestTypes, Places
  <1>2. DeviceTypes'
    BY DEF BringUp, ManagerInv, DeviceTypes, deviceVars, linkVars
  <1>3. FileTypes'
    BY DEF BringUp, ManagerInv, FileTypes, fileVars
  <1>4. SavesFollow'
    BY DEF BringUp, ManagerInv, SavesFollow, fileVars
  <1>5. SessionsArePaired'
    BY DEF BringUp, ManagerInv, SessionsArePaired, Paired, deviceVars, linkVars
  <1>6. BusyIsOwed'
    BY DEF BringUp, GoesTo, ManagerInv, BusyIsOwed
  <1>7. Limits'
    BY DEF BringUp, ManagerInv, Limits, Links, Listed, deviceVars, linkVars
  <1> QED BY <1>1, <1>2, <1>3, <1>4, <1>5, <1>6, <1>7 DEF ManagerInv

(* Without an adapter nothing is scanned or paired.                        *)
LEMMA BringUpFailsKeeps ==
  ASSUME ManagerInv, BringUpFails, credit' \in [{"request", "event"} -> Nat]
  PROVE  ManagerInv'
  <1>1. RequestTypes'
    BY DEF BringUpFails, NoJob, ManagerInv, RequestTypes, Requests, Places
  <1>2. DeviceTypes'
    BY DEF BringUpFails, ManagerInv, DeviceTypes, deviceVars, linkVars
  <1>3. FileTypes'
    BY DEF BringUpFails, ManagerInv, FileTypes, fileVars
  <1>4. SavesFollow'
    BY DEF BringUpFails, ManagerInv, SavesFollow, fileVars
  <1>5. SessionsArePaired'
    BY DEF BringUpFails, ManagerInv, SessionsArePaired, Paired, deviceVars, linkVars
  <1>6. BusyIsOwed'
    BY DEF BringUpFails, ManagerInv, BusyIsOwed
  <1>7. Limits'
    BY DEF BringUpFails, ManagerInv, Limits, Links, Listed, deviceVars, linkVars
  <1> QED BY <1>1, <1>2, <1>3, <1>4, <1>5, <1>6, <1>7 DEF ManagerInv

(* A pairing ends.                                                         *)
LEMMA PairEndsKeeps ==
  ASSUME ManagerInv, PairEnds, credit' \in [{"request", "event"} -> Nat]
  PROVE  ManagerInv'
  <1>1. RequestTypes'
    BY DEF PairEnds, ManagerInv, RequestTypes, Places
  <1>2. DeviceTypes'
    BY DEF PairEnds, ManagerInv, DeviceTypes, deviceVars, linkVars
  <1>3. FileTypes'
    BY DEF PairEnds, ManagerInv, FileTypes, fileVars
  <1>4. SavesFollow'
    BY DEF PairEnds, ManagerInv, SavesFollow, fileVars
  <1>5. SessionsArePaired'
    BY DEF PairEnds, ManagerInv, SessionsArePaired, Paired, deviceVars, linkVars
  <1>6. BusyIsOwed'
    BY DEF PairEnds, ManagerInv, BusyIsOwed
  <1>7. Limits'
    BY DEF PairEnds, ManagerInv, Limits, Links, Listed, deviceVars, linkVars
  <1> QED BY <1>1, <1>2, <1>3, <1>4, <1>5, <1>6, <1>7 DEF ManagerInv

(* Paired devices stay, others are listed as far as there is room.         *)
LEMMA RunScanKeeps ==
  ASSUME ManagerInv, NEW found \in SUBSET Device, RunScan(found),
         credit' \in [{"request", "event"} -> Nat]
  PROVE  ManagerInv'
  <1>1. RequestTypes'
    BY DEF RunScan, ManagerInv, RequestTypes, Places
  <1>2. DeviceTypes'
    <2>1. Unlisted \in DeviceType /\ [Unlisted EXCEPT !.state = "found"] \in DeviceType
      BY DEF Unlisted, DeviceType
    <2>2. dev' \in [Device -> DeviceType]
      BY <2>1 DEF RunScan, ManagerInv, DeviceTypes
    <2> QED BY <2>2 DEF RunScan, ManagerInv, DeviceTypes, linkVars
  <1>3. FileTypes'
    BY DEF RunScan, ManagerInv, FileTypes, fileVars
  <1>4. SavesFollow'
    BY DEF RunScan, ManagerInv, SavesFollow, fileVars
  <1>5. SessionsArePaired'
    BY DEF RunScan, ManagerInv, SessionsArePaired, Paired, deviceVars, linkVars
  <1>6. BusyIsOwed'
    BY DEF RunScan, ManagerInv, BusyIsOwed
  <1>7. Limits'
    <2>1. PICK new \in SUBSET found :
            /\ Cardinality({e \in Device : Paired(e)} \cup new) <= MaxDevices
            /\ \A e \in Device : ~Paired(e) /\ e \notin new => dev'[e] = Unlisted
            /\ \A e \in Device : Paired(e) => dev'[e] = dev[e]
            /\ \A e \in new : ~Paired(e) => dev'[e] = [Unlisted EXCEPT !.state = "found"]
      BY DEF RunScan, ManagerInv, DeviceTypes
    <2>2. Listed' = {e \in Device : Paired(e)} \cup new
      BY <2>1 DEF Listed, Unlisted, Paired
    <2>3. Cardinality(Links)' <= MaxLinks
      BY NoMoreLinks DEF RunScan, ManagerInv, linkVars
    <2> QED BY <2>1, <2>2, <2>3 DEF Limits
  <1> QED BY <1>1, <1>2, <1>3, <1>4, <1>5, <1>6, <1>7 DEF ManagerInv

(* A device is dialled when there is room for a link.                      *)
LEMMA ServeConnectKeeps ==
  ASSUME ManagerInv, ServeConnect, credit' \in [{"request", "event"} -> Nat]
  PROVE  ManagerInv'
  <1>1. RequestTypes'
    BY DEF ServeConnect, ManagerInv, RequestTypes, Places
  <1>2. DeviceTypes'
    BY DEF ServeConnect, Dial, ManagerInv, DeviceTypes, LinkStates, deviceVars
  <1>3. FileTypes'
    BY DEF ServeConnect, ManagerInv, FileTypes, fileVars
  <1>4. SavesFollow'
    BY DEF ServeConnect, ManagerInv, SavesFollow, fileVars
  <1>5. SessionsArePaired'
    BY DEF ServeConnect, ManagerInv, SessionsArePaired, Paired, deviceVars
  <1>6. BusyIsOwed'
    BY DEF ServeConnect, ManagerInv, BusyIsOwed
  <1>7. Limits'
    <2>1. CASE Dial(job.device)
      <3>1. job.device \in Device
        BY <2>1 DEF ServeConnect, ManagerInv, RequestTypes
      <3>2. \A e \in Device \ {job.device} : linkOf'[e] = linkOf[e]
        BY <2>1 DEF Dial, ManagerInv, DeviceTypes
      <3> QED BY <2>1, <3>1, <3>2, OneMoreLink, NoMoreListed DEF Dial, ServeConnect, deviceVars,
                 ManagerInv, Limits
    <2>2. CASE UNCHANGED linkOf
      BY <2>2, NoMoreLinks, NoMoreListed DEF ServeConnect, deviceVars, ManagerInv, Limits
    <2> QED BY <2>1, <2>2 DEF ServeConnect
  <1> QED BY <1>1, <1>2, <1>3, <1>4, <1>5, <1>6, <1>7 DEF ManagerInv

(* What is published is what the links are.                                *)
LEMMA PublishKeeps ==
  ASSUME ManagerInv, Publish, credit' \in [{"request", "event"} -> Nat]
  PROVE  ManagerInv'
  <1>1. RequestTypes'
    BY DEF Publish, NoJob, ManagerInv, RequestTypes, Requests, Places
  <1>2. DeviceTypes'
    BY DEF Publish, ManagerInv, DeviceTypes, deviceVars, linkVars
  <1>3. FileTypes'
    BY DEF Publish, ManagerInv, FileTypes, fileVars
  <1>4. SavesFollow'
    BY DEF Publish, ManagerInv, SavesFollow, fileVars
  <1>5. SessionsArePaired'
    BY DEF Publish, NoJob, ManagerInv, SessionsArePaired, Paired, deviceVars, linkVars
  <1>6. BusyIsOwed'
    BY DEF Publish, NoJob, ManagerInv, BusyIsOwed, RequestTypes
  <1>7. Limits'
    BY DEF Publish, NoJob, ManagerInv, Limits, Links, Listed, deviceVars, linkVars
  <1> QED BY <1>1, <1>2, <1>3, <1>4, <1>5, <1>6, <1>7 DEF ManagerInv

(* The turn ends.                                                          *)
LEMMA EndTurnKeeps ==
  ASSUME ManagerInv, EndTurn, credit' \in [{"request", "event"} -> Nat]
  PROVE  ManagerInv'
  <1>1. RequestTypes'
    BY DEF EndTurn, ManagerInv, RequestTypes, Places
  <1>2. DeviceTypes'
    BY DEF EndTurn, ManagerInv, DeviceTypes, deviceVars, linkVars
  <1>3. FileTypes'
    BY DEF EndTurn, ManagerInv, FileTypes, fileVars
  <1>4. SavesFollow'
    BY DEF EndTurn, ManagerInv, SavesFollow, fileVars
  <1>5. SessionsArePaired'
    BY DEF EndTurn, ManagerInv, SessionsArePaired, Paired, deviceVars, linkVars
  <1>6. BusyIsOwed'
    BY DEF EndTurn, ManagerInv, BusyIsOwed
  <1>7. Limits'
    BY DEF EndTurn, ManagerInv, Limits, Links, Listed, deviceVars, linkVars
  <1> QED BY <1>1, <1>2, <1>3, <1>4, <1>5, <1>6, <1>7 DEF ManagerInv

(* The links of the target are closed with their sessions.                 *)
LEMMA ServeDisconnectKeeps ==
  ASSUME ManagerInv, ServeDisconnect, credit' \in [{"request", "event"} -> Nat]
  PROVE  ManagerInv'
  <1>1. RequestTypes'
    BY DEF ServeDisconnect, ManagerInv, RequestTypes, Places
  <1>2. DeviceTypes'
    <2>1. \A e \in Device : [dev[e] EXCEPT !.held = TRUE] \in DeviceType
      BY DEF ManagerInv, DeviceTypes, DeviceType
    <2>2. dev' \in [Device -> DeviceType]
      BY <2>1 DEF ServeDisconnect, ManagerInv, DeviceTypes
    <2> QED BY <2>2 DEF ServeDisconnect, Dropped, ManagerInv, DeviceTypes, LinkStates
  <1>3. FileTypes'
    BY DEF ServeDisconnect, ManagerInv, FileTypes, fileVars
  <1>4. SavesFollow'
    BY DEF ServeDisconnect, ManagerInv, SavesFollow, fileVars
  <1>5. SessionsArePaired'
    <2>1. \A e \in Device : dev'[e].state = dev[e].state
      BY DEF ServeDisconnect
    <2>2. \A e \in Device : session'[e] # "none" => session'[e] = session[e]
      BY DEF ServeDisconnect, Dropped
    <2> QED BY <2>1, <2>2 DEF SessionsArePaired, Paired, ManagerInv
  <1>6. BusyIsOwed'
    BY DEF ServeDisconnect, ManagerInv, BusyIsOwed
  <1>7. Limits'
    <2>1. \A e \in Device : dev'[e].state = dev[e].state
      BY DEF ServeDisconnect
    <2>2. \A e \in Device : linkOf'[e] # "none" => linkOf'[e] = linkOf[e]
      BY DEF ServeDisconnect
    <2> QED BY <2>1, <2>2, NoMoreLinks, NoMoreListed DEF Limits, ManagerInv
  <1> QED BY <1>1, <1>2, <1>3, <1>4, <1>5, <1>6, <1>7 DEF ManagerInv

(* A device is forgotten with its link and its session.                    *)
LEMMA ServeUnpairKeeps ==
  ASSUME ManagerInv, ServeUnpair, credit' \in [{"request", "event"} -> Nat]
  PROVE  ManagerInv'
  <1> DEFINE d == job.device
  <1>1. d \in Device
    BY DEF ServeUnpair, ManagerInv, RequestTypes
  <1>2. /\ FileTypes' /\ SavesFollow' /\ dev' \in [Device -> DeviceType]
        /\ dev'[d].state # "none" => dev[d].state # "none"
        /\ \A e \in Device \ {d} : dev'[e] = dev[e]
    <2> DEFINE was == IF dev[d].state = "paired" THEN "found" ELSE dev[d].state
               hold == dev[d].held \/ (linkOf[d] # "none" /\ dev[d].state # "none")
               r == [dev[d] EXCEPT !.state = IF @ = "paired" THEN "found" ELSE @,
                                   !.held = @ \/ (linkOf[d] # "none" /\ dev[d].state # "none")]
    <2>1. dev[d] \in DeviceType
      BY <1>1 DEF ManagerInv, DeviceTypes
    <2>2. r = [dev[d] EXCEPT !.state = was, !.held = hold]
      OBVIOUS
    <2>3. was \in {"none", "found", "paired"} /\ hold \in BOOLEAN
          /\ (was # "none" => dev[d].state # "none")
      BY <2>1 DEF DeviceType
    <2> HIDE DEF was, hold
    <2>5. r \in DeviceType /\ r.state = was
      BY <2>1, <2>2, <2>3 DEF DeviceType
    <2>4. "worker" \in Thread /\ save["worker"] = "no" /\ Remember(d, r) /\ Want("worker")
      BY DEF ServeUnpair, AtWork, Thread
    <2> HIDE DEF r, d
    <2> QED BY <1>1, <2>3, <2>4, <2>5, RememberedIsOwed DEF ManagerInv, DeviceTypes
  <1>3. /\ linkOf' = [linkOf EXCEPT ![d] = "none"] /\ session' = Dropped({d})
        /\ UNCHANGED <<status, ask, adapter, job, agreed>> /\ place' = "timers"
        /\ job.kind = "unpair" /\ place = "serve"
    BY DEF ServeUnpair
  <1> HIDE DEF d
  <1>4. RequestTypes'
    BY <1>3 DEF ManagerInv, RequestTypes, Places
  <1>5. DeviceTypes'
    <2>1. linkOf' \in [Device -> LinkStates]
      BY <1>1, <1>3 DEF ManagerInv, DeviceTypes, LinkStates
    <2>2. session' \in [Device -> {"none", "dialling", "up"}]
      BY <1>3 DEF Dropped, ManagerInv, DeviceTypes
    <2> QED BY <1>2, <1>3, <2>1, <2>2 DEF ManagerInv, DeviceTypes, LinkStates
  <1>6. FileTypes'
    BY <1>2
  <1>7. SavesFollow'
    BY <1>2
  <1>8. SessionsArePaired'
    <2>1. \A e \in Device : session'[e] # "none" => e # d /\ session[e] # "none"
      BY <1>3 DEF Dropped
    <2> QED BY <1>2, <2>1 DEF SessionsArePaired, Paired, ManagerInv
  <1>9. BusyIsOwed'
    BY <1>3 DEF ManagerInv, BusyIsOwed
  <1>10. Limits'
    <2>1. \A e \in Device : linkOf'[e] # "none" => linkOf'[e] = linkOf[e]
      BY <1>1, <1>3 DEF ManagerInv, DeviceTypes
    <2>2. \A e \in Device : dev'[e].state # "none" => dev[e].state # "none"
      BY <1>2
    <2> QED BY <2>1, <2>2, NoMoreLinks, NoMoreListed DEF Limits, ManagerInv
  <1> QED BY <1>4, <1>5, <1>6, <1>7, <1>8, <1>9, <1>10 DEF ManagerInv

(* One device at a time is dialled without a request.                      *)
LEMMA AutoConnectKeeps ==
  ASSUME ManagerInv, NEW d \in Device, AutoConnect(d), credit' \in [{"request", "event"} -> Nat]
  PROVE  ManagerInv'
  <1>1. RequestTypes'
    BY DEF AutoConnect, ManagerInv, RequestTypes
  <1>2. DeviceTypes'
    BY DEF AutoConnect, Dial, ManagerInv, DeviceTypes, LinkStates, deviceVars
  <1>3. FileTypes'
    BY DEF AutoConnect, ManagerInv, FileTypes, fileVars
  <1>4. SavesFollow'
    BY DEF AutoConnect, ManagerInv, SavesFollow, fileVars
  <1>5. SessionsArePaired'
    BY DEF AutoConnect, ManagerInv, SessionsArePaired, Paired, deviceVars
  <1>6. BusyIsOwed'
    BY DEF AutoConnect, ManagerInv, BusyIsOwed
  <1>7. Limits'
    <2>1. \A e \in Device \ {d} : linkOf'[e] = linkOf[e]
      BY DEF AutoConnect, Dial
    <2> QED BY <2>1, OneMoreLink, NoMoreListed DEF AutoConnect, Dial, deviceVars, ManagerInv,
               Limits
  <1> QED BY <1>1, <1>2, <1>3, <1>4, <1>5, <1>6, <1>7 DEF ManagerInv

(* A pairing goes on when it was asked for.                                *)
LEMMA PairingRequestedKeeps ==
  ASSUME ManagerInv, NEW d \in Device, PairingRequested(d),
         credit' \in [{"request", "event"} -> Nat]
  PROVE  ManagerInv'
  <1>1. RequestTypes'
    BY DEF PairingRequested, AgentStep, ManagerInv, RequestTypes
  <1>2. DeviceTypes'
    BY DEF PairingRequested, ManagerInv, DeviceTypes, linkVars
  <1>3. FileTypes'
    BY DEF PairingRequested, ManagerInv, FileTypes, fileVars
  <1>4. SavesFollow'
    BY DEF PairingRequested, ManagerInv, SavesFollow, fileVars
  <1>5. SessionsArePaired'
    BY DEF PairingRequested, ManagerInv, SessionsArePaired, Paired, linkVars
  <1>6. BusyIsOwed'
    BY DEF PairingRequested, AgentStep, ManagerInv, BusyIsOwed
  <1>7. Limits'
    BY DEF PairingRequested, ManagerInv, Limits, Links, Listed, linkVars
  <1> QED BY <1>1, <1>2, <1>3, <1>4, <1>5, <1>6, <1>7 DEF ManagerInv

(* A device is paired if there is room for it, and saved.                  *)
LEMMA LinkKeyKeeps ==
  ASSUME ManagerInv, NEW d \in Device, LinkKey(d), credit' \in [{"request", "event"} -> Nat]
  PROVE  ManagerInv'
  <1>1. PICK phone \in SUBSET {"source"} :
          Remember(d, IF dev[d].state = "none" /\ Cardinality(Listed) >= MaxDevices THEN dev[d]
                      ELSE [dev[d] EXCEPT !.state = "paired", !.auto = @ \/ ~Paired(d),
                                          !.roles = @ \cup phone])
    BY DEF LinkKey
  <1>2. PICK r \in DeviceType :
          /\ Remember(d, r)
          /\ \/ r = dev[d]
             \/ r.state = "paired" /\ (dev[d].state = "none" => ~(Cardinality(Listed) >= MaxDevices))
    <2>1. dev[d] \in DeviceType
      BY DEF ManagerInv, DeviceTypes
    <2>2. CASE dev[d].state = "none" /\ Cardinality(Listed) >= MaxDevices
      BY <1>1, <2>1, <2>2
    <2>3. CASE ~(dev[d].state = "none" /\ Cardinality(Listed) >= MaxDevices)
      <3> DEFINE auto == dev[d].auto \/ ~Paired(d)
                 roles == dev[d].roles \cup phone
                 r == [dev[d] EXCEPT !.state = "paired", !.auto = auto, !.roles = roles]
      <3>1. auto \in BOOLEAN /\ roles \in SUBSET {"source", "sink"}
        BY <2>1 DEF DeviceType
      <3>2. Remember(d, r)
        BY <1>1, <2>3
      <3> HIDE DEF auto, roles
      <3>3. r \in DeviceType /\ r.state = "paired"
        BY <2>1, <3>1 DEF DeviceType
      <3> HIDE DEF r
      <3> QED BY <2>3, <3>2, <3>3
    <2> QED BY <2>2, <2>3
  <1>3. /\ FileTypes' /\ SavesFollow' /\ dev' \in [Device -> DeviceType]
        /\ dev'[d] = r /\ \A e \in Device \ {d} : dev'[e] = dev[e]
    <2>1. "worker" \in Thread /\ save["worker"] = "no" /\ Want("worker")
      BY DEF LinkKey, AgentStep, AtWork, Thread
    <2> QED BY <1>2, <2>1, RememberedIsOwed DEF ManagerInv, DeviceTypes
  <1>4. \A e \in Device : Paired(e) => dev'[e].state = "paired"
    BY <1>2, <1>3 DEF Paired
  <1>5. RequestTypes'
    BY DEF LinkKey, AgentStep, ManagerInv, RequestTypes
  <1>6. DeviceTypes'
    BY <1>3 DEF LinkKey, ManagerInv, DeviceTypes, linkVars
  <1>7. FileTypes'
    BY <1>3
  <1>8. SavesFollow'
    BY <1>3
  <1>9. SessionsArePaired'
    BY <1>4 DEF LinkKey, ManagerInv, SessionsArePaired, Paired, linkVars
  <1>10. BusyIsOwed'
    BY DEF LinkKey, AgentStep, ManagerInv, BusyIsOwed
  <1>11. Limits'
    <2>1. Cardinality(Links)' <= MaxLinks
      BY NoMoreLinks DEF LinkKey, linkVars, ManagerInv
    <2>2. CASE r = dev[d] \/ dev[d].state # "none"
      BY <1>3, <2>1, <2>2, NoMoreListed DEF ManagerInv, Limits
    <2>3. CASE r # dev[d] /\ dev[d].state = "none"
      <3>1. Cardinality(Listed) \in Nat
        BY ManagerAssumption, FS_Subset, FS_CardinalityType DEF Listed
      <3>2. Cardinality(Listed) < MaxDevices
        BY <1>2, <2>3, <3>1, ManagerAssumption
      <3> QED BY <1>3, <2>1, <3>2, OneMoreListed DEF Limits
    <2> QED BY <2>2, <2>3
  <1> QED BY <1>5, <1>6, <1>7, <1>8, <1>9, <1>10, <1>11 DEF ManagerInv

(* What is learnt of a paired device is saved.                             *)
LEMMA PhoneCallsKeeps ==
  ASSUME ManagerInv, NEW d \in Device, PhoneCalls(d), credit' \in [{"request", "event"} -> Nat]
  PROVE  ManagerInv'
  <1>1. /\ FileTypes' /\ SavesFollow' /\ dev' \in [Device -> DeviceType]
        /\ \A e \in Device : dev'[e].state = dev[e].state
    <2>1. dev[d].roles \cup {"source"} \in SUBSET {"source", "sink"}
      BY DEF ManagerInv, DeviceTypes, DeviceType
    <2> QED BY <2>1, RolesAreOwed DEF PhoneCalls, AgentStep, ManagerInv, DeviceTypes
  <1>2. RequestTypes'
    BY DEF PhoneCalls, AgentStep, ManagerInv, RequestTypes
  <1>3. DeviceTypes'
    BY <1>1 DEF PhoneCalls, ManagerInv, DeviceTypes, linkVars
  <1>4. FileTypes'
    BY <1>1
  <1>5. SavesFollow'
    BY <1>1
  <1>6. SessionsArePaired'
    BY <1>1 DEF PhoneCalls, ManagerInv, SessionsArePaired, Paired, linkVars
  <1>7. BusyIsOwed'
    BY DEF PhoneCalls, AgentStep, ManagerInv, BusyIsOwed
  <1>8. Limits'
    BY <1>1, NoMoreLinks, NoMoreListed DEF PhoneCalls, ManagerInv, Limits, linkVars
  <1> QED BY <1>2, <1>3, <1>4, <1>5, <1>6, <1>7, <1>8 DEF ManagerInv

(* A session is accepted from a paired device.                             *)
LEMMA SessionAcceptedKeeps ==
  ASSUME ManagerInv, NEW d \in Device, SessionAccepted(d),
         credit' \in [{"request", "event"} -> Nat]
  PROVE  ManagerInv'
  <1>1. RequestTypes'
    BY DEF SessionAccepted, Poll, ManagerInv, RequestTypes
  <1>2. DeviceTypes'
    BY DEF SessionAccepted, ManagerInv, DeviceTypes, deviceVars
  <1>3. FileTypes'
    BY DEF SessionAccepted, ManagerInv, FileTypes, fileVars
  <1>4. SavesFollow'
    BY DEF SessionAccepted, ManagerInv, SavesFollow, fileVars
  <1>5. SessionsArePaired'
    BY DEF SessionAccepted, ManagerInv, SessionsArePaired, Paired, deviceVars
  <1>6. BusyIsOwed'
    BY DEF SessionAccepted, Poll, ManagerInv, BusyIsOwed
  <1>7. Limits'
    BY DEF SessionAccepted, ManagerInv, Limits, Links, Listed, deviceVars
  <1> QED BY <1>1, <1>2, <1>3, <1>4, <1>5, <1>6, <1>7 DEF ManagerInv

(* A session that is dialled comes up, or ends.                            *)
LEMMA SessionPolledKeeps ==
  ASSUME ManagerInv, NEW d \in Device, SessionPolled(d), credit' \in [{"request", "event"} -> Nat]
  PROVE  ManagerInv'
  <1>1. RequestTypes'
    BY DEF SessionPolled, Poll, ManagerInv, RequestTypes
  <1>2. DeviceTypes'
    BY DEF SessionPolled, ManagerInv, DeviceTypes, deviceVars
  <1>3. FileTypes'
    BY DEF SessionPolled, ManagerInv, FileTypes, fileVars
  <1>4. SavesFollow'
    BY DEF SessionPolled, ManagerInv, SavesFollow, fileVars
  <1>5. SessionsArePaired'
    BY DEF SessionPolled, ManagerInv, SessionsArePaired, Paired, deviceVars
  <1>6. BusyIsOwed'
    BY DEF SessionPolled, Poll, ManagerInv, BusyIsOwed
  <1>7. Limits'
    BY DEF SessionPolled, ManagerInv, Limits, Links, Listed, deviceVars
  <1> QED BY <1>1, <1>2, <1>3, <1>4, <1>5, <1>6, <1>7 DEF ManagerInv

(* closeLink() ends the session with the link; the device stays listed.    *)
LEMMA LinkIsClosed ==
  ASSUME DeviceTypes, NEW d \in Device, NEW hold \in BOOLEAN, LinkCloses(d, hold)
  PROVE  /\ dev' \in [Device -> DeviceType] /\ linkOf' \in [Device -> LinkStates]
         /\ session' \in [Device -> {"none", "dialling", "up"}]
         /\ \A e \in Device : /\ dev'[e].state = dev[e].state
                              /\ linkOf'[e] # "none" => linkOf[e] # "none"
                              /\ session'[e] # "none" => session[e] # "none"
  <1> DEFINE held == dev[d].held \/ (hold /\ linkOf[d] \notin Outputs /\ dev[d].state # "none")
  <1>1. dev[d] \in DeviceType /\ held \in BOOLEAN
    BY DEF DeviceTypes, DeviceType
  <1>2. dev' = [dev EXCEPT ![d] = [dev[d] EXCEPT !.held = held]]
    BY DEF LinkCloses
  <1> HIDE DEF held
  <1> DEFINE r == [dev[d] EXCEPT !.held = held]
  <1>3. r \in DeviceType /\ r.state = dev[d].state
    BY <1>1 DEF DeviceType
  <1>4. dev' = [dev EXCEPT ![d] = r]
    BY <1>2
  <1> HIDE DEF r
  <1>5. /\ dev' \in [Device -> DeviceType]
        /\ \A e \in Device : dev'[e].state = dev[e].state
    BY <1>3, <1>4 DEF DeviceTypes
  <1>6. /\ linkOf' \in [Device -> LinkStates]
        /\ \A e \in Device : linkOf'[e] # "none" => linkOf[e] # "none"
    BY DEF LinkCloses, DeviceTypes, LinkStates
  <1>7. /\ session' \in [Device -> {"none", "dialling", "up"}]
        /\ \A e \in Device : session'[e] # "none" => session[e] # "none"
    BY DEF LinkCloses, Dropped, DeviceTypes
  <1> QED BY <1>5, <1>6, <1>7

(* A link that takes too long is closed.                                   *)
LEMMA LinkTimesOutKeeps ==
  ASSUME ManagerInv, NEW d \in Device, LinkTimesOut(d), credit' \in [{"request", "event"} -> Nat]
  PROVE  ManagerInv'
  <1>1. /\ dev' \in [Device -> DeviceType] /\ linkOf' \in [Device -> LinkStates]
        /\ session' \in [Device -> {"none", "dialling", "up"}]
        /\ \A e \in Device : /\ dev'[e].state = dev[e].state
                             /\ linkOf'[e] # "none" => linkOf[e] # "none"
                             /\ session'[e] # "none" => session[e] # "none"
    BY LinkIsClosed DEF LinkTimesOut, ManagerInv
  <1>2. RequestTypes'
    BY DEF LinkTimesOut, Poll, ManagerInv, RequestTypes
  <1>3. DeviceTypes'
    BY <1>1 DEF LinkTimesOut, ManagerInv, DeviceTypes
  <1>4. FileTypes'
    BY DEF LinkTimesOut, Poll, ManagerInv, FileTypes, fileVars
  <1>5. SavesFollow'
    BY DEF LinkTimesOut, Poll, ManagerInv, SavesFollow, fileVars
  <1>6. SessionsArePaired'
    BY <1>1 DEF ManagerInv, SessionsArePaired, Paired
  <1>7. BusyIsOwed'
    BY DEF LinkTimesOut, ManagerInv, BusyIsOwed
  <1>8. Limits'
    BY <1>1, NoMoreLinks, NoMoreListed DEF ManagerInv, Limits
  <1> QED BY <1>2, <1>3, <1>4, <1>5, <1>6, <1>7, <1>8 DEF ManagerInv

(* A link that ends is closed, and its device held if it hung up.          *)
LEMMA LinkLostKeeps ==
  ASSUME ManagerInv, NEW d \in Device, NEW deliberate \in BOOLEAN, LinkLost(d, deliberate),
         credit' \in [{"request", "event"} -> Nat]
  PROVE  ManagerInv'
  <1>1. /\ dev' \in [Device -> DeviceType] /\ linkOf' \in [Device -> LinkStates]
        /\ session' \in [Device -> {"none", "dialling", "up"}]
        /\ \A e \in Device : /\ dev'[e].state = dev[e].state
                             /\ linkOf'[e] # "none" => linkOf[e] # "none"
                             /\ session'[e] # "none" => session[e] # "none"
    BY LinkIsClosed DEF LinkLost, ManagerInv
  <1>2. RequestTypes'
    BY DEF LinkLost, Poll, ManagerInv, RequestTypes
  <1>3. DeviceTypes'
    BY <1>1 DEF LinkLost, ManagerInv, DeviceTypes
  <1>4. FileTypes'
    BY DEF LinkLost, ManagerInv, FileTypes, fileVars
  <1>5. SavesFollow'
    BY DEF LinkLost, ManagerInv, SavesFollow, fileVars
  <1>6. SessionsArePaired'
    BY <1>1 DEF ManagerInv, SessionsArePaired, Paired
  <1>7. BusyIsOwed'
    BY DEF LinkLost, Poll, ManagerInv, BusyIsOwed
  <1>8. Limits'
    BY <1>1, NoMoreLinks, NoMoreListed DEF ManagerInv, Limits
  <1> QED BY <1>2, <1>3, <1>4, <1>5, <1>6, <1>7, <1>8 DEF ManagerInv

(* A device that refuses an output for the second time is an input.        *)
LEMMA DialRefusedKeeps ==
  ASSUME ManagerInv, NEW d \in Device, DialRefused(d), credit' \in [{"request", "event"} -> Nat]
  PROVE  ManagerInv'
  <1>1. /\ FileTypes' /\ SavesFollow' /\ dev' \in [Device -> DeviceType]
        /\ \A e \in Device : dev'[e].state = dev[e].state
    BY RolesAreOwed DEF DialRefused, Poll, ManagerInv, DeviceTypes
  <1>2. /\ linkOf' \in [Device -> LinkStates]
        /\ session' \in [Device -> {"none", "dialling", "up"}]
        /\ \A e \in Device : linkOf'[e] # "none" => linkOf[e] # "none"
        /\ \A e \in Device : session'[e] # "none" => session[e] # "none"
    BY DEF DialRefused, Dropped, ManagerInv, DeviceTypes, LinkStates
  <1>3. RequestTypes'
    BY DEF DialRefused, Poll, ManagerInv, RequestTypes
  <1>4. DeviceTypes'
    BY <1>1, <1>2 DEF DialRefused, ManagerInv, DeviceTypes
  <1>5. FileTypes'
    BY <1>1
  <1>6. SavesFollow'
    BY <1>1
  <1>7. SessionsArePaired'
    BY <1>1, <1>2 DEF ManagerInv, SessionsArePaired, Paired
  <1>8. BusyIsOwed'
    BY DEF DialRefused, Poll, ManagerInv, BusyIsOwed
  <1>9. Limits'
    BY <1>1, <1>2, NoMoreLinks, NoMoreListed DEF ManagerInv, Limits
  <1> QED BY <1>3, <1>4, <1>5, <1>6, <1>7, <1>8, <1>9 DEF ManagerInv

(* connectMediaChannel() dials paired devices only.                        *)
LEMMA DialledIsPaired ==
  ASSUME DeviceTypes, NEW d \in Device, SessionDialled(d, TRUE)
  PROVE  /\ session' \in [Device -> {"none", "dialling", "up"}]
         /\ \A e \in Device : session'[e] # "none" => session[e] # "none" \/ Paired(e)
  BY DEF SessionDialled, DeviceTypes

(* A device that is dialled answers.                                       *)
LEMMA DialAnsweredKeeps ==
  ASSUME ManagerInv, NEW d \in Device, DialAnswered(d), credit' \in [{"request", "event"} -> Nat]
  PROVE  ManagerInv'
  <1>1. /\ session' \in [Device -> {"none", "dialling", "up"}]
        /\ \A e \in Device : session'[e] # "none" => session[e] # "none" \/ Paired(e)
    BY DialledIsPaired DEF DialAnswered, ManagerInv
  <1>2. /\ linkOf' \in [Device -> LinkStates] /\ dev' = dev
        /\ \A e \in Device : linkOf'[e] # "none" => linkOf[e] # "none"
    BY DEF DialAnswered, Dialling, deviceVars, ManagerInv, DeviceTypes, LinkStates
  <1>3. RequestTypes'
    BY DEF DialAnswered, Poll, ManagerInv, RequestTypes
  <1>4. DeviceTypes'
    BY <1>1, <1>2 DEF DialAnswered, deviceVars, ManagerInv, DeviceTypes
  <1>5. FileTypes'
    BY DEF DialAnswered, ManagerInv, FileTypes, fileVars
  <1>6. SavesFollow'
    BY DEF DialAnswered, ManagerInv, SavesFollow, fileVars
  <1>7. SessionsArePaired'
    BY <1>1, <1>2 DEF ManagerInv, SessionsArePaired, Paired
  <1>8. BusyIsOwed'
    BY DEF DialAnswered, Poll, ManagerInv, BusyIsOwed
  <1>9. Limits'
    BY <1>2, NoMoreLinks, NoMoreListed DEF ManagerInv, Limits
  <1> QED BY <1>3, <1>4, <1>5, <1>6, <1>7, <1>8, <1>9 DEF ManagerInv

(* A link that changes teaches the roles of its device.                    *)
LEMMA LinkChangesKeeps ==
  ASSUME ManagerInv, NEW d \in Device, LinkChanges(d), credit' \in [{"request", "event"} -> Nat]
  PROVE  ManagerInv'
  <1>1. PICK l \in {"starting", "output", "input"} :
          /\ linkOf' = [linkOf EXCEPT ![d] = l]
          /\ SetRoles(d, CASE l = "output" -> dev[d].roles \cup {"sink"}
                           [] l = "input"  -> IF linkOf[d] = "starting" THEN {"source"}
                                              ELSE dev[d].roles \cup {"source"}
                           [] OTHER        -> dev[d].roles \cup {"sink"})
    BY DEF LinkChanges
  <1>2. PICK roles \in SUBSET {"source", "sink"} : SetRoles(d, roles)
    <2>1. dev[d].roles \in SUBSET {"source", "sink"}
      BY DEF ManagerInv, DeviceTypes, DeviceType
    <2>2. CASE l = "output" \/ l = "starting"
      <3>1. dev[d].roles \cup {"sink"} \in SUBSET {"source", "sink"}
        BY <2>1
      <3>2. SetRoles(d, dev[d].roles \cup {"sink"})
        BY <1>1, <2>2
      <3> QED BY <3>1, <3>2
    <2>3. CASE l = "input"
      <3>1. dev[d].roles \cup {"source"} \in SUBSET {"source", "sink"}
        BY <2>1
      <3>2. SetRoles(d, {"source"}) \/ SetRoles(d, dev[d].roles \cup {"source"})
        BY <1>1, <2>3
      <3> QED BY <3>1, <3>2
    <2> QED BY <2>2, <2>3
  <1>3. /\ FileTypes' /\ SavesFollow' /\ dev' \in [Device -> DeviceType]
        /\ \A e \in Device : dev'[e].state = dev[e].state
    BY <1>2, RolesAreOwed DEF LinkChanges, Poll, ManagerInv, DeviceTypes
  <1>4. /\ linkOf' \in [Device -> LinkStates]
        /\ \A e \in Device : linkOf'[e] # "none" => linkOf[e] # "none"
    BY <1>1 DEF LinkChanges, ManagerInv, DeviceTypes, LinkStates
  <1>5. RequestTypes'
    BY DEF LinkChanges, Poll, ManagerInv, RequestTypes
  <1>6. DeviceTypes'
    BY <1>3, <1>4 DEF LinkChanges, ManagerInv, DeviceTypes
  <1>7. FileTypes'
    BY <1>3
  <1>8. SavesFollow'
    BY <1>3
  <1>9. SessionsArePaired'
    BY <1>3 DEF LinkChanges, ManagerInv, SessionsArePaired, Paired
  <1>10. BusyIsOwed'
    BY DEF LinkChanges, Poll, ManagerInv, BusyIsOwed
  <1>11. Limits'
    BY <1>3, <1>4, NoMoreLinks, NoMoreListed DEF ManagerInv, Limits
  <1> QED BY <1>5, <1>6, <1>7, <1>8, <1>9, <1>10, <1>11 DEF ManagerInv

(* A device that calls in has a link if there is room for one, and a       *)
(* session if it is paired.                                                *)
LEMMA AcceptKeeps ==
  ASSUME ManagerInv, NEW d \in Device, Accept(d), credit' \in [{"request", "event"} -> Nat]
  PROVE  ManagerInv'
  <1>1. /\ session' \in [Device -> {"none", "dialling", "up"}]
        /\ \A e \in Device : session'[e] # "none" => session[e] # "none" \/ Paired(e)
    BY DialledIsPaired DEF Accept, ManagerInv
  <1>2. dev' \in [Device -> DeviceType] /\ \A e \in Device : dev'[e].state = dev[e].state
    <2> DEFINE held == dev[d].held /\ linkOf[d] # "none"
    <2>1. dev[d] \in DeviceType /\ held \in BOOLEAN
      BY DEF ManagerInv, DeviceTypes, DeviceType
    <2>2. dev' = [dev EXCEPT ![d] = [dev[d] EXCEPT !.held = held]]
      BY DEF Accept
    <2> HIDE DEF held
    <2> DEFINE r == [dev[d] EXCEPT !.held = held]
    <2>3. r \in DeviceType /\ r.state = dev[d].state
      BY <2>1 DEF DeviceType
    <2>4. dev' = [dev EXCEPT ![d] = r]
      BY <2>2
    <2> HIDE DEF r
    <2> QED BY <2>3, <2>4 DEF ManagerInv, DeviceTypes
  <1>3. /\ linkOf' \in [Device -> LinkStates]
        /\ \A e \in Device \ {d} : linkOf'[e] = linkOf[e]
    BY DEF Accept, ManagerInv, DeviceTypes, LinkStates
  <1>4. RequestTypes'
    BY DEF Accept, Poll, ManagerInv, RequestTypes
  <1>5. DeviceTypes'
    BY <1>1, <1>2, <1>3 DEF Accept, ManagerInv, DeviceTypes
  <1>6. FileTypes'
    BY DEF Accept, ManagerInv, FileTypes, fileVars
  <1>7. SavesFollow'
    BY DEF Accept, ManagerInv, SavesFollow, fileVars
  <1>8. SessionsArePaired'
    BY <1>1, <1>2 DEF ManagerInv, SessionsArePaired, Paired
  <1>9. BusyIsOwed'
    BY DEF Accept, Poll, ManagerInv, BusyIsOwed
  <1>10. Limits'
    <2>1. CASE linkOf[d] = "none"
      <3>1. Cardinality(Links) < MaxLinks
        BY <2>1 DEF Accept
      <3> QED BY <1>2, <1>3, <3>1, OneMoreLink, NoMoreListed DEF ManagerInv, Limits
    <2>2. CASE linkOf[d] # "none"
      BY <1>2, <1>3, <2>2, NoMoreLinks, NoMoreListed DEF ManagerInv, Limits
    <2> QED BY <2>1, <2>2
  <1> QED BY <1>4, <1>5, <1>6, <1>7, <1>8, <1>9, <1>10 DEF ManagerInv

-----------------------------------------------------------------------------
(* The worker starts with the devices of bluetooth_paired.txt.             *)
LEMMA ManagerStarts == ManagerInit => ManagerInv
  <1> SUFFICES ASSUME ManagerInit PROVE ManagerInv
    OBVIOUS
  <1>1. RequestTypes
    BY ManagerAssumption DEF ManagerInit, RequestTypes, Requests, Places, NoJob
  <1>2. DeviceTypes
    <2>1. Unlisted \in DeviceType
      BY DEF Unlisted, DeviceType
    <2>2. [state : {"paired"}, auto : {TRUE}, held : {FALSE}, roles : {{}, {"sink"}}]
            \subseteq DeviceType
      BY DEF DeviceType
    <2>3. dev \in [Device -> DeviceType]
      BY <2>1, <2>2 DEF ManagerInit
    <2> QED BY <2>3 DEF ManagerInit, DeviceTypes, LinkStates
  <1>3. FileTypes /\ SavesFollow
    BY DEF ManagerInit, FileTypes, SavesFollow
  <1>4. SessionsArePaired /\ BusyIsOwed
    BY DEF ManagerInit, SessionsArePaired, BusyIsOwed
  <1>5. Limits
    <2>1. Links = {}
      BY DEF ManagerInit, Links
    <2>2. Cardinality(Links) = 0
      BY <2>1, FS_EmptySet
    <2> QED BY <2>2, ManagerAssumption DEF ManagerInit, Limits
  <1> QED BY <1>1, <1>2, <1>3, <1>4, <1>5 DEF ManagerInv

(* The requests and the events are bounded by Budget.                      *)
LEMMA BudgetIsSpent ==
  ASSUME RequestTypes, NEW k \in {"request", "event"}, Charge(k)
  PROVE  credit' \in [{"request", "event"} -> Nat]
  BY DEF RequestTypes, Charge

(* A request of the user.                                                  *)
LEMMA UserStepKeeps ==
  ASSUME ManagerInv, UserStep
  PROVE  ManagerInv'
  <1>1. credit' \in [{"request", "event"} -> Nat]
    BY BudgetIsSpent DEF UserStep, ManagerInv
  <1> QED BY <1>1, RequestScanKeeps, RequestPairKeeps, RequestConnectKeeps, RequestUnpairKeeps,
             RequestAutoConnectKeeps, RequestDisconnectKeeps DEF UserStep

(* A step of the worker's loop.                                            *)
LEMMA TurnKeeps ==
  ASSUME ManagerInv, Turn
  PROVE  ManagerInv'
  <1>1. credit' \in [{"request", "event"} -> Nat]
    BY DEF Turn, ManagerInv, RequestTypes
  <1> QED BY <1>1, TakeRequestKeeps, BringUpKeeps, BringUpFailsKeeps, PairEndsKeeps, RunScanKeeps,
             ServeConnectKeeps, ServeDisconnectKeeps, ServeUnpairKeeps, PublishKeeps, EndTurnKeeps
          DEF Turn

(* An event of the controller, a device or the radio.                      *)
LEMMA RadioKeeps ==
  ASSUME ManagerInv, Radio
  PROVE  ManagerInv'
  <1>1. credit' \in [{"request", "event"} -> Nat]
    BY BudgetIsSpent DEF Radio, ManagerInv
  <1> QED BY <1>1, AutoConnectKeeps, PairingRequestedKeeps, LinkKeyKeeps, PhoneCallsKeeps,
             SessionAcceptedKeeps, SessionPolledKeeps, LinkTimesOutKeeps, DialRefusedKeeps,
             DialAnsweredKeeps, LinkChangesKeeps, AcceptKeeps, LinkLostKeeps DEF Radio

(* A step of a thread that saves.                                          *)
LEMMA SaveKeeps ==
  ASSUME ManagerInv, NEW t \in Thread, Save(t)
  PROVE  ManagerInv'
  <1>1. credit' \in [{"request", "event"} -> Nat]
    BY DEF Save, ManagerInv, RequestTypes
  <1> QED BY <1>1, BeginSaveKeeps, EndSaveKeeps DEF Save

(* Every step keeps the invariant.                                         *)
LEMMA ManagerSteps == ManagerInv /\ [ManagerNext]_managerVars => ManagerInv'
  <1> SUFFICES ASSUME ManagerInv, [ManagerNext]_managerVars PROVE ManagerInv'
    OBVIOUS
  <1>1. CASE UNCHANGED managerVars
    BY <1>1 DEF managerVars, ManagerInv, RequestTypes, DeviceTypes, FileTypes, SavesFollow,
                SessionsArePaired, BusyIsOwed, Limits, Links, Listed, Paired
  <1> QED BY <1>1, UserStepKeeps, TurnKeeps, RadioKeeps, SaveKeeps DEF ManagerNext

(* The state is well typed: no more links than BT_MAX_LINKS, no more       *)
(* devices listed than BT_MAX_DEVICES, for every number of them, whatever  *)
(* is scanned, paired, dialled and accepted at once.                       *)
THEOREM ManagerTypes == ManagerSpec => []ManagerTyped
  <1>1. ManagerInv => ManagerTyped
    BY DEF ManagerInv, ManagerTyped, DeviceTypes, RequestTypes, FileTypes, Limits, LinkStates,
           Connecting, Dialling
  <1> QED BY <1>1, ManagerStarts, ManagerSteps, PTL DEF ManagerSpec

(* The file of paired devices follows memory, AVRCP sessions belong to     *)
(* paired devices, and a request that shows as busy is going to be ended.  *)
THEOREM ManagerAgrees == ManagerSpec => []DevicesAgree
  <1>1. ManagerInv => DevicesAgree
    BY DEF ManagerInv, DevicesAgree, FileFollowsMemory, SavesFollow
  <1> QED BY <1>1, ManagerStarts, ManagerSteps, PTL DEF ManagerSpec
=============================================================================
