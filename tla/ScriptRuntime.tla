--------------------------- MODULE ScriptRuntime ---------------------------
(***************************************************************************)
(* The Lua scripts as they run: events are queued for the scripts that     *)
(* subscribe, one script at a time is evaluated into a plan, and the plan  *)
(* is played: keys to the USB host, notes and light to the MIDI            *)
(* controller, calls to the rest of the device (src/scripting/runtime.cpp, *)
(* src/midi/usb.cpp, the connection part of src/midi/midi.cpp).            *)
(*                                                                         *)
(* Everything runs on the main loop, so the steps below are whole          *)
(* handlers; what makes them hard is that a plan goes on over many polls,  *)
(* both outputs may accept nothing for a while, and the plan may be cut    *)
(* off between any two of its actions: by a call that fails, the 65 s      *)
(* limit, an edit of the scripts, either device leaving.                   *)
(*                                                                         *)
(* The state is one record s; a handler is an operator from a state to the *)
(* states it may leave, and one that reports success returns pairs         *)
(* <<success, state>>.  Time is a choice: a deadline, a timer or a wait is *)
(* due or not.  One note, one light and one key stand for all of them.     *)
(***************************************************************************)
EXTENDS Naturals, Sequences, FiniteSets, SequencesExt

CONSTANTS
    Library,    \* sets of scripts that may be saved: sequences of [hooks, valid]
    Plan,       \* plans an evaluation may return
    QueueMax,   \* SCRIPTS_MAX: pending triggers, and pending key reports
    PendMax,    \* messages controllerPending has room for
    MaxFaults,  \* bound: writes and calls that fail
    MaxUpsets,  \* bound: edits, devices that leave, settings that change
    MaxTriggers \* bound: run requests

VARIABLES s, left

vars == <<s, left>>

None == 0
Keys == {"keyboard", "media"}
Silent == [conn |-> FALSE, pend |-> <<>>, failed |-> FALSE, sent |-> "unknown"]

Init ==
    /\ left = [fault |-> MaxFaults, upset |-> MaxUpsets, trigger |-> MaxTriggers]
    /\ \E d \in Library :
        s = [defs |-> d, queue |-> <<>>, booted |-> FALSE,
             active |-> None, plan |-> <<>>, waits |-> {}, uses |-> FALSE,
             note |-> FALSE,          \* macroMidiNotes, macroMidiSustain
             lit |-> FALSE,           \* macroLight of the active script is set
             midi |-> Silent,         \* the way to the controller
             sounds |-> FALSE, lamp |-> FALSE,  \* the controller itself
             lost |-> FALSE,          \* history: the full queue has refused a message
             enabled |-> TRUE, open |-> FALSE, fresh |-> FALSE, newSession |-> FALSE,
             chords |-> <<>>, down |-> "no", held |-> FALSE,
             host |-> {}]             \* what the USB host holds down

Idle(t) == t.active = None
Listens(t, i, kind) == t.defs[i].valid /\ kind \in t.defs[i].hooks

-----------------------------------------------------------------------------
(* The controller's output: controllerPending, one message a unit.         *)

Hear(t, m) ==
    CASE m \in {"on", "off"}    -> [t EXCEPT !.sounds = (m = "on")]
      [] m \in {"lit", "dark"}  -> [t EXCEPT !.lamp = (m = "lit")]

Deliver(t, n) == FoldLeft(Hear, [t EXCEPT !.midi.pend = SubSeq(@, n + 1, Len(@))],
                          SubSeq(t.midi.pend, 1, n))

\* flushControllerMidi: all, some or none of it is written, or the write fails.
Flush(t, mayFail) ==
    IF t.midi.pend = <<>> THEN {<<~t.midi.failed, t>>}
    ELSE IF ~t.midi.conn \/ t.midi.failed THEN {<<FALSE, t>>}
    ELSE {<<TRUE, Deliver(t, n)>> : n \in {0, 1, Len(t.midi.pend)}} \cup
         IF mayFail THEN {<<FALSE, [t EXCEPT !.midi.failed = TRUE]>>} ELSE {}

\* queueControllerMidi
Send(t, m, mayFail) ==
    IF ~t.midi.conn THEN {<<FALSE, t>>}
    ELSE UNION {IF ~f[1] THEN {f}
                ELSE IF Len(f[2].midi.pend) = PendMax THEN {<<FALSE, [f[2] EXCEPT !.lost = TRUE]>>}
                ELSE Flush([f[2] EXCEPT !.midi.pend = Append(@, m)], mayFail)
                : f \in Flush(t, mayFail)}

After(pairs) == {f[2] : f \in pairs}

\* refreshLightingFromState: what has changed is sent; it counts as sent
\* even where it could not be queued.
Refresh(t, mayFail) ==
    LET want == IF t.lit THEN "lit" ELSE "dark"
    IN  IF ~t.midi.conn \/ t.midi.sent = want THEN {t}
        ELSE After(Send([t EXCEPT !.midi.sent = want], want, mayFail))

\* releaseMacroMidi
ReleaseMidi(t, mayFail) ==
    IF t.note THEN {[u EXCEPT !.note = FALSE] : u \in After(Send(t, "off", mayFail))} ELSE {t}

-----------------------------------------------------------------------------
(* The keys: reports wait in chords until the host takes them.             *)

QueueReport(t, key, hold) ==
    IF ~t.enabled \/ ~t.open \/ Len(t.chords) = QueueMax THEN {<<FALSE, t>>}
    ELSE {<<TRUE, [t EXCEPT !.chords = Append(@, [key |-> key, hold |-> hold])]>>}

\* release(): an empty report, of the kind that was sent last
ReleaseKeys(t) == QueueReport(t, "none", FALSE)

\* cancelChords leaves keyDown, so that the next poll lifts the key
CancelChords(t) == [t EXCEPT !.chords = <<>>, !.held = FALSE]

\* closeDevices: the release reports are tried, and may not be taken.
CloseDevices(t) ==
    {[t EXCEPT !.newSession = @ \/ t.open, !.open = FALSE, !.chords = <<>>, !.down = "no",
               !.held = FALSE, !.fresh = FALSE, !.host = h]
     : h \in IF t.open THEN {t.host, {}} ELSE {t.host}}

\* One report is written: it is taken, must wait, or the session is over.
Report(t, taken, mayFail) ==
    {taken, t} \cup IF mayFail THEN CloseDevices(t) ELSE {}

\* MidiUsbOutput::poll, the part of it that concerns keys
Output(t, mayFail) ==
    LET switching == t.down # "no" /\ t.chords # <<>> /\ Head(t.chords).key \in Keys \ {t.down}
        lift      == t.down # "no" /\ (~t.held \/ switching)
        next      == Head(t.chords)
    IN  IF ~t.open THEN {t}
        ELSE IF lift THEN Report(t, [t EXCEPT !.down = "no", !.held = FALSE, !.host = @ \ {t.down}], mayFail)
        ELSE IF t.chords = <<>> THEN {t}
        ELSE Report(t, [t EXCEPT !.chords = Tail(@),
                                 !.down = IF next.key = "none" THEN "no" ELSE next.key,
                                 !.held = next.key # "none" /\ next.hold,
                                 !.host = IF next.key = "none" THEN @ \ {t.down} ELSE @ \cup {next.key}], mayFail)

Probe(t, present) ==
    IF ~present THEN CloseDevices(t)
    ELSE IF t.open THEN {t} ELSE {[t EXCEPT !.open = TRUE, !.fresh = TRUE]}

Initialise(t, mayFail) ==
    IF t.open /\ t.fresh THEN Report(t, [t EXCEPT !.fresh = FALSE, !.host = {}], mayFail) ELSE {t}

UsbPoll(t, present, mayFail) ==
    IF ~t.enabled THEN {t}
    ELSE UNION {UNION {IF v.open /\ v.fresh THEN {v} ELSE Output(v, mayFail) : v \in Initialise(u, mayFail)}
                : u \in Probe(t, present)}

-----------------------------------------------------------------------------
(* Stopping.                                                               *)

\* Mutant of Stop: a cancelled script's notes are forgotten, not ended.
StopForgetsNotes(t, mayFail) ==
    {[CancelChords(t) EXCEPT !.active = None, !.plan = <<>>, !.waits = {}, !.queue = <<>>, !.lit = FALSE,
                             !.note = FALSE]}

\* stopMacros
Stop(t, mayFail) ==
    {[CancelChords(u) EXCEPT !.active = None, !.plan = <<>>, !.waits = {}, !.queue = <<>>, !.lit = FALSE]
     : u \in ReleaseMidi(t, mayFail)}

\* failMacro
Fail(t, mayFail) == UNION {Refresh(u, mayFail) : u \in Stop(t, mayFail)}

\* queueMacroEvent
Queued(t, i, kind) ==
    IF i > Len(t.defs) \/ Len(t.queue) = QueueMax THEN {<<FALSE, t>>}
    ELSE IF ~t.defs[i].valid THEN {<<FALSE, t>>}
    ELSE {<<TRUE, [t EXCEPT !.queue = Append(@, [index |-> i, kind |-> kind])]>>}

\* dispatchMacroEvent: to every subscriber, until the queue is full.
Dispatch(t, kind) ==
    LET subscribers == SelectSeq([i \in DOMAIN t.defs |-> i], LAMBDA i : Listens(t, i, kind))
        room == QueueMax - Len(t.queue)
        got  == SubSeq(subscribers, 1, IF Len(subscribers) < room THEN Len(subscribers) ELSE room)
    IN  [t EXCEPT !.queue = @ \o [k \in DOMAIN got |-> [index |-> got[k], kind |-> kind]]]

-----------------------------------------------------------------------------
(* Playing a plan.                                                         *)

\* What a played action leaves: [go |-> the poll goes on, st |-> the state].
Stay(S)    == {[go |-> FALSE, st |-> u] : u \in S}
Go(S)      == {[go |-> TRUE,  st |-> u] : u \in S}
Drop(t)    == [t EXCEPT !.plan = Tail(@)]
WaitFor(t, w) == [t EXCEPT !.waits = {w}]

OrFail(pairs, w, mayFail) ==
    UNION {IF f[1] THEN Stay({WaitFor(f[2], w)}) ELSE Stay(Fail(f[2], mayFail)) : f \in pairs}

\* One action of the plan.
Act(t, mayFail) ==
    LET a == Head(t.plan)
        u == Drop(t)
    IN  CASE a \in {"tap", "mediatap"} /\ t.held -> OrFail(ReleaseKeys(t), "keys", mayFail)
          [] a = "tap" /\ ~t.held      -> OrFail(QueueReport(u, "keyboard", FALSE), "keys", mayFail)
          [] a = "mediatap" /\ ~t.held -> OrFail(QueueReport(u, "media", FALSE), "keys", mayFail)
          [] a = "press"               -> OrFail(QueueReport(u, "keyboard", TRUE), "keys", mayFail)
          [] a = "release"             -> OrFail(ReleaseKeys(u), "keys", mayFail)
          [] a = "wait"                -> Stay({u})
          [] a = "light"               -> Go(Refresh([u EXCEPT !.lit = TRUE], mayFail))
          [] a = "call"                -> Go({u}) \cup IF mayFail THEN Stay(Fail(u, mayFail)) ELSE {}
          [] a \in {"on", "off"}       ->
               UNION {IF ~f[1] THEN Stay(Fail(f[2], mayFail))
                      ELSE LET v == [f[2] EXCEPT !.note = (a = "on")]
                           IN IF v.midi.pend = <<>> THEN Go({v}) ELSE Stay({WaitFor(v, "midi")})
                      : f \in Send(u, a, mayFail)}

\* The end of a plan: a key that is still held first, then the notes and the light.
Finish(t, mayFail) ==
    IF t.held THEN {WaitFor(f[2], "keys") : f \in ReleaseKeys(t)}
    ELSE UNION {Refresh([u EXCEPT !.active = None, !.lit = FALSE], mayFail) : u \in ReleaseMidi(t, mayFail)}

Play(t, mayFail) ==
    LET step(S, k) == UNION {IF p.go /\ p.st.plan # <<>> THEN Act(p.st, mayFail) ELSE {p} : p \in S}
        played == FoldLeft(step, Go({t}), t.plan)
    IN  UNION {IF p.go THEN Finish(p.st, mayFail) ELSE {p.st} : p \in played}

NeedsKeys(p) == \E k \in DOMAIN p : p[k] \in {"tap", "mediatap", "press", "release"}
NeedsMidi(p) == \E k \in DOMAIN p : p[k] \in {"on", "off", "light"}

\* The head of the queue is evaluated: an error, or a plan whose devices are
\* not there, leaves no trace.
Take(t) ==
    LET u == [t EXCEPT !.queue = Tail(@)]
    IN  {[go |-> FALSE, st |-> u]} \cup
        {[go |-> TRUE, st |-> [u EXCEPT !.active = Head(t.queue).index, !.plan = p,
                                        !.uses = NeedsKeys(p), !.waits = {}]]
         : p \in {q \in Plan : /\ NeedsKeys(q) => t.enabled /\ t.open
                               /\ NeedsMidi(q) => t.midi.conn}}

Waiting(t) ==
    \/ "midi" \in t.waits /\ t.midi.pend # <<>>
    \/ "keys" \in t.waits /\ (t.chords # <<>> \/ (t.down # "no" /\ ~t.held))

\* The rest of a poll once a script is active.
Resume(t, late, mayFail) ==
    IF late \/ (t.uses /\ (~t.enabled \/ ~t.open)) THEN Fail(t, mayFail)
    ELSE IF Waiting(t) THEN {t}
    ELSE Play([t EXCEPT !.waits = {}], mayFail)

\* pollMacros
PollMacros(t, late, mayFail) ==
    UNION {LET u == f[2] IN
           IF ~f[1] /\ "midi" \in u.waits /\ ~Idle(u) THEN Fail(u, mayFail)
           ELSE IF u.newSession /\ ~Idle(u) /\ u.uses THEN Fail([u EXCEPT !.newSession = FALSE], mayFail)
           ELSE LET v == [u EXCEPT !.newSession = FALSE]
                IN  IF ~Idle(v) THEN Resume(v, late, mayFail)
                    ELSE IF v.queue = <<>> \/ v.down # "no" \/ v.chords # <<>> THEN {v}
                    ELSE UNION {IF p.go THEN Resume(p.st, FALSE, mayFail) ELSE {p.st} : p \in Take(v)}
           : f \in Flush(t, mayFail)}

-----------------------------------------------------------------------------
(* The steps of the main loop, and of the world.                           *)

Spend(kind) == left[kind] > 0 /\ left' = [left EXCEPT ![kind] = @ - 1]
Free == UNCHANGED left

\* MidiContext::poll: the scripts' turn and the keyboard's turn.  A fault is
\* a write or a call that fails.
Poll == \E late \in BOOLEAN : Free /\ s' \in PollMacros(s, late, FALSE)
PollFaulty == Spend("fault") /\ s' \in PollMacros(s, FALSE, TRUE)
Keyboard == Free /\ s' \in UsbPoll(s, TRUE, FALSE)
KeyboardFaulty == Spend("fault") /\ s' \in UsbPoll(s, TRUE, TRUE)

\* The host leaves: it holds nothing down any more, and the next probe sees it.
HostLeaves == Spend("upset") /\ s.open /\ s' \in UsbPoll([s EXCEPT !.host = {}], FALSE, FALSE)

\* poll(now, passthrough, keyboard) with a setting that has changed
SetKeyboard ==
    /\ Spend("upset")
    /\ s' \in UNION {UsbPoll([u EXCEPT !.enabled = ~@], TRUE, FALSE) : u \in CloseDevices(s)}

\* A controller is found and opened; then all lights are sent.
Connect ==
    /\ ~s.midi.conn /\ Free
    /\ s' \in {Dispatch(u, "connect")
               : u \in Refresh([s EXCEPT !.midi = [Silent EXCEPT !.conn = TRUE]], FALSE)}

\* disconnect(): the controller has gone and took its notes with it.
Disconnect ==
    /\ s.midi.conn /\ Spend("upset")
    /\ s' \in {Dispatch([u EXCEPT !.midi = Silent, !.sounds = FALSE, !.lamp = FALSE, !.lost = FALSE], "leave")
               : u \in UNION {CloseDevices(v) : v \in Stop(s, FALSE)}}

\* syncMacros, after the scripts were saved or removed, or their file has
\* been read again: nothing unless they differ.
Edit ==
    /\ Spend("upset")
    /\ \E d \in Library \ {s.defs} :
         s' \in UNION {Refresh([u EXCEPT !.defs = d], FALSE) : u \in Stop(s, FALSE)}

\* POST /api/scripts/run, triggerMacro
Run ==
    /\ Spend("trigger")
    /\ \E i \in DOMAIN s.defs : Listens(s, i, "run") /\ s' \in After(Queued(s, i, "run"))

\* Mutant of Boot: dispatched whatever room there is.
BootInAnyRoom == ~s.booted /\ Free /\ s' = [Dispatch(s, "boot") EXCEPT !.booted = TRUE]

\* pollScriptLifecycle: the boot hooks once, when there is room for all of them.
Boot ==
    /\ ~s.booted /\ Free
    /\ Cardinality({i \in DOMAIN s.defs : Listens(s, i, "boot")}) <= QueueMax - Len(s.queue)
    /\ s' = [Dispatch(s, "boot") EXCEPT !.booted = TRUE]

\* pollScriptLifecycle: a second has passed.
Timer ==
    /\ s.booted /\ Free
    /\ LET tick(t, i) ==
             IF Listens(t, i, "timer") /\ [index |-> i, kind |-> "timer"] \notin ToSet(t.queue)
             THEN CHOOSE u \in After(Queued(t, i, "timer")) : TRUE ELSE t
       IN  s' = FoldLeft(tick, s, [i \in DOMAIN s.defs |-> i])

Next ==
    \/ Poll \/ PollFaulty \/ Keyboard \/ KeyboardFaulty \/ HostLeaves \/ SetKeyboard
    \/ Connect \/ Disconnect \/ Edit \/ Run \/ Boot \/ Timer

Spec == Init /\ [][Next]_vars

-----------------------------------------------------------------------------

TypeOK ==
    /\ s.defs \in Library
    /\ s.queue \in Seq([index : DOMAIN s.defs, kind : {"run", "boot", "timer", "connect", "leave"}])
    /\ Len(s.queue) <= QueueMax /\ Len(s.chords) <= QueueMax /\ Len(s.midi.pend) <= PendMax
    /\ s.active \in {None} \cup DOMAIN s.defs
    /\ s.host \subseteq Keys /\ s.down \in Keys \cup {"no"}

\* However a script ended - to its end, failed, late, edited away - the
\* controller is left without a note of it and without its light, once what
\* is queued has been sent; except that the output has failed or its full
\* queue refused a message (runtime.cpp:613-631: releaseMacroMidi).
LeftAsFound ==
    Idle(s) /\ s.midi.conn /\ ~s.midi.failed /\ ~s.lost =>
        LET t == Deliver(s, Len(s.midi.pend)) IN ~t.sounds /\ ~t.lamp

\* While a keyboard session is open the keys the host holds down are those
\* the program will lift: no key stays down after its report was dropped, the
\* plan cancelled or the other kind of key taken (usb.cpp:182-283); and none
\* is held on for a script that is not active any more.
KeysAreLifted ==
    /\ s.open /\ ~s.fresh => s.host = {s.down} \ {"no"}
    /\ Idle(s) => ~s.held

\* The boot hooks are queued once, and then for every script that has one:
\* not for the first of them alone when the queue was nearly full
\* (runtime.cpp:181-193).
BootReachesAll ==
    [][LET boots(t) == {k \in DOMAIN t.queue : t.queue[k].kind = "boot"}
       IN  IF s'.booted # s.booted
           THEN \A i \in DOMAIN s.defs : Listens(s, i, "boot") =>
                    Cardinality({k \in boots(s') : s'.queue[k].index = i}) = 1
           ELSE Cardinality(boots(s')) <= Cardinality(boots(s))]_vars

\* A timer event that still waits is not queued again, and whatever was
\* queued for scripts that have been replaced has gone with them
\* (runtime.cpp:43-50, 198-209).
QueueIsCurrent ==
    /\ \A i \in DOMAIN s.defs :
         Cardinality({k \in DOMAIN s.queue : s.queue[k] = [index |-> i, kind |-> "timer"]}) <= 1
    /\ \A k \in DOMAIN s.queue : Listens(s, s.queue[k].index, s.queue[k].kind)

\* A script leaves nothing behind: no note, no light, no key, no event.
NothingStays == LeftAsFound /\ KeysAreLifted /\ QueueIsCurrent
=============================================================================
