--------------------------- MODULE UsageTelemetry ---------------------------
(***************************************************************************)
(* Usage telemetry: the points the device collects while the user consents *)
(* (src/system/usage_telemetry.cpp, usage_telemetry_store.cpp), and the    *)
(* relay in every open WebUI tab that carries them to the collector and    *)
(* has the device drop what the collector took (web/embedded/telemetry.js, *)
(* the /api/telemetry requests of src/http/api.cpp).                       *)
(*                                                                         *)
(* A handler of the device is one step, but it is a series of durable      *)
(* operations, any of which may fail, before or after it took effect, or   *)
(* be the last before the power goes.  Between the requests of one relay   *)
(* anything may happen: points are collected, another tab uploads the same *)
(* batch, or changes the consent; answers are lost and requests are late.  *)
(*                                                                         *)
(* A point is <<installation id, number>>; ids are random, so never given  *)
(* twice.  0 is no id.                                                     *)
(***************************************************************************)
EXTENDS Naturals, SequencesExt

CONSTANTS
    Tab,            \* open WebUI tabs
    Capacity,       \* kCapacity
    Overflow,       \* kBatchSize: points a full queue gives up
    UploadSize,     \* kUploadSize
    Threshold,      \* pending points an upload begins at
    MaxPoints,      \* bound: points collected
    MaxDecisions,   \* bound: decisions on the consent
    MaxFailures     \* bound: operations and requests that fail, restarts

ASSUME UsageAssumption ==
    {Capacity, Overflow, MaxPoints, MaxDecisions, MaxFailures} \subseteq Nat /\ UploadSize \in Nat \ {0}

VARIABLES
    disk,           \* the telemetry files
    mem,            \* Store
    tab,            \* the relay of each tab
    acks,           \* requests to /ack whose relay does not wait for them any more
    collected,      \* points the collector has
    hist,           \* history: ids given, points stored, given up, opted out
                    \* of, and sent after they were; opt-ins; whether the last
                    \* decision was an opt-out that succeeded
    budget

usageVars == <<disk, mem, tab, acks, collected, hist, budget>>

-----------------------------------------------------------------------------
(* A durable operation leaves the files as e, fails before or after, or is *)
(* the last one.                                                           *)

Op(t, e) ==
    {[t EXCEPT !.disk = e]} \cup
    {[t EXCEPT !.disk = d, !.how = h] : d \in {t.disk, e}, h \in {"failed", "died"}}

Then(S, F(_)) == UNION {IF t.how = "ok" THEN F(t) ELSE {t} : t \in S}

Begin == [disk |-> disk, mem |-> mem, how |-> "ok"]

Rewrite(t, q) == Op(t, [t.disk EXCEPT !.queue = q, !.torn = FALSE])
Keep(t, q)    == Then(Rewrite(t, q), LAMBDA u : {[u EXCEPT !.mem.points = q]})

\* load(), as the program starts: an opt-in to an older notice is no consent,
\* and a queue that is not whole and of this id is not used.
AsLoaded(d) ==
    LET consent == IF d.consent # "none" THEN d.consent ELSE IF d.legacy = "0" THEN "0" ELSE "unknown"
        whole   == d.id # 0 /\ ~d.torn /\ Len(d.queue) <= Capacity /\ \A p \in ToSet(d.queue) : p[1] = d.id
    IN  [consent |-> consent, error |-> consent = "1" /\ ~whole,
         id      |-> IF consent = "1" THEN d.id ELSE 0,
         points  |-> IF consent = "1" /\ whole THEN d.queue ELSE <<>>]

Unreadable == [consent |-> "unknown", error |-> TRUE, id |-> 0, points |-> <<>>]

\* setConsent(enabled), in its order: what is left of an earlier period goes
\* before the consent that would publish it, the consent goes before the id.
Renew(t, on) ==
    IF ~on \/ t.mem.consent = "1" THEN {t}
    ELSE Then(Then(Rewrite(t, <<>>),
                   LAMBDA u : {[u EXCEPT !.mem.id = hist.ids + 1], [u EXCEPT !.how = "failed"]}),
              LAMBDA u : Op(u, [u.disk EXCEPT !.id = u.mem.id]))

Decide(t, on) ==
    LET c == IF on THEN "1" ELSE "0"
    IN  Then(Op(t, [t.disk EXCEPT !.consent = c]),
             LAMBDA u : {[u EXCEPT !.mem.consent = c, !.mem.error = FALSE,
                                   !.mem.points = IF on /\ u.mem.consent = "1" THEN @ ELSE <<>>]})

Erase(t, on) == IF on THEN {t} ELSE Op([t EXCEPT !.mem.id = 0], [t.disk EXCEPT !.id = 0])

Retire(t) == Op(t, [t.disk EXCEPT !.legacy = "none"])

Settle(t, on) == IF on /\ mem.consent = "1" THEN {t} ELSE Rewrite(t, t.mem.points)

SetConsent(on) ==
    IF on /\ mem.error /\ mem.consent = "1" THEN {[Begin EXCEPT !.how = "refused"]}
    ELSE Then(Then(Then(Then(Renew(Begin, on), LAMBDA t : Decide(t, on)), LAMBDA t : Erase(t, on)), Retire),
              LAMBDA t : Settle(t, on))

\* append(): the oldest points give way when the queue is full; the record
\* may be torn, or be whole though append() says it failed.
Append1(t, p) ==
    Then(IF Len(t.mem.points) < Capacity THEN {t}
         ELSE Keep(t, SubSeq(t.mem.points, Overflow + 1, Capacity)),
         LAMBDA u : {[v EXCEPT !.mem.points = Append(@, p)]
                        : v \in {w \in Op(u, [u.disk EXCEPT !.queue = Append(@, p)]) : w.how = "ok"}} \cup
                    {v \in Op(u, [u.disk EXCEPT !.queue = Append(@, p)]) \cup Op(u, [u.disk EXCEPT !.torn = TRUE])
                        : v.how # "ok"})

Smaller(m, n) == IF m < n THEN m ELSE n
Batch   == SubSeq(mem.points, 1, Smaller(Len(mem.points), UploadSize))
Token(b) == <<Head(b), b[Len(b)]>>
Works   == mem.consent = "1" /\ ~mem.error

\* Mutant of Acknowledge: a batch that begins elsewhere is dropped all the same.
AcknowledgeAny(token) == Keep(Begin, SubSeq(mem.points, Len(Batch) + 1, Len(mem.points)))

\* acknowledge(): the points up to the token's last, if the queue still
\* begins with its first.
Acknowledge(token) ==
    LET at == {k \in DOMAIN Batch : Batch[k] = token[2]}
    IN  IF ~Works \/ mem.points = <<>> THEN {[Begin EXCEPT !.how = "refused"]}
        ELSE IF token[1] # Head(mem.points) \/ at = {} THEN {[Begin EXCEPT !.how = "refused"]}
        ELSE Keep(Begin, SubSeq(mem.points, (CHOOSE k \in at : TRUE) + 1, Len(mem.points)))

-----------------------------------------------------------------------------
(* Steps of the device.                                                    *)

Use(kind, n) == budget[kind] >= n /\ budget' = [budget EXCEPT ![kind] = @ - n]

\* What a handler leaves; one that dies is followed by the next start.
Leaves(r) ==
    /\ disk' = r.disk
    /\ mem' = IF r.how = "died" THEN AsLoaded(r.disk)
              ELSE [r.mem EXCEPT !.error = @ \/ r.how = "failed"]
Cost(r) == IF r.how \in {"failed", "died"} THEN 1 ELSE 0

\* poll(): a point of the last interval, which the idle filter may skip.
Collect ==
    /\ Works /\ budget.points > 0
    /\ LET p == <<mem.id, budget.points>>
       IN  \E r \in Append1(Begin, p) :
              /\ Leaves(r) /\ budget.faults >= Cost(r)
              /\ budget' = [budget EXCEPT !.points = @ - 1, !.faults = @ - Cost(r)]
              /\ hist' = [hist EXCEPT !.stored = IF r.how = "ok" THEN @ \cup {p} ELSE @,
                                      !.given = @ \cup (ToSet(disk.queue) \ ToSet(r.disk.queue))]
    /\ UNCHANGED <<tab, acks, collected>>

AtRest(t) == [t EXCEPT !.pc = "idle", !.batch = <<>>, !.remaining = 0, !.since = 0]
StopRelay(b) == tab' = [tab EXCEPT ![b] = AtRest(@)]

\* The request it waits for is not called back: the collector may have the
\* batch, the device may yet see the acknowledgement.
Abandon(b) ==
    /\ StopRelay(b)
    /\ collected' \in {collected} \cup IF tab[b].pc = "sent" THEN {collected \cup ToSet(tab[b].batch)} ELSE {}
    /\ acks' \in {acks} \cup IF tab[b].pc = "acking" THEN {acks \cup {Token(tab[b].batch)}} ELSE {}

\* POST /api/telemetry from a tab, whose relay is cancelled.
Consent(b, on) ==
    \E r \in SetConsent(on) :
        /\ Leaves(r)
        /\ budget.decisions > 0 /\ budget.faults >= Cost(r)
        /\ budget' = [budget EXCEPT !.decisions = @ - 1, !.faults = @ - Cost(r)]
        /\ hist' = [hist EXCEPT !.ids = IF r.mem.id > @ THEN r.mem.id ELSE @,
                                !.given = @ \cup (ToSet(disk.queue) \ ToSet(r.disk.queue)),
                                !.out = IF ~on /\ r.disk.consent = "0" THEN @ \cup hist.stored ELSE @,
                                !.erased = IF r.how = "refused" THEN @ ELSE r.how = "ok" /\ ~on,
                                !.optIns = IF on THEN @ + 1 ELSE @]
        /\ Abandon(b)

DeviceRestarts ==
    /\ Use("faults", 1)
    /\ mem' \in {AsLoaded(disk), Unreadable}
    /\ UNCHANGED <<disk, tab, acks, collected, hist>>

-----------------------------------------------------------------------------
(* A relay: tick(), one request after the other.                           *)

Rest == UNCHANGED <<disk, mem, acks, collected, budget>>

\* GET /api/telemetry: a cycle begins, or goes on if one was interrupted.
TelemetryTick(b) ==
    /\ tab[b].pc = "idle" /\ Rest /\ UNCHANGED hist
    /\ ~mem.error /\ mem.consent # "unknown"
    /\ LET pending  == Len(mem.points)
           draining == mem.consent = "1" /\ pending > 0 /\ (tab[b].draining \/ pending >= Threshold)
       IN  tab' = [tab EXCEPT ![b].draining = draining,
                              ![b].pc = IF draining THEN "batch" ELSE "idle",
                              ![b].remaining = IF draining THEN pending ELSE 0]

\* GET /api/telemetry/batch
GetBatch(b) ==
    /\ tab[b].pc = "batch" /\ Rest /\ UNCHANGED hist
    /\ IF Works /\ mem.points # <<>>
       THEN tab' = [tab EXCEPT ![b].pc = "check", ![b].batch = Batch, ![b].since = hist.optIns]
       ELSE StopRelay(b)

\* POST of the batch to the collector
Send(b) ==
    /\ tab' = [tab EXCEPT ![b].pc = "sent"]
    /\ hist' = [hist EXCEPT !.late =
                   @ \cup {p \in ToSet(tab[b].batch) \cap hist.out : tab[b].since = hist.optIns}]

\* GET /api/telemetry: has another tab opted out since?
Check(b) ==
    /\ tab[b].pc = "check" /\ Rest
    /\ IF Works THEN Send(b)
       ELSE tab' = [tab EXCEPT ![b] = [AtRest(tab[b]) EXCEPT !.draining = @ /\ mem.error]] /\ UNCHANGED hist

\* The collector takes a batch, points it has already among them, and the
\* relay has its receipt.
Receive(b) ==
    /\ tab[b].pc = "sent" /\ collected' = collected \cup ToSet(tab[b].batch)
    /\ tab' = [tab EXCEPT ![b].pc = "acking"]
    /\ UNCHANGED <<disk, mem, acks, hist, budget>>

\* POST /api/telemetry/ack
Ack(b) ==
    /\ tab[b].pc = "acking" /\ UNCHANGED <<acks, collected, hist>>
    /\ \E r \in Acknowledge(Token(tab[b].batch)) :
          LET rest == Smaller(Len(r.mem.points), tab[b].remaining - Len(tab[b].batch))
              t    == AtRest(tab[b])
          IN  /\ Leaves(r) /\ Use("faults", Cost(r))
              /\ tab' = [tab EXCEPT ![b] =
                    IF r.how = "ok" /\ rest > 0 THEN [t EXCEPT !.pc = "batch", !.remaining = rest]
                    ELSE [t EXCEPT !.draining = r.how # "ok"]]

LateAck(token) ==
    /\ acks' = acks \ {token} /\ UNCHANGED <<tab, collected, hist>>
    /\ \E r \in Acknowledge(token) : Leaves(r) /\ Use("faults", Cost(r))

\* Any request: it fails, or is timed out after 30 s.
GiveUp(b) ==
    /\ tab[b].pc # "idle" /\ Abandon(b) /\ Use("faults", 1)
    /\ UNCHANGED <<disk, mem, hist>>

\* A device that was never asked, or under an older notice, or has consented
\* and collected, or has opted out since and cleaned up nothing.
Asked == [consent |-> "none", legacy |-> "none", id |-> 0, queue |-> <<>>, torn |-> FALSE]
UsageInit ==
    /\ disk \in {Asked, [Asked EXCEPT !.legacy = "0"], [Asked EXCEPT !.legacy = "1"],
                [Asked EXCEPT !.consent = "1", !.id = 1, !.queue = <<<<1, MaxPoints + 1>>>>],
                [Asked EXCEPT !.consent = "0", !.id = 1, !.queue = <<<<1, MaxPoints + 1>>>>]}
    /\ mem = AsLoaded(disk)
    /\ tab = [b \in Tab |-> [pc |-> "idle", draining |-> FALSE, remaining |-> 0, batch |-> <<>>, since |-> 0]]
    /\ acks = {} /\ collected = {}
    /\ hist = [ids |-> disk.id, stored |-> ToSet(disk.queue), given |-> {}, late |-> {},
               out |-> IF disk.consent = "0" THEN ToSet(disk.queue) ELSE {}, optIns |-> 0, erased |-> FALSE]
    /\ budget = [points |-> MaxPoints, decisions |-> MaxDecisions, faults |-> MaxFailures]

UsageNext ==
    \/ Collect \/ DeviceRestarts
    \/ \E b \in Tab : TelemetryTick(b) \/ GetBatch(b) \/ Check(b) \/ Receive(b) \/ Ack(b) \/ GiveUp(b)
    \/ \E b \in Tab, on \in BOOLEAN : Consent(b, on)
    \/ \E token \in acks : LateAck(token)

UsageSpec == UsageInit /\ [][UsageNext]_usageVars

-----------------------------------------------------------------------------
(* What must hold.                                                         *)

UsageTyped ==
    /\ disk.consent \in {"none", "0", "1"} /\ mem.consent \in {"unknown", "0", "1"}
    /\ Len(mem.points) <= Capacity /\ Len(disk.queue) <= Capacity + 1
    /\ \A b \in Tab : tab[b].pc \in {"idle", "batch", "check", "sent", "acking"}
    /\ collected \subseteq (1..hist.ids) \X (1..MaxPoints + 1)

\* A point that append() has stored leaves the file only because the queue
\* was full or the consent was decided anew, or after the collector has it:
\* whatever batches other tabs, overflows and restarts put between reading a
\* batch and acknowledging it (docs/dev/telemetry.md:97, "remove only the
\* matching queue prefix").
NothingIsLost ==
    \A p \in hist.stored : p \in ToSet(disk.queue) \cup hist.given \cup collected

\* Once an opt-out is on the disk, however much of its clean-up failed, no
\* batch holds a point of before it, also after a restart or an opt-in that
\* was cut off; once it has been answered with success the queue is empty and
\* the id is gone until the next opt-in; and no relay sends what it had read,
\* unless an opt-in has come between as well (docs/dev/telemetry.md:42-44, 93-95).
ForgottenIsGone ==
    /\ Works => ToSet(mem.points) \cap hist.out = {}
    /\ hist.erased => disk.queue = <<>> /\ disk.id = 0
    /\ hist.late = {}

\* A collected point is in the queue, given up, forgotten or with the collector,
\* and what the user opted out of is neither kept nor sent.
PointsAreKept == NothingIsLost /\ ForgottenIsGone
=============================================================================
