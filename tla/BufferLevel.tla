------------------------------ MODULE BufferLevel ------------------------------
(***************************************************************************)
(* How large the buffers of the PCM streams are: AdaptiveAudioBuffer       *)
(* (src/include/audio/health.hpp) raises the level after a burst of X-runs *)
(* and takes it back when it has been quiet, more reluctantly each time    *)
(* that this turned out to be too early.  All of it runs on the audio      *)
(* thread, at times that AudioStreams leaves open.  Times are in steps of  *)
(* a clock that stands still for as long as the code does not look.        *)
(***************************************************************************)
EXTENDS Integers, Sequences, FiniteSets

CONSTANTS
    Burst,         \* kXrunsToIncrease
    Window,        \* kXrunWindowMs
    StartupGrace, ShiftGrace, QuietPeriod, BusyQuietPeriod,
    RetryWindow,   \* kDownshiftRetryWindowMs
    Backoff,       \* kDownshiftBackoffMs
    MaxLevel,      \* maxLevel(): from a period of BUFFER_FRAMES to kMaxPeriodFrames
    MaxTime        \* bound of the clock

VARIABLES
    now, level,
    graceUntil, lastXrunAt, hasXrun,
    xrunTimes, xrunIndex,     \* 0: none; the clock starts at 1
    recentBurst,              \* recentBurstCount_
    failures,                 \* downshiftFailures_
    lowered,                  \* pendingDownshiftFromLevel_ and lastDownshiftAt_
    settled, raised, changed  \* history: the X-runs since it last settled, the last rise,
                              \*   and when the buffers changed

levelVars == <<now, level, graceUntil, lastXrunAt, hasXrun, xrunTimes, xrunIndex, recentBurst,
               failures, lowered, settled, raised, changed>>

\* As in the code: a busy time asks for no less quiet than another.
ASSUME LevelAssumption ==
    /\ {Burst, MaxTime} \subseteq Nat \ {0}
    /\ {Window, StartupGrace, ShiftGrace, BusyQuietPeriod, RetryWindow, MaxLevel} \subseteq Nat
    /\ QuietPeriod \in 0..BusyQuietPeriod /\ Backoff \in [1..4 -> Nat]

-----------------------------------------------------------------------------
Larger(a, b) == IF a >= b THEN a ELSE b
Place == 0..(Burst - 1)

LevelInit ==
    /\ now = 1 /\ level = 0 /\ graceUntil = 1 + StartupGrace
    /\ lastXrunAt = 0 /\ hasXrun = FALSE
    /\ xrunTimes = [p \in Place |-> 0] /\ xrunIndex = 0 /\ recentBurst = 0
    /\ failures = 0 /\ lowered = [from |-> 0, at |-> 0]
    /\ settled = <<>> /\ raised = [at |-> 0, busy |-> FALSE] /\ changed = 0

Later ==
    /\ now < MaxTime /\ now' = now + 1
    /\ UNCHANGED <<level, graceUntil, lastXrunAt, hasXrun, xrunTimes, xrunIndex, recentBurst,
                   failures, lowered, settled, raised, changed>>

\* Mutant of BufferChanged: the X-runs that were counted count on.
ChangedKeepsTimes ==
    /\ graceUntil' = Larger(graceUntil, now + ShiftGrace) /\ lastXrunAt' = now
    /\ UNCHANGED <<xrunTimes, xrunIndex>>
    /\ settled' = <<>> /\ changed' = now

\* bufferChanged(): what happened before is forgotten, and what happens soon is not counted.
BufferChanged ==
    /\ graceUntil' = Larger(graceUntil, now + ShiftGrace) /\ lastXrunAt' = now
    /\ xrunTimes' = [p \in Place |-> 0] /\ xrunIndex' = 0
    /\ settled' = <<>> /\ changed' = now

\* A stream was opened.
Opens ==
    /\ BufferChanged
    /\ UNCHANGED <<now, level, hasXrun, recentBurst, failures, lowered, raised>>

-----------------------------------------------------------------------------
(* recordXrun(); an X-run before graceUntil changes nothing                *)

Times == [xrunTimes EXCEPT ![xrunIndex % Burst] = now]
Recent == Cardinality({p \in Place : Times[p] # 0 /\ now - Times[p] <= Window})
\* The last of the X-runs that count, Burst of them at most.
Remembered == LET all == Append(settled, now)
              IN  SubSeq(all, Larger(1, Len(all) - Burst + 1), Len(all))
Raises == Recent >= Burst /\ level < MaxLevel

CountXrun ==
    /\ now >= graceUntil /\ ~Raises
    /\ lastXrunAt' = now /\ hasXrun' = TRUE /\ xrunTimes' = Times
    /\ xrunIndex' = (xrunIndex + 1) % Burst /\ recentBurst' = Recent
    /\ settled' = Remembered /\ raised' = [raised EXCEPT !.busy = FALSE]
    /\ UNCHANGED <<now, level, graceUntil, failures, lowered, changed>>

\* The last step down led straight back up.
Failed == lowered.from = level + 1 /\ now - lowered.at <= RetryWindow

Raise ==
    /\ now >= graceUntil /\ Raises /\ level' = level + 1
    /\ failures' = IF Failed /\ failures < 3 THEN failures + 1 ELSE failures
    /\ lowered' = [lowered EXCEPT !.from = 0]
    /\ hasXrun' = TRUE /\ recentBurst' = Recent /\ BufferChanged
    /\ raised' = [at |-> now, busy |-> TRUE]
    /\ UNCHANGED now

-----------------------------------------------------------------------------
(* tick(), once in every block                                             *)

RequiredQuiet ==
    Larger(IF recentBurst >= Burst THEN BusyQuietPeriod ELSE QuietPeriod, Backoff[failures + 1])

Lower ==
    /\ level > 0 /\ hasXrun /\ now >= graceUntil /\ now - lastXrunAt >= RequiredQuiet
    /\ level' = level - 1 /\ lowered' = [from |-> level, at |-> now]
    /\ recentBurst' = 0 /\ BufferChanged
    /\ UNCHANGED <<now, hasXrun, failures, raised>>

LevelNext == Later \/ Opens \/ CountXrun \/ Raise \/ Lower

LevelSpec == LevelInit /\ [][LevelNext]_levelVars
-----------------------------------------------------------------------------
\* Burst X-runs within the window raise the level, if and only if all of them came
\* after the buffers had settled: after the first minute, and ShiftGrace after the last
\* shift or opening of a stream (docs/guide/system.md:113-117).  The ring of times that
\* decides is cleared with every change.
IsBurst(times) == Len(times) = Burst /\ now - times[1] <= Window
RisesOnBursts ==
    /\ level' > level =>
        /\ IsBurst(Remembered) /\ now > StartupGrace
        /\ changed > 0 => now - changed >= ShiftGrace
    /\ level' = level /\ settled' # <<>> => ~IsBurst(settled') \/ level = MaxLevel

\* The level goes down one step at a time, when it has been quiet: since the last
\* X-run and the last change, since a burst that no other X-run followed (one that did
\* would make the wait the shorter one again), and for the longer, the more steps down
\* have led straight back up (docs/guide/system.md:107-113).
StepsBackWhenCalm ==
    level' < level =>
        /\ level' = level - 1 /\ now - changed >= QuietPeriod
        /\ settled # <<>> => now - settled[Len(settled)] >= QuietPeriod
        /\ now - raised.at >= (IF raised.busy THEN Larger(BusyQuietPeriod, Backoff[failures + 1])
                               ELSE Backoff[failures + 1])

LevelsSettle == [][RisesOnBursts /\ StepsBackWhenCalm]_levelVars

LevelTyped ==
    /\ level \in 0..MaxLevel /\ failures \in 0..3 /\ recentBurst \in 0..Burst /\ hasXrun \in BOOLEAN
    /\ graceUntil \in 1..(MaxTime + StartupGrace + ShiftGrace)
    /\ lastXrunAt \in 0..now /\ lowered.from \in 0..MaxLevel
    /\ xrunTimes \in [Place -> 0..now] /\ xrunIndex \in Place
=============================================================================
