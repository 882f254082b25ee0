------------------------------ MODULE Supervisor ------------------------------
(***************************************************************************)
(* PID 1 (src/init/watchdog.cpp): it starts the runtime, kills it when its *)
(* heartbeat stops (include/watchdog_heartbeat.hpp), starts it again, and  *)
(* looks after a service beside it.  The runtime has workers in its        *)
(* process group.  A failed trial of an update reboots instead             *)
(* (BootRecovery).  One unit of time is longer than a round of the         *)
(* supervisor, which never waits for more than half a second.              *)
(***************************************************************************)
EXTENDS Integers

CONSTANTS
    StartupTimeout,     \* kStartupTimeoutMs
    HeartbeatTimeout,   \* kHeartbeatTimeoutMs
    MaxDelay,           \* kMaximumRestartDelaySeconds
    Stable,             \* a minute: what ran for longer starts again with the first delay
    MaxTime, MaxFaults

ASSUME SupervisorAssumption ==
    /\ StartupTimeout \in Nat /\ HeartbeatTimeout \in Nat /\ MaxDelay \in Nat \ {0}
    /\ Stable \in Nat /\ MaxTime \in Nat /\ MaxFaults \in Nat

VARIABLES
    now,
    rt,      \* the runtime: state, workers in its group, when it last wrote to the pipe,
             \*   and the longest that it was silent
    pipe,    \* unread heartbeats
    pc, looked,                      \* of the supervisor: the next step, a round in this unit
    launched, progress, received,    \* launchTime, lastProgressTime, receivedHeartbeat
    delay, until,                    \* restartDelaySeconds, the end of the sleep
    svc,     \* the service: state, Service::startedMs, nextStartMs and restartDelaySeconds,
             \*   when it ended and how long it is to rest since
    faults   \* bound on what fails

runVars == <<rt, pipe>>
supVars == <<pc, launched, progress, received, delay, until>>
supervisorVars == <<now, runVars, supVars, looked, svc, faults>>

-----------------------------------------------------------------------------
Longer(a, b) == IF a >= b THEN a ELSE b
Silence == now - Longer(rt.beat, launched)
NextBackoff(d) == IF 2 * d > MaxDelay THEN MaxDelay ELSE 2 * d
Fault == faults > 0 /\ faults' = faults - 1

SupInit ==
    /\ now = 0
    /\ rt = [state |-> "none", workers |-> FALSE, beat |-> 0, worst |-> 0] /\ pipe = FALSE
    /\ pc = "launch" /\ looked = FALSE
    /\ launched = 0 /\ progress = 0 /\ received = FALSE /\ delay = 1 /\ until = 0
    /\ svc = [state |-> "up", started |-> 0, next |-> 0, delay |-> 1, ended |-> 0, rest |-> 0]
    /\ faults = MaxFaults

\* Time passes in poll() and nanosleep(), which return within the unit.
Tick ==
    /\ now < MaxTime /\ pc \in {"poll", "sleep"} /\ looked
    /\ now' = now + 1 /\ looked' = FALSE
    /\ rt' = IF rt.state \in {"starting", "up", "stuck"}
             THEN [rt EXCEPT !.worst = Longer(@, Silence + 1)] ELSE rt
    /\ UNCHANGED <<pipe, supVars, svc, faults>>

-----------------------------------------------------------------------------
(* The runtime and the service                                             *)

Runs == rt.state \in {"starting", "up"}
\* The main loop reports, or a long transfer during the start does.
Report ==
    /\ Runs /\ rt.beat # now /\ pipe' = TRUE
    /\ rt' = [rt EXCEPT !.beat = now] /\ UNCHANGED <<now, supVars, looked, svc, faults>>
FinishStart ==
    /\ rt.state = "starting" /\ rt' = [rt EXCEPT !.state = "up"]
    /\ UNCHANGED <<now, pipe, supVars, looked, svc, faults>>
StartWorker ==
    /\ rt.state = "up" /\ ~rt.workers /\ rt' = [rt EXCEPT !.workers = TRUE]
    /\ UNCHANGED <<now, pipe, supVars, looked, svc, faults>>
\* Its main loop hangs, or it exits; workers outlive it.
Hang ==
    /\ Runs /\ Fault /\ rt' = [rt EXCEPT !.state = "stuck"]
    /\ UNCHANGED <<now, pipe, supVars, looked, svc>>
Exit ==
    /\ rt.state \in {"starting", "up", "stuck"} /\ Fault /\ rt' = [rt EXCEPT !.state = "exited"]
    /\ UNCHANGED <<now, pipe, supVars, looked, svc>>
ServiceExits ==
    /\ svc.state = "up" /\ Fault /\ svc' = [svc EXCEPT !.state = "exited", !.ended = now]
    /\ UNCHANGED <<now, runVars, supVars, looked>>

-----------------------------------------------------------------------------
(* The service, as superviseService() and reapOrphans() see it             *)

\* handleServiceExit()
ServiceEnded ==
    LET d == IF now - svc.started >= Stable THEN 1 ELSE svc.delay
    IN  [svc EXCEPT !.state = "none", !.next = now + d, !.delay = NextBackoff(d), !.rest = d]
\* startService(); a fork that fails is tried again later.
ServiceStarted == [svc EXCEPT !.state = "up", !.started = now]
ServiceNotStarted ==
    [svc EXCEPT !.next = now + svc.delay, !.delay = NextBackoff(@), !.ended = now, !.rest = svc.delay]

\* superviseService()
Supervise ==
    \/ svc.state = "exited" /\ svc' = ServiceEnded /\ UNCHANGED faults
    \/ svc.state = "none" /\ now >= svc.next
       /\ \/ svc' = ServiceStarted /\ UNCHANGED faults
          \/ svc' = ServiceNotStarted /\ Fault
    \/ svc.state = "up" /\ UNCHANGED <<svc, faults>>
    \/ svc.state = "none" /\ now < svc.next /\ UNCHANGED <<svc, faults>>

-----------------------------------------------------------------------------
(* The supervisor                                                          *)

\* startRuntime()
Launch ==
    /\ pc = "launch" /\ pc' = "poll" /\ pipe' = FALSE
    /\ rt' = [state |-> "starting", workers |-> rt.workers, beat |-> now, worst |-> 0]
    /\ launched' = now /\ progress' = now /\ received' = FALSE
    /\ UNCHANGED <<now, looked, delay, until, svc, faults>>
CannotLaunch ==
    /\ pc = "launch" /\ Fault /\ pc' = "sleep"
    /\ until' = now + delay /\ delay' = NextBackoff(delay)
    /\ UNCHANGED <<now, runVars, looked, launched, progress, received, svc>>

\* waitForRuntime(): the pipe, the service, the process and the clock, in this order.
DrainHeartbeats ==
    /\ pc = "poll" /\ pc' = "service" /\ pipe' = FALSE
    /\ progress' = IF pipe THEN now ELSE progress
    /\ received' = (received \/ pipe)
    /\ UNCHANGED <<now, rt, looked, launched, delay, until, svc, faults>>
WhileWaiting ==
    /\ pc = "service" /\ pc' = "reap" /\ Supervise
    /\ UNCHANGED <<now, runVars, looked, launched, progress, received, delay, until>>
Reap ==
    /\ pc = "reap"
    /\ pc' = IF rt.state = "exited" THEN "clean" ELSE "clock"
    /\ UNCHANGED <<now, runVars, looked, launched, progress, received, delay, until, svc, faults>>
TimedOut ==
    IF received THEN now - progress > HeartbeatTimeout ELSE now - launched > StartupTimeout
CheckClock ==
    /\ pc = "clock" /\ looked' = TRUE
    /\ pc' = IF TimedOut THEN "clean" ELSE "poll"
    /\ UNCHANGED <<now, runVars, launched, progress, received, delay, until, svc, faults>>

\* Mutant of Killed: only a process that still runs is killed.
KilledIfRunning(r) ==
    IF r.state = "exited" THEN [r EXCEPT !.state = "none"]
    ELSE [r EXCEPT !.state = "none", !.workers = FALSE]
\* kill(-child): the whole group, also when the runtime has ended by itself.
Killed(r) == [r EXCEPT !.state = "none", !.workers = FALSE]
\* The rest of main(): reapOrphans() meets the service, too.
CleanUp ==
    /\ pc = "clean" /\ pc' = "sleep" /\ rt' = Killed(rt) /\ pipe' = FALSE
    /\ svc' = IF svc.state = "exited" THEN ServiceEnded ELSE svc
    /\ delay' = IF now - launched >= Stable THEN 1 ELSE NextBackoff(delay)
    /\ until' = now + delay'
    /\ UNCHANGED <<now, looked, launched, progress, received, faults>>

\* sleepSupervising()
Sleep ==
    /\ pc = "sleep" /\ Supervise /\ looked' = TRUE
    /\ pc' = IF now >= until THEN "launch" ELSE "sleep"
    /\ UNCHANGED <<now, runVars, launched, progress, received, delay, until>>

SupNext ==
    \/ Tick \/ Report \/ FinishStart \/ StartWorker \/ Hang \/ Exit \/ ServiceExits
    \/ Launch \/ CannotLaunch \/ DrainHeartbeats \/ WhileWaiting \/ Reap \/ CheckClock \/ CleanUp \/ Sleep

SupSpec == SupInit /\ [][SupNext]_supervisorVars
-----------------------------------------------------------------------------
\* A runtime is started when nothing is left of the one before: two of them would share
\* the sound cards, the files and the USB gadget, also if only a worker was left.
OneRuntime == pc = "launch" => rt.state = "none" /\ ~rt.workers

\* Only a runtime that was silent for as long as the timeout, but for a round, is taken
\* for dead, although its reports are read late, and wait while the service is looked after;
OnlySilentIsKilled ==
    pc = "clean" /\ rt.state # "exited" =>
        rt.worst >= IF received THEN HeartbeatTimeout ELSE StartupTimeout
\* and one that hangs or has ended is gone after the timeout and a round or two
\* (docs/guide/system.md:362).
SilentIsGone ==
    rt.state \in {"starting", "up", "stuck"} =>
        Silence <= (IF received \/ pipe THEN HeartbeatTimeout ELSE StartupTimeout) + 2
\* The longest rest between two runtimes (docs/guide/system.md:362, "capped backoff").
RestIsShort == pc = "sleep" => until - now <= MaxDelay

\* The service runs, or is started again when it has rested, and in time whatever the
\* runtime is up to.
ServiceReturns == svc.state # "up" => now <= svc.ended + MaxDelay + 2
ServiceRests == svc.state = "up" => svc.started >= svc.ended + svc.rest

Supervised ==
    /\ OneRuntime /\ OnlySilentIsKilled /\ SilentIsGone /\ RestIsShort
    /\ ServiceReturns /\ ServiceRests

SupTyped ==
    /\ now \in 0..MaxTime /\ rt.state \in {"none", "starting", "up", "stuck", "exited"}
    /\ pc \in {"launch", "poll", "service", "reap", "clock", "clean", "sleep"}
    /\ delay \in 1..MaxDelay /\ svc.delay \in 1..MaxDelay
=============================================================================
