---------------------------- MODULE JobRegistry ----------------------------
(***************************************************************************)
(* ClientJobRegistry (nmapui/jobs.py): the in-memory table of scan and     *)
(* report jobs of the appliance, the subprocess each job is running, the   *)
(* pause state, the maintenance fence and the shutdown flag.               *)
(*                                                                         *)
(* Every method of the class holds self._lock from its first statement to  *)
(* its last, so one method is one action.  This module lets any caller     *)
(* call any method at any time: what it promises holds whatever the        *)
(* workflow threads, the Socket.IO handlers and the HTTP routes do.        *)
(* ScanTasks composes it with the threads that really call it.             *)
(*                                                                         *)
(* An operator that no action uses and that stands right before one of the *)
(* same parameters (StoppedKept before LeftStopped, ...) is a plausible    *)
(* slip in it: the README lists which property tells the two apart.        *)
(***************************************************************************)
EXTENDS Naturals, FiniteSets

CONSTANTS
  Sids,        \* Socket.IO session identifiers (and the auto-scan owner)
  JobTypes,    \* "scan", "report"
  Procs,       \* subprocesses that may be spawned
  Pausable,    \* those this user may signal: not started through sudo
  Upgraders,   \* holders of a maintenance token
  NoProc,      \* no subprocess attached
  NoUpgrader,  \* no maintenance token issued
  MaxActive,   \* NMAPUI_MAX_CONCURRENT_JOBS
  MaxRuns      \* bound: runs admitted in one behaviour

ASSUME RegistryAssumption ==
  /\ Pausable \subseteq Procs
  /\ NoProc \notin Procs
  /\ NoUpgrader \notin Upgraders
  /\ MaxActive \in Nat \ {0}
  /\ MaxRuns \in Nat

VARIABLES
  jobs,             \* _jobs: one record per (sid, job type)
  processes,        \* _processes: the subprocess attached to a key
  stopped,          \* _stopped_processes: keys whose subprocess got SIGSTOP
  shuttingDown,     \* _shutting_down
  maintenance,      \* _maintenance_token, as the holder it was given to
  runs,             \* source_job_id allocation: runs admitted so far
  os,               \* state of each subprocess in the operating system
  doomed            \* subprocesses terminate_all took out of _processes

registryVars ==
  <<jobs, processes, stopped, shuttingDown, maintenance, runs, os, doomed>>

-----------------------------------------------------------------------------
Keys == Sids \X JobTypes

Terminal == {"completed", "failed", "cancelled"}
Status   == {"absent", "running", "cancelling"} \union Terminal
Modes    == {"none", "process", "checkpoint"}
OSStates == {"unborn", "live", "frozen", "ended"}

Job == [run : 0..MaxRuns, status : Status, cancelReq : BOOLEAN,
        pauseReq : BOOLEAN, paused : BOOLEAN, mode : Modes,
        disconnected : BOOLEAN]

\* A key that is not in _jobs.
NoJob == [run |-> 0, status |-> "absent", cancelReq |-> FALSE,
          pauseReq |-> FALSE, paused |-> FALSE, mode |-> "none",
          disconnected |-> FALSE]

\* The record start() installs, with a fresh source_job_id.
FreshJob(r) == [NoJob EXCEPT !.run = r, !.status = "running"]

Active(j)   == j.status \in {"running", "cancelling"}
ActiveKeys  == {k \in Keys : Active(jobs[k])}
RunningKeys == {k \in Keys : jobs[k].status = "running"}
HasPause(j) == j.paused \/ j.pauseReq

\* expected_source_job_id: 0 stands for None, "whatever run is there".
Expected(k, seen) == seen \in {0, jobs[k].run}

NeverCancelled(k) == k # k
IsCancelled(k) == jobs[k].cancelReq

\* should_wait() of wait_if_paused: the condition that keeps a workflow parked.
ShouldWait(k) ==
  /\ jobs[k].status = "running"
  /\ ~jobs[k].cancelReq
  /\ ~shuttingDown
  /\ HasPause(jobs[k])

-----------------------------------------------------------------------------
(* Signals.  SIGTERM and SIGKILL are preceded by SIGCONT, so a terminated   *)
(* group is never left frozen.                                              *)

Woken(p)  == [os EXCEPT ![p] = IF @ = "frozen" THEN "live" ELSE @]
Frozen(p) == [os EXCEPT ![p] = IF @ = "live" THEN "frozen" ELSE @]

\* SIGTERM or SIGCONT to the subprocess attached to k, if there is one.
WakeAttached(k) ==
  os' = IF processes[k] = NoProc THEN os ELSE Woken(processes[k])

\* What _leave_pause_locked does to the job record and to the stopped set.
LeftPause(j) == [j EXCEPT !.paused = FALSE, !.pauseReq = FALSE, !.mode = "none"]

\* _enter_pause_locked, with the request on record; a request not yet in effect.
PausedIn(j, mode) ==
  [j EXCEPT !.pauseReq = TRUE, !.paused = TRUE, !.mode = mode]
Pausing(j) == [j EXCEPT !.pauseReq = TRUE, !.mode = "checkpoint"]

Completed(j, status) == [LeftPause(j) EXCEPT !.status = status]
Cancelling(j) ==
  [LeftPause(j) EXCEPT !.cancelReq = TRUE, !.status = "cancelling"]

StoppedKept(k) == stopped
LeftStopped(k) == IF HasPause(jobs[k]) THEN stopped \ {k} ELSE stopped

\* Its SIGCONT: only to a subprocess this registry stopped.
LeavePauseSilently(k) == UNCHANGED os
LeavePauseSignal(k) ==
  IF HasPause(jobs[k]) /\ k \in stopped THEN WakeAttached(k) ELSE UNCHANGED os

-----------------------------------------------------------------------------
Init ==
  /\ jobs = [k \in Keys |-> NoJob]
  /\ processes = [k \in Keys |-> NoProc]
  /\ stopped = {}
  /\ shuttingDown = FALSE
  /\ maintenance = NoUpgrader
  /\ runs = 0
  /\ os = [p \in Procs |-> "unborn"]
  /\ doomed = {}

\* The admission gates of start(): neither shutdown nor maintenance, and a
\* capacity slot that no running or cancelling job holds.
Admitting == ~shuttingDown /\ maintenance = NoUpgrader
CapacityFree == Cardinality(ActiveKeys) < MaxActive

Start(k) ==
  /\ Admitting
  /\ k \notin ActiveKeys
  /\ CapacityFree
  /\ runs < MaxRuns
  /\ runs' = runs + 1
  /\ jobs' = [jobs EXCEPT ![k] = FreshJob(runs + 1)]
  /\ stopped' = stopped \ {k}
  /\ UNCHANGED <<processes, shuttingDown, maintenance, os, doomed>>

\* complete(): unconditional; it creates the record when the key is absent.
Complete(k, status) ==
  /\ jobs' = [jobs EXCEPT ![k] = Completed(@, status)]
  /\ stopped' = LeftStopped(k)
  /\ LeavePauseSignal(k)
  /\ UNCHANGED <<processes, shuttingDown, maintenance, runs, doomed>>

\* cancel(): leaves the pause and terminates the attached subprocess.
Cancel(k, seen) ==
  /\ jobs[k].status = "running"
  /\ Expected(k, seen)
  /\ jobs' = [jobs EXCEPT ![k] = Cancelling(@)]
  /\ stopped' = LeftStopped(k)
  /\ WakeAttached(k)
  /\ UNCHANGED <<processes, shuttingDown, maintenance, runs, doomed>>

CanPause(k, seen) ==
  /\ jobs[k].status = "running"
  /\ Expected(k, seen)
  /\ ~jobs[k].cancelReq
  /\ ~HasPause(jobs[k])

\* SIGSTOP reaches a running subprocess; one that has exited may be a zombie
\* (the signal succeeds and does nothing) or already reaped (it fails).
StopSucceeds(p) == p \in Pausable
StopFails(p)    == p \notin Pausable \/ os[p] = "ended"

\* pause() when the attached subprocess can be suspended.
PauseProcess(k, seen) ==
  /\ CanPause(k, seen)
  /\ processes[k] # NoProc
  /\ StopSucceeds(processes[k])
  /\ os' = Frozen(processes[k])
  /\ stopped' = stopped \union {k}
  /\ jobs' = [jobs EXCEPT ![k] = PausedIn(@, "process")]
  /\ UNCHANGED <<processes, shuttingDown, maintenance, runs, doomed>>

\* pause() between commands, during a sudo command, or when SIGSTOP failed.
PauseAtCheckpoint(k, seen) ==
  /\ CanPause(k, seen)
  /\ processes[k] # NoProc => StopFails(processes[k])
  /\ jobs' = [jobs EXCEPT ![k] = Pausing(@)]
  /\ UNCHANGED <<processes, stopped, shuttingDown, maintenance, runs, os, doomed>>

Resume(k, seen) ==
  /\ jobs[k].status = "running"
  /\ Expected(k, seen)
  /\ ~jobs[k].cancelReq
  /\ HasPause(jobs[k])
  /\ jobs' = [jobs EXCEPT ![k] = LeftPause(@)]
  /\ stopped' = LeftStopped(k)
  /\ LeavePauseSignal(k)
  /\ UNCHANGED <<processes, shuttingDown, maintenance, runs, doomed>>

\* The first critical section of wait_if_paused: a pending pause takes effect.
EnterCheckpoint(k) ==
  /\ jobs' = IF ShouldWait(k) /\ ~jobs[k].paused
             THEN [jobs EXCEPT ![k] = PausedIn(@, "checkpoint")]
             ELSE jobs
  /\ UNCHANGED <<processes, stopped, shuttingDown, maintenance, runs, os, doomed>>

\* Popen: the subprocess exists before the registry knows it.
Spawn(p) ==
  /\ os[p] = "unborn"
  /\ os' = [os EXCEPT ![p] = "live"]
  /\ UNCHANGED <<jobs, processes, stopped, shuttingDown, maintenance, runs, doomed>>

\* A pause that arrived before the subprocess was registered must stop it.
StopOnAttach(k, p) ==
  /\ jobs[k].pauseReq
  /\ jobs[k].status = "running"
  /\ p \in Pausable

\* attach_process(): refused (it raises) while shutting down.
AttachProcess(k, p) ==
  /\ ~shuttingDown
  /\ os[p] # "unborn"
  /\ processes' = [processes EXCEPT ![k] = p]
  /\ \/ /\ StopOnAttach(k, p)
        /\ os' = Frozen(p)
        /\ stopped' = stopped \union {k}
        /\ jobs' = [jobs EXCEPT ![k] = PausedIn(@, "process")]
     \/ /\ StopOnAttach(k, p) => StopFails(p)
        /\ UNCHANGED <<os, stopped, jobs>>
  /\ UNCHANGED <<shuttingDown, maintenance, runs, doomed>>

ClearProcess(k) ==
  /\ processes' = [processes EXCEPT ![k] = NoProc]
  /\ stopped' = stopped \ {k}
  /\ UNCHANGED <<jobs, shuttingDown, maintenance, runs, os, doomed>>

\* clear_if_disconnected(): the job only if its client left, the subprocess
\* entry in any case.
ClearIfDisconnected(k) ==
  /\ jobs' = IF jobs[k].disconnected THEN [jobs EXCEPT ![k] = NoJob] ELSE jobs
  /\ processes' = [processes EXCEPT ![k] = NoProc]
  /\ stopped' = stopped \ {k}
  /\ UNCHANGED <<shuttingDown, maintenance, runs, os, doomed>>

\* mark_disconnected(): active jobs are kept and marked, finished ones dropped.
DroppedOnDisconnect(j) == NoJob
RestartedOnDisconnect(j) ==
  IF Active(j) THEN [FreshJob(j.run) EXCEPT !.disconnected = TRUE] ELSE NoJob
AfterDisconnect(j) ==
  IF Active(j) THEN [j EXCEPT !.disconnected = TRUE] ELSE NoJob

MarkDisconnected(s) ==
  /\ jobs' = [k \in Keys |-> IF k[1] = s THEN AfterDisconnect(jobs[k])
                                         ELSE jobs[k]]
  /\ UNCHANGED <<processes, stopped, shuttingDown, maintenance, runs, os, doomed>>

\* The locked part of terminate_all.
Entries == {processes[k] : k \in Keys}
Tracked == {processes[k] : k \in Keys} \ {NoProc}

BeginShutdown ==
  /\ shuttingDown' = TRUE
  /\ doomed' = doomed \union Tracked
  /\ processes' = [k \in Keys |-> NoProc]
  /\ stopped' = {}
  /\ UNCHANGED <<jobs, maintenance, runs, os>>

\* SIGTERM, a grace period and SIGKILL end a subprocess, unless it belongs to
\* root and this user is not allowed to signal it.
Killed(p) ==
  \/ os' = [os EXCEPT ![p] = "ended"]
  \/ p \notin Pausable /\ UNCHANGED os

\* The unlocked part of terminate_all, per subprocess.
Reap(p) ==
  /\ p \in doomed
  /\ doomed' = doomed \ {p}
  /\ Killed(p)
  /\ UNCHANGED <<jobs, processes, stopped, shuttingDown, maintenance, runs>>

\* acquire_maintenance(): granted only when nothing is tracked; the holder of
\* the token may present it again.
NothingAttached == \A k \in Keys : processes[k] = NoProc
Idle == ActiveKeys = {} /\ \A k \in Keys : processes[k] = NoProc

AcquireMaintenance(u) ==
  /\ ~shuttingDown
  /\ Idle
  /\ maintenance \in {NoUpgrader, u}
  /\ maintenance' = u
  /\ UNCHANGED <<jobs, processes, stopped, shuttingDown, runs, os, doomed>>

ReleaseMaintenance(u) ==
  /\ maintenance = u
  /\ maintenance' = NoUpgrader
  /\ UNCHANGED <<jobs, processes, stopped, shuttingDown, runs, os, doomed>>

\* The operating system: a running subprocess ends, a suspended one cannot.
Exit(p) ==
  /\ os[p] = "live"
  /\ os' = [os EXCEPT ![p] = "ended"]
  /\ UNCHANGED <<jobs, processes, stopped, shuttingDown, maintenance, runs, doomed>>

\* A workflow thread signals its own subprocess through its handle: SIGTERM
\* (which wakes it) and SIGKILL.
Terminate(p) ==
  /\ os[p] # "unborn"
  /\ os' = Woken(p)
  /\ UNCHANGED <<jobs, processes, stopped, shuttingDown, maintenance, runs, doomed>>

Kill(p) ==
  /\ os[p] # "unborn"
  /\ Killed(p)
  /\ UNCHANGED <<jobs, processes, stopped, shuttingDown, maintenance, runs, doomed>>

-----------------------------------------------------------------------------
JobNext ==
  \E k \in Keys :
    \/ Start(k)
    \/ \E status \in Terminal : Complete(k, status)
    \/ \E seen \in 0..MaxRuns : Cancel(k, seen)
    \/ \E seen \in 0..MaxRuns : PauseProcess(k, seen)
    \/ \E seen \in 0..MaxRuns : PauseAtCheckpoint(k, seen)
    \/ \E seen \in 0..MaxRuns : Resume(k, seen)
    \/ EnterCheckpoint(k)
    \/ \E p \in Procs : AttachProcess(k, p)
    \/ ClearProcess(k)
    \/ ClearIfDisconnected(k)

ProcessNext ==
  \E p \in Procs : Spawn(p) \/ Exit(p) \/ Terminate(p) \/ Kill(p) \/ Reap(p)

ServiceNext ==
  \/ \E s \in Sids : MarkDisconnected(s)
  \/ \E u \in Upgraders : AcquireMaintenance(u) \/ ReleaseMaintenance(u)
  \/ BeginShutdown

Next == JobNext \/ ProcessNext \/ ServiceNext

Spec == Init /\ [][Next]_registryVars

-----------------------------------------------------------------------------
\* Type invariant of the registry's fields.
TypeOK ==
  /\ jobs \in [Keys -> Job]
  /\ processes \in [Keys -> Procs \union {NoProc}]
  /\ stopped \subseteq Keys
  /\ shuttingDown \in BOOLEAN
  /\ maintenance \in Upgraders \union {NoUpgrader}
  /\ runs \in 0..MaxRuns
  /\ os \in [Procs -> OSStates]
  /\ doomed \subseteq Procs

\* Admission control: cancelling and disconnected jobs still hold their slot,
\* and no call order gets more than MaxActive jobs admitted.
CapacityRespected ==
  /\ IsFiniteSet(ActiveKeys)
  /\ Cardinality(ActiveKeys) <= MaxActive

\* The maintenance fence: while a token is out no job is active, so an upgrade
\* never swaps the application under a scan the registry knows.
FenceExcludesJobs == maintenance # NoUpgrader => ActiveKeys = {}

\* A pause belongs to a running, uncancelled job: cancel, completion and a new
\* run of the key all leave it.
PauseConsistent(j) ==
  /\ HasPause(j) => j.status = "running" /\ ~j.cancelReq
  /\ j.paused => j.pauseReq
  /\ j.pauseReq <=> j.mode # "none"

PauseOnlyWhileRunning == \A k \in Keys : PauseConsistent(jobs[k])

\* A key is in the stopped set only while its job shows a process pause and its
\* subprocess is attached: resume and cancel then find what they must wake.
StoppedIsResumable ==
  \A k \in stopped :
    /\ jobs[k].paused /\ jobs[k].mode = "process"
    /\ processes[k] # NoProc

CancelKept ==
  \A k \in Keys :
    jobs[k].cancelReq /\ jobs'[k].run = jobs[k].run
      => \/ jobs'[k].cancelReq /\ jobs'[k].status # "running"
         \/ jobs'[k] = NoJob

NothingGained ==
  shuttingDown =>
    /\ shuttingDown'
    /\ ActiveKeys' \subseteq ActiveKeys
    /\ \A k \in Keys : processes'[k] \in {processes[k], NoProc}

\* Cancellation is sticky: as long as a run keeps its record it never goes back
\* to running and the request is never withdrawn, whatever pause, resume,
\* disconnect and completion race it.
CancelIsSticky == [][CancelKept]_registryVars

\* After the shutdown flag is up nothing new is admitted or attached, so the
\* processes terminate_all collected are all there will be.
ShutdownIsFinal == [][NothingGained]_registryVars
=============================================================================
