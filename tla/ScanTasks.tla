----------------------------- MODULE ScanTasks -----------------------------
(***************************************************************************)
(* The threads that use the job registry: the Socket.IO handlers that      *)
(* admit, cancel, pause and resume jobs, the background tasks that run     *)
(* scans, reports and saved-scan PDFs (nmapui/workflows.py, scan_runtime,  *)
(* report_runtime, reporting.py), the loop of run_cancellable_command and   *)
(* the shutdown reaper.  What tabs are told about a job is the subject of   *)
(* StatusPublication.                                                       *)
(*                                                                         *)
(* A task is identified by the run (source_job_id) it was admitted for;    *)
(* the code identifies it by its key (sid, job type) alone, and that is    *)
(* what the steps below use.  As in JobRegistry, an unused operator right   *)
(* before one of the same parameters is a plausible slip in it.            *)
(***************************************************************************)
EXTENDS JobRegistry

CONSTANTS
  Kinds,    \* which tasks exist: subset of {"scan", "report", "pdf"}
  Overlap,  \* may a client start a run before the previous task of the same
            \* key has finished its teardown?  (the code does not prevent it)
  Faults    \* injected failures: subset of {"schedule", "preamble", "store"}

ASSUME TasksAssumption ==
  /\ Kinds \subseteq {"scan", "report", "pdf"}
  /\ JobTypes = {"scan", "report"}
  /\ Overlap \in BOOLEAN
  /\ Faults \subseteq {"schedule", "preamble", "store"}

VARIABLES
  task,    \* one record per run: kind, key, program counter, subprocess
  gone,    \* sids that disconnected
  exited   \* os._exit was called by the shutdown handler

vars == <<jobs, processes, stopped, shuttingDown, maintenance, runs, os, doomed,
          task, gone, exited>>

-----------------------------------------------------------------------------
Runs == 1..MaxRuns

PCs == {"none", "opening", "scheduling", "preamble", "check", "parked", "spawn",
        "attach", "command", "killing", "clear", "pdfbody", "verdict",
        "reverdict", "finalize", "finalverdict", "teardown",
        "lateclear", "done", "dead"}
Phases   == {"none", "discovery", "retry", "arp", "hosts", "chunks"}
Outcomes == {"none", "ok", "timeout", "failed", "cancelled", "completed"}

Task == [kind : Kinds \union {"none"}, key : Keys \union {<<>>}, pc : PCs,
         phase : Phases, proc : Procs \union {NoProc}, outcome : Outcomes]

NoTask == [kind |-> "none", key |-> <<>>, pc |-> "none", phase |-> "none",
           proc |-> NoProc, outcome |-> "none"]

TypeOf(kind) == IF kind = "scan" THEN "scan" ELSE "report"

\* From admission until the task has published its verdict, it relies on the
\* registry entry of its key being its own.
WorkingPCs == {"opening", "scheduling", "preamble", "check", "parked", "spawn",
               "attach", "command", "killing", "clear", "pdfbody", "verdict"}
Working(r) == task[r].pc \in WorkingPCs

KeyOf(r) == task[r].key
Finished(r) == task[r].pc \in {"none", "done"}

\* Moves the task of run r; the other tasks stand still.
Goto(r, pc) == task' = [task EXCEPT ![r].pc = pc]
GotoWith(r, pc, outcome) ==
  task' = [task EXCEPT ![r].pc = pc, ![r].outcome = outcome]

At(r, pc) == ~exited /\ task[r].pc = pc

registryUnchanged == UNCHANGED registryVars
othersUnchanged   == UNCHANGED <<gone, exited>>

-----------------------------------------------------------------------------
(* Socket.IO handlers and service routes.                                   *)

\* start() in _start_scan_core, generate_report_event or
\* generate_pdf_from_saved_task, with the identity of the new run.
Admit(s, kind) ==
  LET k == <<s, TypeOf(kind)>>
      r == runs + 1
  IN  /\ ~exited
      /\ s \notin gone
      /\ Overlap \/ \A q \in Runs : task[q].key = k => Finished(q)
      /\ Start(k)
      /\ task' = [task EXCEPT ![r] = [NoTask EXCEPT !.kind = kind, !.key = k,
                                                    !.pc = "opening"]]
      /\ othersUnchanged

\* The scan and report handlers go on with the job's source_job_id, and die when
\* the entry is no longer there.
OpenSlot(r) ==
  /\ At(r, "opening")
  /\ IF task[r].kind = "pdf" THEN Goto(r, "pdfbody")
     ELSE IF jobs[KeyOf(r)].status = "absent" THEN Goto(r, "dead")
     ELSE Goto(r, "scheduling")
  /\ registryUnchanged /\ othersUnchanged

\* start_background_task: the task begins with its preamble.
Schedule(r) ==
  /\ At(r, "scheduling")
  /\ Goto(r, "preamble")
  /\ registryUnchanged /\ othersUnchanged

\* start_background_task fails: the scan handler completes the job, the report
\* handler lets the exception escape.
ScheduleFails(r) ==
  /\ At(r, "scheduling")
  /\ "schedule" \in Faults
  /\ IF task[r].kind = "scan"
     THEN Complete(KeyOf(r), "failed") /\ Goto(r, "done")
     ELSE registryUnchanged /\ Goto(r, "dead")
  /\ othersUnchanged

\* cancel_job, pause_job and resume_job name the run the client saw, or none.
ClientCancels(k, seen) ==
  ~exited /\ Cancel(k, seen) /\ UNCHANGED task /\ othersUnchanged
ClientPausesProcess(k, seen) ==
  ~exited /\ PauseProcess(k, seen) /\ UNCHANGED task /\ othersUnchanged
ClientPausesCheckpoint(k, seen) ==
  ~exited /\ PauseAtCheckpoint(k, seen) /\ UNCHANGED task /\ othersUnchanged
ClientResumes(k, seen) ==
  ~exited /\ Resume(k, seen) /\ UNCHANGED task /\ othersUnchanged

\* disconnect_event: a Socket.IO sid is never used again.
Disconnect(s) ==
  /\ ~exited
  /\ s \notin gone
  /\ gone' = gone \union {s}
  /\ MarkDisconnected(s)
  /\ UNCHANGED <<task, exited>>

FenceUp(u) ==
  ~exited /\ AcquireMaintenance(u) /\ UNCHANGED task /\ othersUnchanged
FenceDown(u) ==
  ~exited /\ ReleaseMaintenance(u) /\ UNCHANGED task /\ othersUnchanged

-----------------------------------------------------------------------------
(* The scan's preamble and its checkpoint, ensure_job_not_cancelled.        *)

ScanBegins(r) ==
  /\ At(r, "preamble")
  /\ task[r].kind = "scan"
  /\ task' = [task EXCEPT ![r].pc = "check", ![r].phase = "discovery"]
  /\ registryUnchanged /\ othersUnchanged

\* An exception before the workflow's try: the wrapper completes the job
\* and then clears the entry.
ScanInitFails(r) ==
  /\ At(r, "preamble")
  /\ task[r].kind = "scan"
  /\ "preamble" \in Faults
  /\ Complete(KeyOf(r), "failed")
  /\ Goto(r, "lateclear")
  /\ othersUnchanged

\* is_cancelled, then the first half of wait_if_paused.
Checkpoint(r) ==
  /\ At(r, "check")
  /\ IF IsCancelled(KeyOf(r))
     THEN registryUnchanged /\ GotoWith(r, "verdict", "cancelled")
     ELSE EnterCheckpoint(KeyOf(r)) /\ Goto(r, "parked")
  /\ othersUnchanged

\* What the scan does once a checkpoint lets it through.
AfterCheck(phase) ==
  IF phase = "discovery" THEN {"spawn"} ELSE {"check", "spawn", "finalize"}

\* The second half of wait_if_paused and the is_cancelled that follows it.
LeaveCheckpoint(r) ==
  /\ At(r, "parked")
  /\ ~ShouldWait(KeyOf(r))
  /\ IF IsCancelled(KeyOf(r))
     THEN GotoWith(r, "verdict", "cancelled")
     ELSE \E pc \in AfterCheck(task[r].phase) : Goto(r, pc)
  /\ registryUnchanged /\ othersUnchanged

-----------------------------------------------------------------------------
(* run_cancellable_command.                                                 *)

\* Which subprocess a phase may start: host scans and the unprivileged retry
\* never use sudo.
MaySpawn(phase, p) == phase \in {"hosts", "retry"} => p \in Pausable

StartCommand(r) ==
  /\ At(r, "spawn")
  /\ \E p \in Procs :
       /\ MaySpawn(task[r].phase, p)
       /\ Spawn(p)
       /\ task' = [task EXCEPT ![r].pc = "attach", ![r].proc = p]
  /\ othersUnchanged

\* Popen raises: arp-scan is optional, anything else fails the task.
StartCommandFails(r) ==
  /\ At(r, "spawn")
  /\ IF task[r].phase = "arp"
     THEN \E pc \in {"check", "finalize"} :
            task' = [task EXCEPT ![r].pc = pc, ![r].phase = "hosts"]
     ELSE GotoWith(r, "verdict", "failed")
  /\ registryUnchanged /\ othersUnchanged

Attach(r) ==
  /\ At(r, "attach")
  /\ AttachProcess(KeyOf(r), task[r].proc)
  /\ Goto(r, "command")
  /\ othersUnchanged

\* attach_process raises while shutting down; the finally clause kills.
AttachRefused(r) ==
  /\ At(r, "attach")
  /\ shuttingDown
  /\ GotoWith(r, "killing", "failed")
  /\ registryUnchanged /\ othersUnchanged

\* communicate() returns: the command ended, perhaps because of a cancel.
CommandEnds(r) ==
  /\ At(r, "command")
  /\ os[task[r].proc] = "ended"
  /\ GotoWith(r, "clear", IF IsCancelled(KeyOf(r)) THEN "cancelled" ELSE "ok")
  /\ registryUnchanged /\ othersUnchanged

\* A 0.2 s tick that finds the job cancelled.
TickCancelled(r) ==
  /\ At(r, "command")
  /\ os[task[r].proc] # "ended"
  /\ IsCancelled(KeyOf(r))
  /\ Terminate(task[r].proc)
  /\ GotoWith(r, "killing", "cancelled")
  /\ othersUnchanged

\* A tick that finds the deadline passed.  Paused time does not count, so it
\* does not fire while the key is in the stopped set.
TickTimesOut(r) ==
  /\ At(r, "command")
  /\ task[r].phase \in {"arp", "hosts", "chunks"}
  /\ os[task[r].proc] # "ended"
  /\ KeyOf(r) \notin stopped
  /\ Terminate(task[r].proc)
  /\ GotoWith(r, "killing", "timeout")
  /\ othersUnchanged

\* The grace period is over, or the subprocess exited on SIGTERM.
KillCommand(r) ==
  /\ At(r, "killing")
  /\ Kill(task[r].proc)
  /\ Goto(r, "clear")
  /\ othersUnchanged

\* Where the workflow goes after a command, as <<pc, phase, outcome>>.
AfterScanCommand(phase) ==
  {<<"check", "hosts", "none">>, <<"finalize", "none", "none">>,
   <<"verdict", "none", "failed">>}
    \union (IF phase \in {"discovery", "retry"}
            THEN {<<"spawn", "arp", "none">>} ELSE {})

\* A report learns why its command did not succeed by asking the registry.
ReportStopped(r) == IF IsCancelled(KeyOf(r)) THEN "cancelled" ELSE "failed"

\* A timeout splits the target into smaller chunks; an exception fails the task.
AfterReportCommand(r) ==
  LET outcome == task[r].outcome
      stop == {<<"verdict", "none", ReportStopped(r)>>}
      fail == {<<"verdict", "none", "failed">>}
      next == {<<"spawn", "chunks", "none">>}
  IN  IF outcome = "cancelled" THEN stop
      ELSE IF outcome = "failed" THEN fail
      ELSE stop \union fail \union next
             \union (IF outcome = "ok"
                     THEN {<<"verdict", "none", "completed">>} ELSE {})

\* run_arp_scan swallows every exception, a cancellation included; elsewhere a
\* cancelled or failed command ends the task.  A denied sudo discovery is
\* retried without privileges.
AfterCommand(r) ==
  LET t == task[r] IN
  IF t.phase = "arp"
  THEN {<<"check", "hosts", "none">>, <<"finalize", "none", "none">>}
  ELSE IF t.kind = "report"
  THEN AfterReportCommand(r)
  ELSE IF t.outcome \in {"cancelled", "failed"}
  THEN {<<"verdict", "none", t.outcome>>}
  ELSE AfterScanCommand(t.phase)
         \union (IF t.phase = "discovery" /\ t.proc \notin Pausable
                 THEN {<<"spawn", "retry", "none">>} ELSE {})

\* The finally clause unregisters the subprocess.
ClearCommand(r) ==
  /\ At(r, "clear")
  /\ ClearProcess(KeyOf(r))
  /\ \E next \in AfterCommand(r) :
       task' = [task EXCEPT ![r].pc = next[1], ![r].phase = next[2],
                            ![r].outcome = next[3], ![r].proc = NoProc]
  /\ othersUnchanged

-----------------------------------------------------------------------------
(* Reports and PDFs.                                                        *)

ReportProceeds(r) ==
  /\ At(r, "preamble")
  /\ task[r].kind = "report"
  /\ task' = [task EXCEPT ![r].pc = "spawn", ![r].phase = "chunks"]
  /\ registryUnchanged /\ othersUnchanged

\* No target, or one validate_target refuses: an early return outside the
\* try/finally that tears a report down.
ReportRejected(r) ==
  /\ At(r, "preamble")
  /\ task[r].kind = "report"
  /\ Complete(KeyOf(r), "failed")
  /\ Goto(r, "done")
  /\ othersUnchanged

\* An exception before the try: nothing completes the job.
ReportPreambleCrashes(r) ==
  /\ At(r, "preamble")
  /\ task[r].kind = "report"
  /\ "preamble" \in Faults
  /\ Goto(r, "dead")
  /\ registryUnchanged /\ othersUnchanged

\* Conversion of a saved scan, with no cancellation check.
PdfBody(r) ==
  /\ At(r, "pdfbody")
  /\ \E outcome \in {"completed", "failed"} : GotoWith(r, "verdict", outcome)
  /\ registryUnchanged /\ othersUnchanged

-----------------------------------------------------------------------------
(* Completion and teardown.                                                 *)

\* complete() with the outcome the body ended with.
Verdict(r) ==
  /\ At(r, "verdict") \/ At(r, "reverdict")
  /\ Complete(KeyOf(r), task[r].outcome)
  /\ Goto(r, "finalize")
  /\ othersUnchanged

\* Writing the log or the artifact row after "completed" fails: the except
\* clause completes the job again.
PostCompletionFails(r) ==
  /\ At(r, "finalize")
  /\ "store" \in Faults
  /\ task[r].kind # "scan"
  /\ task[r].outcome = "completed"
  /\ GotoWith(r, "reverdict", "failed")
  /\ registryUnchanged /\ othersUnchanged

\* The finally clause reads the job.  A scan that is still active gets a verdict
\* from what was read; a report that is still running is called completed.
FinalizeAsRead(r) ==
  IF Active(jobs[KeyOf(r)]) THEN jobs[KeyOf(r)].status ELSE "none"
FinalizeUnconditionally(r) ==
  IF task[r].kind = "pdf" THEN "none"
  ELSE IF jobs[KeyOf(r)].cancelReq THEN "cancelled" ELSE "completed"
FinalizeVerdict(r) ==
  LET j == jobs[KeyOf(r)] IN
  IF task[r].kind = "scan" /\ Active(j)
  THEN IF j.status = "cancelling" \/ j.cancelReq THEN "cancelled" ELSE "completed"
  ELSE IF task[r].kind = "report" /\ j.status = "running" THEN "completed"
  ELSE "none"

Finalize(r) ==
  /\ At(r, "finalize")
  /\ IF FinalizeVerdict(r) = "none"
     THEN GotoWith(r, "teardown", "none")
     ELSE GotoWith(r, "finalverdict", FinalizeVerdict(r))
  /\ registryUnchanged /\ othersUnchanged

FinalVerdict(r) ==
  /\ At(r, "finalverdict")
  /\ Complete(KeyOf(r), task[r].outcome)
  /\ Goto(r, "teardown")
  /\ othersUnchanged

Teardown(r) ==
  /\ At(r, "teardown")
  /\ ClearIfDisconnected(KeyOf(r))
  /\ Goto(r, "done")
  /\ othersUnchanged

LateClear(r) ==
  /\ At(r, "lateclear")
  /\ ClearIfDisconnected(KeyOf(r))
  /\ Goto(r, "done")
  /\ othersUnchanged

-----------------------------------------------------------------------------
(* Subprocesses and shutdown.                                               *)

ProcessExits(p) ==
  ~exited /\ Exit(p) /\ UNCHANGED task /\ othersUnchanged

Shutdown ==
  /\ ~exited
  /\ ~shuttingDown
  /\ BeginShutdown
  /\ UNCHANGED task /\ othersUnchanged

ReapProcess(p) ==
  ~exited /\ Reap(p) /\ UNCHANGED task /\ othersUnchanged

\* terminate_all has returned and the signal handler calls os._exit: every
\* thread stops where it is.
ServiceExits ==
  /\ ~exited
  /\ shuttingDown
  /\ doomed = {}
  /\ exited' = TRUE
  /\ registryUnchanged
  /\ UNCHANGED <<task, gone>>

-----------------------------------------------------------------------------
TaskStep(r) ==
  \/ OpenSlot(r) \/ Schedule(r) \/ ScheduleFails(r)
  \/ ScanBegins(r) \/ ScanInitFails(r)
  \/ Checkpoint(r) \/ LeaveCheckpoint(r)
  \/ StartCommand(r) \/ StartCommandFails(r)
  \/ Attach(r) \/ AttachRefused(r)
  \/ CommandEnds(r) \/ TickCancelled(r) \/ TickTimesOut(r)
  \/ KillCommand(r) \/ ClearCommand(r)
  \/ ReportProceeds(r) \/ ReportRejected(r) \/ ReportPreambleCrashes(r)
  \/ PdfBody(r)
  \/ Verdict(r) \/ PostCompletionFails(r)
  \/ Finalize(r) \/ FinalVerdict(r) \/ Teardown(r)
  \/ LateClear(r)

ClientStep(k) ==
  \/ \E seen \in 0..MaxRuns : ClientCancels(k, seen)
  \/ \E seen \in 0..MaxRuns : ClientPausesProcess(k, seen)
  \/ \E seen \in 0..MaxRuns : ClientPausesCheckpoint(k, seen)
  \/ \E seen \in 0..MaxRuns : ClientResumes(k, seen)

TasksInit ==
  /\ Init
  /\ task = [r \in Runs |-> NoTask]
  /\ gone = {}
  /\ exited = FALSE

TasksNext ==
  \/ \E s \in Sids, kind \in Kinds : Admit(s, kind)
  \/ \E s \in Sids : Disconnect(s)
  \/ \E k \in Keys : ClientStep(k)
  \/ \E r \in Runs : TaskStep(r)
  \/ \E u \in Upgraders : FenceUp(u) \/ FenceDown(u)
  \/ \E p \in Procs : ProcessExits(p) \/ ReapProcess(p)
  \/ Shutdown
  \/ ServiceExits

TasksSpec == TasksInit /\ [][TasksNext]_vars

\* Threads keep running; nothing is assumed of clients, operators or of how long
\* a subprocess takes.
Fairness == \A r \in Runs : WF_vars(TaskStep(r))

FairTasksSpec == TasksSpec /\ Fairness

-----------------------------------------------------------------------------
(* Properties.                                                              *)

\* Type invariant of the composition.
TasksTypeOK ==
  /\ TypeOK
  /\ task \in [Runs -> Task]
  /\ gone \subseteq Sids
  /\ exited \in BOOLEAN

\* Until its verdict a task finds under its key the job it was admitted for,
\* still active: its client may leave, other clients may cancel and pause, and
\* the (sid, job type) addressing of the registry never hands it another run.
TasksOwnTheirJob ==
  \A r \in Runs :
    Working(r) => jobs[KeyOf(r)].run = r /\ Active(jobs[KeyOf(r)])

\* A granted maintenance token means quiet: no task is at work and none of the
\* scanners this user may signal is left running, not even between commands,
\* while a cancelled command dies or after its client disconnected.
MaintenanceIsQuiet ==
  maintenance # NoUpgrader =>
    /\ \A r \in Runs : ~Working(r)
    /\ \A p \in Pausable : os[p] \in {"unborn", "ended"}

\* A suspended scanner can always be woken: it is the subprocess of a key in the
\* stopped set, or the shutdown reaper has it on its list.
FrozenIsReachable ==
  \A p \in Procs :
    os[p] = "frozen" => p \in doomed \/ \E k \in stopped : processes[k] = p

\* A pause that was accepted stops an unprivileged command whether it came
\* before the spawn, between spawn and attach_process, or while it ran.
PauseStopsCommand ==
  \A r \in Runs :
    /\ task[r].pc = "command"
    /\ task[r].proc \in Pausable
    /\ jobs[KeyOf(r)].status = "running"
    /\ jobs[KeyOf(r)].pauseReq
    /\ ~shuttingDown
    => os[task[r].proc] \in {"frozen", "ended"}

\* A pause holds what it stops, and whatever is stopped can be started again.
PausesHold == PauseStopsCommand /\ FrozenIsReachable

\* jobs.py, terminate_all: shutdown "does not leave orphaned nmap/arp-scan
\* processes behind".
NoOrphansAfterExit ==
  exited => \A p \in Pausable : os[p] \in {"unborn", "ended"}

\* The verdict of a run is final: no later step of its own task, of a client or
\* of a teardown turns one terminal status into another.
VerdictIsFinal ==
  [][\A k \in Keys :
       jobs[k].status \in Terminal /\ jobs'[k].run = jobs[k].run
         => jobs'[k].status \in {jobs[k].status, "absent"}]_vars

\* PROJECT_STATUS.md: "The top-level finalizer closes cancellation requests that
\* race normal completion": a run whose cancellation was accepted never shows as
\* completed.
CancelledNeverCompletes ==
  \A k \in Keys : jobs[k].cancelReq => jobs[k].status # "completed"

\* With a pause pending when a command ends, the next one waits for the resume.
NextStepWaitsForResume ==
  [][\A r \in Runs :
       /\ task[r].pc = "clear"
       /\ HasPause(jobs[KeyOf(r)])
       => task'[r].pc # "spawn"]_vars

\* A cancelled job does not stay "cancelling": parked, suspended, running or
\* between commands, its task notices and gives the verdict.
CancelEndsJob ==
  \A k \in Keys :
    jobs[k].status = "cancelling" ~> jobs[k].status # "cancelling" \/ exited
=============================================================================
