------------------------------ MODULE RuntimeStore ------------------------------
(***************************************************************************)
(* The runtime database (nmapui/runtime_db.py): its jobs and job_events    *)
(* tables, what live jobs write into them, the recovery of interrupted     *)
(* jobs at startup (nmapui/recovery.py) and the daily maintenance          *)
(* (nmapui/maintenance.py, the worker of nmapui/handlers/auto_scan.py).    *)
(*                                                                         *)
(* A write is one transaction and may raise, after its retries, leaving    *)
(* the database as it was.  The clock counts half days: UTC days begin at  *)
(* even instants, local days Shift instants earlier.  An unused operator   *)
(* right before one of the same parameters is a plausible slip in it.      *)
(***************************************************************************)
EXTENDS Integers, FiniteSets, SequencesExt

CONSTANTS
  Jobs,        \* job identifiers, numbers for their order
  Sizes,       \* bytes of an event
  MaxEvents,   \* events kept of a job
  MaxBytes,    \* bytes kept of a job
  Page,        \* rows recovery lists at a time
  Keep,        \* finished jobs retention keeps
  Shift,       \* how much earlier local days begin
  MaxNow,      \* bound: instants
  MaxEmits,    \* bound: events a task emits while it works
  MaxFaults    \* bound: crashes, and raising writes outside recovery, together

ASSUME StoreAssumption ==
  /\ Jobs \subseteq Nat \ {0} /\ IsFiniteSet(Jobs) /\ Sizes \subseteq Nat \ {0}
  /\ MaxEvents \in Nat \ {0} /\ MaxBytes \in Nat \ {0} /\ Page \in Nat \ {0} /\ Keep \in Nat \ {0}
  /\ Shift \in {0, 1} /\ MaxNow \in Nat /\ MaxEmits \in Nat /\ MaxFaults \in Nat

VARIABLES
  row,       \* jobs table: status and updated_at of each job
  stored,    \* job_events table: the events of each job
  appended,  \* how many were ever appended
  runDate,   \* run_date of the snapshot automatic_retention_status
  memory,    \* each job in the registry of the running process
  thread,    \* its thread
  boot,      \* recovery: step, cursor, page, failed writes, whether it listed all
  maint,     \* the scheduler's worker: step, local day it was queued on, its run_date
  lastDate,  \* last_maintenance_date of the scheduler loop
  now,       \* the clock
  unsaved,   \* jobs whose last write has raised
  late,      \* jobs that have appended an event after their row was pruned
  faults     \* raised writes and crashes so far

tables == <<row, stored, appended>>
daily  == <<maint, lastDate, runDate>>
ghosts == <<unsaved, late>>
vars == <<tables, memory, thread, boot, daily, now, ghosts, faults>>

-----------------------------------------------------------------------------
Never == MaxNow + 1
Absent == [status |-> "absent", stamp |-> 0]
Active == {"running", "cancelling"}

Utc == now \div 2
Local == (now + Shift) \div 2
Up == boot.pc = "up"

Save(j, status) == row' = [row EXCEPT ![j] = [status |-> status, stamp |-> now]]
Raises == faults < MaxFaults /\ faults' = faults + 1
Goto(j, pc) == thread' = [thread EXCEPT ![j] = pc]

\* ORDER BY updated_at DESC, job_id DESC
Newer(table, i, j) ==
  table[i].stamp > table[j].stamp \/ (table[i].stamp = table[j].stamp /\ i > j)

-----------------------------------------------------------------------------
(***************************************************************************)
(* append_job_event: the newest events within both limits stay.            *)
(***************************************************************************)
\* Every byte of every event, counted.
Octets(e) == {e} \X (1..e.size)
Bytes(events) == Cardinality(UNION {Octets(e) : e \in events})

Since(events, e) == {f \in events : f.n >= e.n}
OneTooMany(events) == {e \in events : Cardinality(Since(events, e)) <= MaxEvents + 1}

Newest(events) == {e \in events : Cardinality(Since(events, e)) <= MaxEvents}

Retained(events) ==
  LET newest == Newest(events) IN {e \in newest : Bytes(Since(newest, e)) <= MaxBytes}

AppendEvent(j) ==
  /\ appended' = [appended EXCEPT ![j] = @ + 1]
  /\ \E size \in Sizes :
       stored' = [stored EXCEPT ![j] = Retained(@ \union {[n |-> appended[j] + 1, size |-> size]})]

-----------------------------------------------------------------------------
(***************************************************************************)
(* Jobs of the running process.  The registry changes its copy before it   *)
(* writes the row, and a write that raises leaves the changed copy.        *)
(***************************************************************************)
Persist(j, status) ==
  /\ memory' = [memory EXCEPT ![j] = status]
  /\ \/ Save(j, status) /\ unsaved' = unsaved \ {j} /\ UNCHANGED faults
     \/ Raises /\ unsaved' = unsaved \union {j} /\ UNCHANGED row
  /\ UNCHANGED <<stored, appended, boot, daily, now, late>>

\* Identifiers are new; without its row, a job is left without a thread.
Start(j) ==
  /\ Up /\ memory[j] = "none" /\ row[j] = Absent /\ appended[j] = 0
  /\ Persist(j, "running")
  /\ Goto(j, IF j \in unsaved' THEN "none" ELSE "announce")

Cancel(j) ==
  /\ memory[j] = "running"
  /\ Persist(j, "cancelling")
  /\ UNCHANGED thread

\* An exception in the task ends it.
Progress(j) ==
  /\ thread[j] = "work"
  /\ Persist(j, memory[j])
  /\ Goto(j, IF j \in unsaved' THEN "complete" ELSE "work")

Finish(j) ==
  /\ thread[j] = "work"
  /\ Goto(j, "complete")
  /\ UNCHANGED <<tables, memory, boot, daily, now, ghosts, faults>>

\* A report whose completion cannot be written completes again, as failed.
Complete(j) ==
  /\ thread[j] \in {"complete", "again"}
  /\ Persist(j, "finished")
  /\ \E pc \in IF j \notin unsaved' THEN {"status"}
               ELSE IF thread[j] = "complete" THEN {"again", "none"} ELSE {"none"} : Goto(j, pc)

\* Every event is stored before it is sent: the status of the accepted job, what
\* the task reports, and the final status.
Emit(j) ==
  /\ \/ thread[j] = "announce" /\ Goto(j, "work")
     \/ thread[j] = "work" /\ appended[j] < MaxEmits /\ UNCHANGED thread
     \/ thread[j] = "status" /\ Goto(j, "none")
  /\ AppendEvent(j)
  /\ late' = IF row[j] = Absent THEN late \union {j} ELSE late
  /\ UNCHANGED <<row, memory, boot, daily, now, unsaved, faults>>

EmitFails(j) ==
  /\ thread[j] \in {"announce", "work", "status"}
  /\ Raises
  /\ Goto(j, IF thread[j] = "work" THEN "complete" ELSE "none")
  /\ UNCHANGED <<tables, memory, boot, daily, now, ghosts>>

-----------------------------------------------------------------------------
(***************************************************************************)
(* reconcile_interrupted_jobs, before the server starts: pages of active   *)
(* rows, each strictly behind the last row of the page before.             *)
(***************************************************************************)
Booting == [pc |-> "list", stamp |-> Never, job |-> 0, page |-> << >>, failed |-> 0, listed |-> TRUE]

Stale(j) == row[j].status \in Active

OlderStamp(j) == row[j].stamp < boot.stamp

Behind(j) == row[j].stamp < boot.stamp \/ (row[j].stamp = boot.stamp /\ j < boot.job)

\* list_jobs: the newest rows in order; only a full page leaves any out.
Listed(page, jobs) ==
  /\ \A k, l \in DOMAIN page : k < l => Newer(row, page[k], page[l])
  /\ \A j \in jobs \ ToSet(page) : Len(page) = Page /\ Newer(row, Last(page), j)

Pages(jobs) == {page \in UNION {[1..n -> jobs] : n \in 0..Page} : Listed(page, jobs)}

List ==
  /\ boot.pc = "list"
  /\ \E page \in Pages({j \in Jobs : Stale(j) /\ Behind(j)}) :
       boot' = IF page = << >> THEN [boot EXCEPT !.pc = "up"]
               ELSE [boot EXCEPT !.pc = "row", !.page = page,
                                 !.stamp = row[Last(page)].stamp, !.job = Last(page)]
  /\ UNCHANGED <<tables, memory, thread, daily, now, ghosts, faults>>

ListFails ==
  /\ boot.pc = "list"
  /\ Raises
  /\ boot' = [boot EXCEPT !.pc = "up", !.listed = FALSE]
  /\ UNCHANGED <<tables, memory, thread, daily, now, ghosts>>

NextRow(failed) ==
  boot' = [boot EXCEPT !.failed = @ + failed, !.page = Tail(@),
                       !.pc = IF Len(boot.page) = 1 THEN "list" ELSE "row"]

Interrupt ==
  /\ boot.pc = "row"
  /\ Save(Head(boot.page), "interrupted")
  /\ boot' = [boot EXCEPT !.pc = "event"]
  /\ UNCHANGED <<stored, appended, memory, thread, daily, now, ghosts, faults>>

AnnounceInterruption ==
  /\ boot.pc = "event"
  /\ AppendEvent(Head(boot.page))
  /\ NextRow(0)
  /\ UNCHANGED <<row, memory, thread, daily, now, ghosts, faults>>

\* Either write raises: the job is counted and recovery goes on.  Any row may be
\* one that cannot be written, however often it is tried.
RecoveryFails ==
  /\ boot.pc \in {"row", "event"}
  /\ NextRow(1)
  /\ UNCHANGED <<tables, memory, thread, daily, now, ghosts, faults>>

-----------------------------------------------------------------------------
(***************************************************************************)
(* Daily maintenance, in the worker the scheduler loop starts.  The loop   *)
(* remembers the local day of a run that did not raise; the snapshot,      *)
(* written last, holds its UTC day.                                        *)
(***************************************************************************)
Resting == [pc |-> "idle", local |-> Never, run |-> Never]

Tick ==
  /\ Up /\ maint.pc = "idle" /\ lastDate # Local
  /\ maint' = [pc |-> "due", local |-> Local, run |-> Never]
  /\ UNCHANGED <<tables, memory, thread, boot, lastDate, runDate, now, ghosts, faults>>

AlreadyRun == runDate = Utc

Begin ==
  /\ maint.pc = "due"
  /\ maint' = [maint EXCEPT !.pc = IF AlreadyRun THEN "work" ELSE "prune", !.run = Utc]
  /\ lastDate' = IF AlreadyRun THEN maint.local ELSE lastDate
  /\ UNCHANGED <<tables, memory, thread, boot, runDate, now, ghosts, faults>>

Over(status) == status \notin {"absent"} \union Active

Surplus(table) ==
  LET finished == {j \in Jobs : Over(table[j].status)} IN
    {j \in finished : Cardinality({i \in finished : Newer(table, i, j)}) >= Keep}

JobsFirst == row'

EventsFirst == row

\* Events first, then jobs, in one transaction.
Prune ==
  /\ maint.pc = "prune"
  /\ row' = [j \in Jobs |-> IF j \in Surplus(row) THEN Absent ELSE row[j]]
  /\ stored' = [j \in Jobs |-> IF j \in Surplus(EventsFirst) THEN {} ELSE stored[j]]
  /\ maint' = [maint EXCEPT !.pc = "snapshot"]
  /\ UNCHANGED <<appended, memory, thread, boot, lastDate, runDate, now, ghosts, faults>>

Snapshot ==
  /\ maint.pc = "snapshot"
  /\ runDate' = maint.run
  /\ lastDate' = maint.local
  /\ maint' = [maint EXCEPT !.pc = "work"]
  /\ UNCHANGED <<tables, memory, thread, boot, now, ghosts, faults>>

DateOfAttempt == maint.local

DateAfterFailure == lastDate

MaintenanceFails ==
  /\ maint.pc \in {"due", "prune", "snapshot"}
  /\ Raises
  /\ lastDate' = DateAfterFailure
  /\ maint' = [maint EXCEPT !.pc = "work"]
  /\ UNCHANGED <<tables, memory, thread, boot, runDate, now, ghosts>>

\* The worker goes on with scheduled reports; it also runs for them alone.
Work ==
  /\ \/ maint.pc = "work" /\ maint' = Resting
     \/ Up /\ maint.pc = "idle" /\ lastDate = Local /\ maint' = [Resting EXCEPT !.pc = "work"]
  /\ UNCHANGED <<tables, memory, thread, boot, lastDate, runDate, now, ghosts, faults>>

-----------------------------------------------------------------------------
TimePasses ==
  /\ now < MaxNow
  /\ now' = now + 1
  /\ UNCHANGED <<tables, memory, thread, boot, daily, ghosts, faults>>

Crash ==
  /\ Raises
  /\ memory' = [j \in Jobs |-> "none"] /\ thread' = [j \in Jobs |-> "none"]
  /\ boot' = Booting
  /\ maint' = Resting /\ lastDate' = Never
  /\ unsaved' = {}
  /\ UNCHANGED <<tables, runDate, now, late>>

Init ==
  /\ row = [j \in Jobs |-> Absent]
  /\ stored = [j \in Jobs |-> {}] /\ appended = [j \in Jobs |-> 0]
  /\ runDate = Never
  /\ memory = [j \in Jobs |-> "none"] /\ thread = [j \in Jobs |-> "none"]
  /\ boot = Booting
  /\ maint = Resting /\ lastDate = Never
  /\ now = 0
  /\ unsaved = {} /\ late = {} /\ faults = 0

JobStep(j) ==
  \/ Start(j) \/ Cancel(j) \/ Progress(j) \/ Finish(j) \/ Complete(j)
  \/ Emit(j) \/ EmitFails(j)

Recovery == List \/ ListFails \/ Interrupt \/ AnnounceInterruption \/ RecoveryFails

Maintenance == Tick \/ Begin \/ Prune \/ Snapshot \/ MaintenanceFails \/ Work

Next == (\E j \in Jobs : JobStep(j)) \/ Recovery \/ Maintenance \/ TimePasses \/ Crash

Spec == Init /\ [][Next]_vars

\* The startup code runs on, the loop ticks every minute, the worker ends.
FairSpec == Spec /\ WF_vars(Recovery) /\ WF_vars(Maintenance)

-----------------------------------------------------------------------------
Status == {"absent", "running", "cancelling", "finished", "interrupted"}

\* Every variable has its type, and no job has more events or bytes than allowed.
StoreTypeOK ==
  /\ row \in [Jobs -> [status : Status, stamp : 0..now]]
  /\ \A j \in Jobs : Cardinality(stored[j]) <= MaxEvents /\ Bytes(stored[j]) <= MaxBytes
  /\ \A j \in Jobs : stored[j] \subseteq [n : 1..appended[j], size : Sizes]
  /\ runDate \in 0..Utc \union {Never} /\ lastDate \in 0..Local \union {Never}
  /\ memory \in [Jobs -> {"none", "running", "cancelling", "finished"}]
  /\ thread \in [Jobs -> {"none", "announce", "work", "complete", "again", "status"}]
  /\ boot.pc \in {"list", "row", "event", "up"} /\ boot.failed \in 0..Cardinality(Jobs)
  /\ maint.pc \in {"idle", "due", "prune", "snapshot", "work"}
  /\ now \in 0..MaxNow /\ faults \in 0..MaxFaults
  /\ unsaved \subseteq Jobs /\ late \subseteq Jobs

\* Once the server runs, a row that says a job is active belongs to a job of this
\* process, or its last write raised, or recovery has counted it as failed.
RecoveryIsComplete ==
  Up /\ boot.listed =>
    Cardinality({j \in Jobs \ unsaved : row[j].status \in Active /\ memory[j] \notin Active})
      <= boot.failed

\* An active job keeps its row, which says what the registry says, whatever is pruned.
ActiveJobsKeepTheirRow ==
  \A j \in Jobs \ unsaved : memory[j] \in Active => row[j].status = memory[j]

\* A replay from the events table has no gap: the events of a job are its newest.
EventsHaveNoGap ==
  \A j \in Jobs : \A e \in stored[j] : \A n \in e.n..appended[j] : \E f \in stored[j] : f.n = n

\* Pruning leaves no event behind, except one appended by a finished job whose
\* row was already gone.
EventsGoWithTheirJob == \A j \in Jobs \ late : row[j] = Absent => stored[j] = {}

\* What the store holds of a job stays together, whatever is pruned, trimmed, raised or
\* interrupted (append_job_event, run_maintenance).
HistoryIsConsistent == ActiveJobsKeepTheirRow /\ EventsHaveNoGap /\ EventsGoWithTheirJob

\* Recovery ends, whatever raises and however often: the cursor passes a row that cannot
\* be written.
RecoveryEnds == ~Up ~> Up

\* No UTC day is passed over: some run ends for it, or for a later one, once half
\* of it is over, failed writes and restarts included.
EveryDayIsMaintained ==
  \A d \in 0..(MaxNow \div 2) : (now = 2 * d + 1) ~> (runDate \in d..MaxNow)

\* A start always gets to serving, and the days it serves are maintained.
DutiesAreDone == RecoveryEnds /\ EveryDayIsMaintained
=============================================================================
